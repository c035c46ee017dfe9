---------------------------- MODULE BatchPartition ----------------------------
(***************************************************************************)
(* How a batch of instances is divided.  Two divisions exist in the code:  *)
(*                                                                         *)
(*   - the coordinator prover of libv keeps the first share and the whole  *)
(*     remainder, and gives every other server an equal share after it     *)
(*     (Prover::handle_terminal_request);                                  *)
(*   - the CMT verifier gives the first "extra" provers one instance more  *)
(*     than the rest (CMTProtocolConfig).                                  *)
(*                                                                         *)
(* Both are integer divisions, so the boundaries (fewer instances than     *)
(* servers, a remainder, one server) are where they could go wrong.        *)
(***************************************************************************)
EXTENDS Integers

-----------------------------------------------------------------------------
(* libv: servers are the ranks 1..n, rank 1 is the coordinator.  Ranges are  *)
(* inclusive, as batch_start and batch_end are; an empty range has           *)
(* batch_end = batch_start - 1.                                              *)

\* batches_per_server
BatchesPerServer(batch, n) == batch \div n

\* Mutant: the remainder is forgotten.
MutCoordEnd(batch, n) == BatchesPerServer(batch, n) - 1

\* batch_end of the coordinator; its batch_start is 0
CoordEnd(batch, n) == BatchesPerServer(batch, n) - 1 + (batch % n)

\* remote_batch_start when the distribution loop has reached rank r
RemoteStart(batch, n, r) ==
    CoordEnd(batch, n) + 1 + (r - 2) * BatchesPerServer(batch, n)

BatchStart(batch, n, r) == IF r = 1 THEN 0 ELSE RemoteStart(batch, n, r)

\* Mutant: the inclusive end is off by one.
MutBatchEnd(batch, n, r) ==
    IF r = 1 THEN CoordEnd(batch, n)
             ELSE RemoteStart(batch, n, r) + BatchesPerServer(batch, n)

BatchEnd(batch, n, r) ==
    IF r = 1 THEN CoordEnd(batch, n)
             ELSE RemoteStart(batch, n, r) + BatchesPerServer(batch, n) - 1

-----------------------------------------------------------------------------
(* CMT: provers are the pids 0..n-1, pid being rank - 1.  Ranges are half    *)
(* open, startInstance inclusive and endInstance exclusive.                  *)

NumResponsible(batch, n) == batch \div n

Extra(batch, n) == batch - NumResponsible(batch, n) * n

StartInstance(batch, n, pid) ==
    pid * NumResponsible(batch, n) + (IF pid < Extra(batch, n) THEN pid ELSE Extra(batch, n))

\* Mutant: the extra instance goes to one prover too many.
MutEndInstance(batch, n, pid) ==
    StartInstance(batch, n, pid) + NumResponsible(batch, n)
      + (IF pid <= Extra(batch, n) THEN 1 ELSE 0)

EndInstance(batch, n, pid) ==
    StartInstance(batch, n, pid) + NumResponsible(batch, n)
      + (IF pid < Extra(batch, n) THEN 1 ELSE 0)

=============================================================================
