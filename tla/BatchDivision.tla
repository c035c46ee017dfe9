---------------------------- MODULE BatchDivision ----------------------------
(***************************************************************************)
(* What the two divisions of BatchPartition promise, for the sizes a user  *)
(* may pass on the command line.  There is no state to speak of: a step is *)
(* another invocation with another batch size and another number of ranks. *)
(***************************************************************************)
EXTENDS BatchPartition

CONSTANTS MaxBatch, MaxProvers

ASSUME DivisionAssumption == MaxBatch \in Nat \ {0} /\ MaxProvers \in Nat \ {0}

VARIABLES batch, n

Init == batch \in 1 .. MaxBatch /\ n \in 1 .. MaxProvers

Invoke == batch' \in 1 .. MaxBatch /\ n' \in 1 .. MaxProvers

Spec == Init /\ [][Invoke]_<<batch, n>>

\* The instances of rank r (libv) and of prover pid (CMT).
Share(r) == BatchStart(batch, n, r) .. BatchEnd(batch, n, r)
CmtShare(pid) == StartInstance(batch, n, pid) .. EndInstance(batch, n, pid) - 1

\* libv: every instance of the batch belongs to exactly one rank, and no rank
\* has an instance outside the batch, also with fewer instances than ranks and
\* with a remainder (Prover::handle_terminal_request).
SharesTile ==
    /\ \A i \in 0 .. batch - 1 :
         \E r \in 1 .. n : i \in Share(r) /\ \A s \in 1 .. n : i \in Share(s) => s = r
    /\ \A r \in 1 .. n : Share(r) \subseteq 0 .. batch - 1

\* CMT: the same for the verifier's ranges, which the provers never see
\* (CMTProtocolConfig).
CmtSharesTile ==
    /\ \A i \in 0 .. batch - 1 :
         \E p \in 0 .. n - 1 : i \in CmtShare(p) /\ \A s \in 0 .. n - 1 : i \in CmtShare(s) => s = p
    /\ \A p \in 0 .. n - 1 : CmtShare(p) \subseteq 0 .. batch - 1

\* CMT: the rank that returns from main because it is larger than the batch
\* size is exactly the one the verifier gives no instance and never waits for.
IdleIffBeyondBatch ==
    \A p \in 0 .. n - 1 : CmtShare(p) = {} <=> batch < p + 1

=============================================================================
