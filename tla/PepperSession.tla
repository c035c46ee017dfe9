----------------------------- MODULE PepperSession -----------------------------
(***************************************************************************)
(* One session of the libv argument system over MPI, with the state folder *)
(* shared by every rank (FOLDER_STATE_SHARED = 1, the repository's build). *)
(*                                                                         *)
(*   rank 0        the verifier           Verifier::begin_pepper           *)
(*   rank 1        the coordinator prover Prover::handle_requests          *)
(*   rank 2, ...   the slave provers      Prover::handle_requests          *)
(*                                                                         *)
(* A prover's phase is one call of Prover::handle_terminal_request.  Each  *)
(* step of the model is the code between two points at which another rank  *)
(* can be observed: a receive, a file that somebody else reads, one        *)
(* instance of a batch loop.                                               *)
(*                                                                         *)
(* Files are abstracted to where their contents come from: "none" (never   *)
(* written), "old" (not, or not only, from this session) or "new" (this    *)
(* session's).  load_vector returns silently when a file is missing and    *)
(* leaves the caller's buffer as it was, so a file computed from a missing *)
(* or an old one is itself "old".                                          *)
(***************************************************************************)
EXTENDS Integers, Sequences, BatchPartition

CONSTANTS
    CommSize,         \* size of MPI_COMM_WORLD
    NUM_PROVERS_MAX,  \* the build's limit on provers (flags, prover.cpp)
    BatchSize         \* instances in the batch

ASSUME SessionAssumption ==
    /\ CommSize \in Nat /\ CommSize >= 2
    /\ NUM_PROVERS_MAX \in Nat /\ NUM_PROVERS_MAX >= 1
    /\ BatchSize \in Nat /\ BatchSize >= 1

VARIABLES
    pc,           \* where each rank is
    net,          \* net[s][d]: messages sent by s to d and not yet received
    phase,        \* phase[r]: the phase a prover was last invoked for, 0 at first
    batch_size,   \* batch_size[r]: the batch size a prover was told
    batch_start,  \* batch_start[r], batch_end[r]: the prover's instances
    batch_end,
    cur,          \* cur[r]: loop variable of the prover's batch loop
    num,          \* coordinator: next slave whose FINISHED is awaited
    folder,       \* the shared state folder
    beta,         \* verifier: instance under test
    result        \* verifier: conjunction of the tests so far

vars == <<pc, net, phase, batch_size, batch_start, batch_end, cur, num, folder, beta, result>>

-----------------------------------------------------------------------------
(* Ranks, tags, phases. *)

MPI_COORD_RANK == 1
Ranks     == 0 .. CommSize - 1
Provers   == 1 .. CommSize - 1
Instances == 0 .. BatchSize - 1

\* Mutant: the limit is not applied.
MutNumProcs == CommSize

\* Prover::Prover trims num_procs to the build's limit.
NumProcs == IF CommSize - 1 > NUM_PROVERS_MAX THEN NUM_PROVERS_MAX + 1 ELSE CommSize

NumSlaves == NumProcs - 1      \* num_slaves: counts the coordinator as well
Slaves    == 2 .. NumSlaves    \* the slaves that are given work
Working   == 1 .. NumSlaves

Tags == {"PARAMS", "INVOKE_PROVER", "PROVER_FINISHED", "TERMINATE", "QUERY_CREATED"}
Msg  == [tag : Tags, val : Int]
M(tag, val) == [tag |-> tag, val |-> val]

COMMITMENT     == 1
DEDUCE_QUERIES == 2
PCP            == 3

VerifierPC == {"v_params", "v_setup", "v_wait1", "v_reveal", "v_plain", "v_wait3",
               "v_test", "done", "exit"}
ProverPC   == {"p_batch", "p_start", "p_end", "p_idle", "p_phase", "p_deduce", "p_request",
               "p_queries", "p_compute", "p_commit", "p_answer", "p_finish",
               "p_wait", "p_done_files", "p_report", "done"}

Stamp  == {"none", "old", "new"}
Folder == [commitment_query : Stamp,
           input            : [Instances -> Stamp],
           output           : [Instances -> Stamp],
           assignment       : [Instances -> Stamp],
           commitment       : [Instances -> Stamp],
           seed             : Stamp,
           queries          : Stamp,
           consistency      : Stamp,
           answers          : [Instances -> Stamp],
           done             : SUBSET ((Int \ {DEDUCE_QUERIES}) \X Int)]

\* Contents computed from files with these stamps.
From(stamps) == IF stamps = {"new"} THEN "new" ELSE "old"

-----------------------------------------------------------------------------
(* MPI, external: sends are buffered (every message here is a few bytes), and   *)
(* a receive matches the earliest message of a sender that carries an accepted  *)
(* tag.                                                                         *)

Put(s, d, msgs) == [net EXCEPT ![s][d] = @ \o msgs]

PutAll(channels, s, D, msgs(_)) ==
    [channels EXCEPT ![s] = [d \in Ranks |-> IF d \in D THEN @[d] \o msgs(d) ELSE @[d]]]

FirstMatch(s, d, tags, i) ==
    /\ i \in 1 .. Len(net[s][d])
    /\ net[s][d][i].tag \in tags
    /\ \A j \in 1 .. i - 1 : net[s][d][j].tag \notin tags

Without(q, i) == SubSeq(q, 1, i - 1) \o SubSeq(q, i + 1, Len(q))

\* The channels after rank d received the i-th message of s.
Taken(s, d, i) == [net EXCEPT ![s][d] = Without(@, i)]

-----------------------------------------------------------------------------
(* Every rank is started by mpirun; the folder is either fresh or still holds   *)
(* the files of an earlier session, DONE files included.                        *)

Init ==
    /\ pc = [r \in Ranks |-> IF r = 0 THEN "v_params" ELSE "p_batch"]
    /\ net = [s \in Ranks |-> [d \in Ranks |-> <<>>]]
    /\ phase = [r \in Provers |-> 0]
    /\ batch_size = [r \in Provers |-> 0]
    /\ batch_start = [r \in Provers |-> -1]
    /\ batch_end = [r \in Provers |-> -1]
    /\ cur = [r \in Provers |-> 0]
    /\ num = 2
    /\ \E st \in {"none", "old"} :
         folder = [commitment_query |-> st,
                   input       |-> [i \in Instances |-> st],
                   output      |-> [i \in Instances |-> st],
                   assignment  |-> [i \in Instances |-> st],
                   commitment  |-> [i \in Instances |-> st],
                   seed        |-> st,
                   queries     |-> st,
                   consistency |-> st,
                   answers     |-> [i \in Instances |-> st],
                   done        |-> IF st = "none" THEN {}
                                   ELSE {COMMITMENT, PCP} \X (0 .. BatchSize)]
    /\ beta = 0
    /\ result = TRUE

-----------------------------------------------------------------------------
(* The verifier. *)

vProverVars == <<phase, batch_size, batch_start, batch_end, cur, num>>

Invoke(ph) == <<M("INVOKE_PROVER", 0), M("PARAMS", ph)>>

\* begin_pepper: the parameters.  Of the four integers sent only the batch
\* size has an effect on the protocol; the others travel with it.
SendParams ==
    /\ pc[0] = "v_params"
    /\ net' = Put(0, MPI_COORD_RANK, <<M("PARAMS", BatchSize)>>)
    /\ pc' = [pc EXCEPT ![0] = "v_setup"]
    /\ UNCHANGED <<vProverVars, folder, beta, result>>

\* create_commitment_query, create_input, invoke_prover(PHASE_PROVER_COMMITMENT)
Setup ==
    /\ pc[0] = "v_setup"
    /\ folder' = [folder EXCEPT !.commitment_query = "new",
                                !.input = [i \in Instances |-> "new"]]
    /\ net' = Put(0, MPI_COORD_RANK, Invoke(COMMITMENT))
    /\ pc' = [pc EXCEPT ![0] = "v_wait1"]
    /\ UNCHANGED <<vProverVars, beta, result>>

\* Mutant: MPI_ANY_SOURCE in the verifier's receives.
MutVerifierSource == Ranks

\* The verifier's receives name their source: rank 1.
VerifierSource == {MPI_COORD_RANK}

\* MPI_Recv of PROVER_FINISHED; recv_outputs, recv_comm_answers and
\* recv_plain_answers only measure the files when the folder is shared.
RecvFinished(from, to) ==
    /\ pc[0] = from
    /\ \E s \in VerifierSource : \E i \in 1 .. Len(net[s][0]) :
         /\ FirstMatch(s, 0, {"PROVER_FINISHED"}, i)
         /\ net' = Taken(s, 0, i)
    /\ pc' = [pc EXCEPT ![0] = to]
    /\ UNCHANGED <<vProverVars, folder, beta, result>>

RecvCommitments == RecvFinished("v_wait1", "v_reveal")
RecvAnswers     == RecvFinished("v_wait3", "v_test")

\* dump_seed_decommit_queries, invoke_prover(PHASE_PROVER_DEDUCE_QUERIES): no
\* reply is awaited.
RevealSeed ==
    /\ pc[0] = "v_reveal"
    /\ folder' = [folder EXCEPT !.seed = "new"]
    /\ net' = Put(0, MPI_COORD_RANK, Invoke(DEDUCE_QUERIES))
    /\ pc' = [pc EXCEPT ![0] = "v_plain"]
    /\ UNCHANGED <<vProverVars, beta, result>>

\* create_plain_queries, which writes the consistency queries while the
\* coordinator derives its own, and invoke_prover(PHASE_PROVER_PCP)
CreatePlainQueries ==
    /\ pc[0] = "v_plain"
    /\ folder' = [folder EXCEPT !.consistency = "new"]
    /\ net' = Put(0, MPI_COORD_RANK, Invoke(PCP))
    /\ pc' = [pc EXCEPT ![0] = "v_wait3"]
    /\ UNCHANGED <<vProverVars, beta, result>>

\* prepare_answers(beta) and run_tests(beta).  A missing answers file ends the
\* verifier; the tests of an honest prover pass when everything loaded comes
\* from this session.
RunTests ==
    /\ pc[0] = "v_test" /\ beta < BatchSize
    /\ IF folder.answers[beta] = "none"
       THEN /\ pc' = [pc EXCEPT ![0] = "exit"]
            /\ UNCHANGED <<beta, result>>
       ELSE /\ result' = (result /\ From({folder.answers[beta], folder.commitment[beta],
                                          folder.input[beta], folder.output[beta]}) = "new")
            /\ beta' = beta + 1
            /\ UNCHANGED pc
    /\ UNCHANGED <<vProverVars, net, folder>>

\* After the last test the verdict is printed, the coordinator is told to stop
\* and the verifier finalizes.
Terminate ==
    /\ pc[0] = "v_test" /\ beta = BatchSize
    /\ net' = Put(0, MPI_COORD_RANK, <<M("TERMINATE", 0)>>)
    /\ pc' = [pc EXCEPT ![0] = "done"]
    /\ UNCHANGED <<vProverVars, folder, beta, result>>

Verifier ==
    \/ SendParams \/ Setup \/ RecvCommitments \/ RevealSeed
    \/ CreatePlainQueries \/ RecvAnswers \/ RunTests \/ Terminate

-----------------------------------------------------------------------------
(* The provers. *)

vVerifierVars == <<beta, result>>
isMaster(r)   == r = MPI_COORD_RANK
Goto(r, l)    == pc' = [pc EXCEPT ![r] = l]

\* A receive from any of the given sources; the message is val's argument.
Recv(r, sources, tags, Then(_)) ==
    \E s \in sources : \E i \in 1 .. Len(net[s][r]) :
        /\ FirstMatch(s, r, tags, i)
        /\ net' = Taken(s, r, i)
        /\ Then(net[s][r][i])

\* handle_requests: the parameters, from anybody; a slave also gets its range,
\* from the coordinator.
RecvParams(r) ==
    /\ pc[r] = "p_batch"
    /\ Recv(r, Ranks, {"PARAMS"},
            LAMBDA m : batch_size' = [batch_size EXCEPT ![r] = m.val])
    /\ Goto(r, IF isMaster(r) THEN "p_idle" ELSE "p_start")
    /\ UNCHANGED <<vVerifierVars, phase, batch_start, batch_end, cur, num, folder>>

RecvBatchStart(r) ==
    /\ pc[r] = "p_start"
    /\ Recv(r, {MPI_COORD_RANK}, {"PARAMS"},
            LAMBDA m : batch_start' = [batch_start EXCEPT ![r] = m.val])
    /\ Goto(r, "p_end")
    /\ UNCHANGED <<vVerifierVars, phase, batch_size, batch_end, cur, num, folder>>

RecvBatchEnd(r) ==
    /\ pc[r] = "p_end"
    /\ Recv(r, {MPI_COORD_RANK}, {"PARAMS"},
            LAMBDA m : batch_end' = [batch_end EXCEPT ![r] = m.val])
    /\ Goto(r, "p_idle")
    /\ UNCHANGED <<vVerifierVars, phase, batch_size, batch_start, cur, num, folder>>

\* Mutant: the loop that passes TERMINATE on stops one rank early.
MutTerminateTargets == 2 .. NumProcs - 2

\* The request loop receives anything; TERMINATE is passed on to every slave,
\* by the slaves too, INVOKE_PROVER starts a phase, the rest is dropped.
TerminateTargets == 2 .. NumProcs - 1

RecvRequest(r) ==
    /\ pc[r] = "p_idle"
    /\ \E s \in Ranks : \E i \in 1 .. Len(net[s][r]) :
         /\ FirstMatch(s, r, Tags, i)
         /\ \/ /\ net[s][r][i].tag = "TERMINATE"
               /\ net' = PutAll(Taken(s, r, i), r, TerminateTargets,
                                LAMBDA d : <<M("TERMINATE", 0)>>)
               /\ Goto(r, "done")
            \/ /\ net[s][r][i].tag # "TERMINATE"
               /\ net' = Taken(s, r, i)
               /\ Goto(r, IF net[s][r][i].tag = "INVOKE_PROVER" THEN "p_phase" ELSE "p_idle")
    /\ UNCHANGED <<vVerifierVars, vProverVars, folder>>

\* The phase number.  handle_terminal_request answers DEDUCE_QUERIES first and
\* returns; the coordinator alone gets it.
RecvPhase(r) ==
    /\ pc[r] = "p_phase"
    /\ Recv(r, Ranks, {"PARAMS"},
            LAMBDA m : /\ phase' = [phase EXCEPT ![r] = m.val]
                       /\ Goto(r, IF m.val = DEDUCE_QUERIES THEN "p_deduce" ELSE "p_request"))
    /\ UNCHANGED <<vVerifierVars, batch_size, batch_start, batch_end, cur, num, folder>>

\* Mutant: FINISHED is sent after DEDUCE_QUERIES as well.
MutDeduceQueries(r) ==
    /\ pc[r] = "p_deduce"
    /\ folder' = [folder EXCEPT !.queries = From({folder.seed})]
    /\ Goto(r, "p_report")
    /\ UNCHANGED <<vVerifierVars, vProverVars, net>>

\* init_prng_decommit_queries and deduce_queries; no FINISHED is sent.
DeduceQueries(r) ==
    /\ pc[r] = "p_deduce"
    /\ folder' = [folder EXCEPT !.queries = From({folder.seed})]
    /\ Goto(r, "p_idle")
    /\ UNCHANGED <<vVerifierVars, vProverVars, net>>

\* distribute_and_invoke for rank d: parameters and range in the first phase
\* only, then the invocation; in the last phase QUERY_CREATED follows it.
Distribution(ph, batch, d) ==
    (IF ph = COMMITMENT
     THEN <<M("PARAMS", batch),
            M("PARAMS", BatchStart(batch, NumSlaves, d)),
            M("PARAMS", BatchEnd(batch, NumSlaves, d))>>
     ELSE <<>>)
    \o Invoke(ph)
    \o (IF ph = PCP THEN <<M("QUERY_CREATED", 0)>> ELSE <<>>)

\* Where the work of a phase starts.
Work(ph) == IF ph = COMMITMENT THEN "p_compute" ELSE "p_answer"

\* handle_terminal_request, coordinator: take the first share, hand out the rest.
Distribute(r) ==
    /\ pc[r] = "p_request" /\ isMaster(r)
    /\ batch_start' = [batch_start EXCEPT ![r] = BatchStart(batch_size[r], NumSlaves, 1)]
    /\ batch_end' = [batch_end EXCEPT ![r] = BatchEnd(batch_size[r], NumSlaves, 1)]
    /\ cur' = [cur EXCEPT ![r] = BatchStart(batch_size[r], NumSlaves, 1)]
    /\ net' = PutAll(net, r, Slaves, LAMBDA d : Distribution(phase[r], batch_size[r], d))
    /\ num' = 2
    /\ Goto(r, Work(phase[r]))
    /\ UNCHANGED <<vVerifierVars, phase, batch_size, folder>>

\* handle_terminal_request, slave: its range is known; in the last phase it
\* waits until the coordinator says that the queries exist.
StartPhase(r) ==
    /\ pc[r] = "p_request" /\ ~isMaster(r)
    /\ cur' = [cur EXCEPT ![r] = batch_start[r]]
    /\ Goto(r, IF phase[r] = PCP THEN "p_queries" ELSE Work(phase[r]))
    /\ UNCHANGED <<vVerifierVars, phase, batch_size, batch_start, batch_end, num, net, folder>>

RecvQueryCreated(r) ==
    /\ pc[r] = "p_queries"
    /\ Recv(r, {MPI_COORD_RANK}, {"QUERY_CREATED"}, LAMBDA m : TRUE)
    /\ Goto(r, "p_answer")
    /\ UNCHANGED <<vVerifierVars, vProverVars, folder>>

\* A batch loop: one instance per step, and where to go after the last one.
Loop(r, l, next, Body(_)) ==
    /\ pc[r] = l
    /\ IF cur[r] <= batch_end[r]
       THEN /\ folder' = Body(cur[r])
            /\ cur' = [cur EXCEPT ![r] = @ + 1]
            /\ UNCHANGED pc
       ELSE /\ Goto(r, next)
            /\ cur' = [cur EXCEPT ![r] = batch_start[r]]
            /\ UNCHANGED folder
    /\ UNCHANGED <<vVerifierVars, phase, batch_size, batch_start, batch_end, num, net>>

\* prover_do_computation: output and assignment vectors of an instance
Computed(i) ==
    [folder EXCEPT !.output[i] = From({folder.input[i]}),
                   !.assignment[i] = From({folder.input[i]})]

\* prover_interactive: the answer to the commitment query
Committed(i) ==
    [folder EXCEPT !.commitment[i] = From({folder.commitment_query, folder.assignment[i]})]

\* prover_answer_queries: the answers file of an instance
Answered(i) ==
    [folder EXCEPT !.answers[i] = From({folder.assignment[i], folder.consistency,
                                        folder.queries})]

Compute(r) == Loop(r, "p_compute", "p_commit", Computed)
Commit(r)  == Loop(r, "p_commit", "p_finish", Committed)
Answer(r)  == Loop(r, "p_answer", "p_finish", Answered)

\* The end of handle_terminal_request: a slave leaves its DONE file and tells
\* the coordinator (upload_files_to_master); the coordinator starts to wait.
SlaveFinished(r) ==
    /\ pc[r] = "p_finish" /\ ~isMaster(r)
    /\ folder' = [folder EXCEPT !.done = @ \cup {<<phase[r], batch_start[r]>>}]
    /\ net' = Put(r, MPI_COORD_RANK, <<M("PROVER_FINISHED", 0)>>)
    /\ Goto(r, "p_report")
    /\ UNCHANGED <<vVerifierVars, vProverVars>>

CoordFinished(r) ==
    /\ pc[r] = "p_finish" /\ isMaster(r)
    /\ Goto(r, IF num <= NumSlaves THEN "p_wait" ELSE "p_done_files")
    /\ UNCHANGED <<vVerifierVars, vProverVars, net, folder>>

\* Mutant: the coordinator waits for one slave too few.
MutCountFinished(r) ==
    /\ pc[r] = "p_wait"
    /\ Recv(r, Ranks, Tags,
            LAMBDA m : LET n == IF m.tag = "PROVER_FINISHED" THEN num + 1 ELSE num
                       IN  /\ num' = n
                           /\ Goto(r, IF n < NumSlaves THEN "p_wait" ELSE "p_done_files"))
    /\ UNCHANGED <<vVerifierVars, phase, batch_size, batch_start, batch_end, cur, folder>>

\* The coordinator counts PROVER_FINISHED from anybody; other messages received
\* here are dropped.
CountFinished(r) ==
    /\ pc[r] = "p_wait"
    /\ Recv(r, Ranks, Tags,
            LAMBDA m : LET n == IF m.tag = "PROVER_FINISHED" THEN num + 1 ELSE num
                       IN  /\ num' = n
                           /\ Goto(r, IF n <= NumSlaves THEN "p_wait" ELSE "p_done_files"))
    /\ UNCHANGED <<vVerifierVars, phase, batch_size, batch_start, batch_end, cur, folder>>

\* Then it polls until every DONE file exists.
PollDoneFiles(r) ==
    /\ pc[r] = "p_done_files"
    /\ \A d \in Slaves : <<phase[r], BatchStart(batch_size[r], NumSlaves, d)>> \in folder.done
    /\ Goto(r, "p_report")
    /\ UNCHANGED <<vVerifierVars, vProverVars, net, folder>>

\* handle_requests, after the phase: every prover, slaves included, reports to
\* rank 0.
Report(r) ==
    /\ pc[r] = "p_report"
    /\ net' = Put(r, 0, <<M("PROVER_FINISHED", 0)>>)
    /\ Goto(r, "p_idle")
    /\ UNCHANGED <<vVerifierVars, vProverVars, folder>>

Prover(r) ==
    \/ RecvParams(r) \/ RecvBatchStart(r) \/ RecvBatchEnd(r) \/ RecvRequest(r)
    \/ RecvPhase(r) \/ DeduceQueries(r) \/ Distribute(r) \/ StartPhase(r)
    \/ RecvQueryCreated(r) \/ Compute(r) \/ Commit(r) \/ Answer(r)
    \/ SlaveFinished(r) \/ CoordFinished(r) \/ CountFinished(r)
    \/ PollDoneFiles(r) \/ Report(r)

-----------------------------------------------------------------------------

AllDone == pc[0] = "done" /\ \A r \in Working : pc[r] = "done"

\* The session is over; nothing more happens.
Finished == AllDone /\ UNCHANGED vars

Next == Verifier \/ (\E r \in Provers : Prover(r)) \/ Finished

\* Every rank is an operating-system process that keeps running, and MPI
\* delivers what was sent.
Fairness == WF_vars(Verifier) /\ \A r \in Provers : WF_vars(Prover(r))

Spec     == Init /\ [][Next]_vars
FairSpec == Spec /\ Fairness

-----------------------------------------------------------------------------
(* Properties. *)

TypeOK ==
    /\ pc \in [Ranks -> VerifierPC \cup ProverPC]
    /\ net \in [Ranks -> [Ranks -> Seq(Msg)]]
    /\ phase \in [Provers -> Int]
    /\ batch_size \in [Provers -> Int]
    /\ batch_start \in [Provers -> Int]
    /\ batch_end \in [Provers -> Int]
    /\ cur \in [Provers -> Int]
    /\ num \in Int
    /\ folder \in Folder
    /\ beta \in 0 .. BatchSize
    /\ result \in BOOLEAN

\* The commitment is binding only if it precedes the queries: when
\* dump_seed_decommit_queries has written this session's seed, every instance's
\* assignment, output and commitment answer is already this session's,
\* whichever prover computed it.
CommitBeforeReveal ==
    folder.seed = "new" =>
        \A i \in Instances : /\ folder.output[i] = "new"
                             /\ folder.assignment[i] = "new"
                             /\ folder.commitment[i] = "new"

\* A session of honest provers is accepted: every file the verifier's tests
\* load was computed in this session from this session's inputs, seed and
\* queries, even when the folder still holds an earlier session's files.
HonestBatchAccepted == pc[0] = "done" => result

\* No prover of a phase is still in its batch loops when the coordinator has
\* reported the phase to the verifier.
Busy(r) == pc[r] \in {"p_request", "p_queries", "p_compute", "p_commit", "p_answer", "p_finish"}

PhaseBarrier ==
    pc[1] \in {"p_report", "p_idle"} /\ phase[1] \in {COMMITMENT, PCP} =>
        \A r \in Slaves : phase[r] = phase[1] /\ ~Busy(r)

\* What is never received: at the end of a session only the slaves' reports to
\* rank 0, which nobody waits for, and surplus TERMINATE messages between the
\* provers are left in the channels.
OnlyOrphans ==
    AllDone =>
        \A s, d \in Ranks : \A i \in 1 .. Len(net[s][d]) :
            \/ s \in Slaves /\ d = 0 /\ net[s][d][i].tag = "PROVER_FINISHED"
            \/ s \in Working /\ d \in Slaves /\ net[s][d][i].tag = "TERMINATE"

\* Ranks beyond the build's limit are never spoken to: they stay in their first
\* receive, and never touch the folder.
ExcessRanksParked ==
    \A r \in Provers : r > NUM_PROVERS_MAX =>
        pc[r] = "p_batch" /\ \A s \in Ranks : net[s][r] = <<>>

\* The session ends: the verifier and every prover within the limit finalize.
SessionEnds == <>[]AllDone

-----------------------------------------------------------------------------
(* The session implements the abstract argument: an instance is committed to,   *)
(* or answered, when its file of this session is in the folder.                 *)

Argument == INSTANCE BatchArgument WITH
    Instance  <- Instances,
    committed <- {i \in Instances : folder.commitment[i] = "new"},
    revealed  <- folder.seed = "new",
    answered  <- {i \in Instances : folder.answers[i] = "new"},
    verdict   <- IF pc[0] # "done" THEN "none"
                 ELSE IF result THEN "accepted" ELSE "rejected"

\* Every step of begin_pepper, handle_requests and handle_terminal_request is
\* a step of the abstract argument or leaves it unchanged; in particular no
\* answers file is computed from an unrevealed seed or after the verdict.
ImplementsArgument == Argument!AbsSpec
=============================================================================
