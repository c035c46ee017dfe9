-------------------------- MODULE PepperSessionProofs --------------------------
(***************************************************************************)
(* Proofs about PepperSession for every number of ranks, every limit and   *)
(* every batch size: who is in excess, the safety of a session, and that   *)
(* it implements the abstract argument.                                    *)
(*                                                                         *)
(* The invariant has four parts: the dialogue of the verifier and the      *)
(* coordinator, the state of each slave relative to what the coordinator   *)
(* has handed out, the count of the slaves that reported, and what of the  *)
(* folder is this session's.                                               *)
(***************************************************************************)
EXTENDS PepperSession, ArithmeticLemmas, SequenceTheorems

(* Sequence facts. *)

\* A channel from which one message was received still holds messages only.
LEMMA WithoutType ==
    ASSUME NEW S, NEW q \in Seq(S), NEW i \in 1 .. Len(q)
    PROVE  Without(q, i) \in Seq(S)
<1>1. SubSeq(q, 1, i - 1) \in Seq(S)
  BY SubSeqProperties
<1>2. SubSeq(q, i + 1, Len(q)) \in Seq(S)
  BY SubSeqProperties
<1> QED
  BY <1>1, <1>2, ConcatProperties DEF Without

\* The channel operators keep net well typed.
LEMMA TakenType ==
    ASSUME net \in [Ranks -> [Ranks -> Seq(Msg)]],
           NEW s \in Ranks, NEW d \in Ranks, NEW i \in 1 .. Len(net[s][d])
    PROVE  /\ Taken(s, d, i) \in [Ranks -> [Ranks -> Seq(Msg)]]
           /\ net[s][d][i] \in Msg
<1>1. net[s][d] \in Seq(Msg)
  OBVIOUS
<1>2. Without(net[s][d], i) \in Seq(Msg)
  BY <1>1, WithoutType
<1> QED
  BY <1>1, <1>2 DEF Taken

LEMMA PutType ==
    ASSUME net \in [Ranks -> [Ranks -> Seq(Msg)]],
           NEW s \in Ranks, NEW d \in Ranks, NEW msgs \in Seq(Msg)
    PROVE  Put(s, d, msgs) \in [Ranks -> [Ranks -> Seq(Msg)]]
  BY ConcatProperties DEF Put

-----------------------------------------------------------------------------
(* Typing of the constants and of the operators of the session. *)

LEMMA Ranked ==
    /\ NumProcs \in Int /\ NumProcs >= 2 /\ NumProcs <= CommSize
    /\ NumSlaves \in Int /\ NumSlaves >= 1 /\ NumSlaves <= CommSize - 1
    /\ 0 \in Ranks /\ 1 \in Ranks /\ 1 \in Provers
    /\ Provers \subseteq Ranks /\ 0 \notin Provers
  BY SessionAssumption DEF NumProcs, NumSlaves, Ranks, Provers

LEMMA InvokeType == \A ph \in Int : Invoke(ph) \in Seq(Msg)
<1>1. \A v \in Int : \A t \in Tags : M(t, v) \in Msg
  BY DEF M, Msg
<1> QED
  BY <1>1 DEF Invoke, Tags

LEMMA DistributionType ==
    ASSUME NEW ph \in Int, NEW batch \in Int, NEW d \in Int
    PROVE  /\ BatchStart(batch, NumSlaves, d) \in Int
           /\ BatchEnd(batch, NumSlaves, d) \in Int
           /\ Distribution(ph, batch, d) \in Seq(Msg)
<1>1. BatchStart(batch, NumSlaves, d) \in Int /\ BatchEnd(batch, NumSlaves, d) \in Int
  BY Ranked DEF BatchStart, BatchEnd, RemoteStart, CoordEnd, BatchesPerServer
<1>2. \A v \in Int : \A t \in Tags : M(t, v) \in Msg
  BY DEF M, Msg
<1>3. Invoke(ph) \in Seq(Msg)
  BY InvokeType
<1>4. <<M("PARAMS", batch), M("PARAMS", BatchStart(batch, NumSlaves, d)),
        M("PARAMS", BatchEnd(batch, NumSlaves, d))>> \in Seq(Msg)
  BY <1>1, <1>2 DEF Tags
<1>5. <<M("QUERY_CREATED", 0)>> \in Seq(Msg) /\ <<>> \in Seq(Msg)
  BY <1>2 DEF Tags
<1> QED
  BY <1>1, <1>3, <1>4, <1>5, ConcatProperties DEF Distribution

LEMMA MessageType ==
    /\ \A b \in Int : <<M("PARAMS", b)>> \in Seq(Msg)
    /\ <<M("TERMINATE", 0)>> \in Seq(Msg)
    /\ <<M("PROVER_FINISHED", 0)>> \in Seq(Msg)
<1>1. \A v \in Int : \A t \in Tags : M(t, v) \in Msg
  BY DEF M, Msg
<1> QED
  BY <1>1 DEF Tags

LEMMA FolderType ==
    ASSUME folder \in Folder, NEW i \in Int
    PROVE  /\ Computed(i) \in Folder /\ Committed(i) \in Folder /\ Answered(i) \in Folder
           /\ \A S : From(S) \in Stamp
<1>1. \A S : From(S) \in Stamp
  BY DEF From, Stamp
<1>2. Computed(i) \in Folder
  BY <1>1 DEF Computed, Folder
<1>3. Committed(i) \in Folder
  BY <1>1 DEF Committed, Folder
<1>4. Answered(i) \in Folder
  BY <1>1 DEF Answered, Folder
<1> QED
  BY <1>1, <1>2, <1>3, <1>4

-----------------------------------------------------------------------------
(* Type correctness.  DONE files are typed by the phases that leave one, so     *)
(* the inductive invariant also says that a prover inside a phase is not in     *)
(* the one that handle_terminal_request answers before it divides the batch.    *)

InPhase == {"p_request", "p_queries", "p_compute", "p_commit", "p_answer", "p_finish"}

PhaseOfPC == \A r \in Provers : pc[r] \in InPhase => phase[r] # DEDUCE_QUERIES

TypeInv == TypeOK /\ PhaseOfPC

LEMMA InitTypeInv == Init => TypeInv
<1> SUFFICES ASSUME Init PROVE TypeInv
  OBVIOUS
<1>1. folder \in Folder
  BY SessionAssumption DEF Init, Folder, Stamp, COMMITMENT, DEDUCE_QUERIES, PCP
<1>2. net \in [Ranks -> [Ranks -> Seq(Msg)]]
  BY DEF Init
<1>3. pc \in [Ranks -> VerifierPC \cup ProverPC]
  BY DEF Init, VerifierPC, ProverPC
<1>4. PhaseOfPC
  BY Ranked DEF Init, PhaseOfPC, InPhase
<1> QED
  BY <1>1, <1>2, <1>3, <1>4, SessionAssumption DEF Init, TypeInv, TypeOK

LEMMA VerifierTypeInv == TypeInv /\ Verifier => TypeInv'
<1> SUFFICES ASSUME TypeInv, Verifier PROVE TypeInv'
  OBVIOUS
<1> USE DEF TypeInv, TypeOK, vProverVars
<1>0. PhaseOfPC'
  <2>1. \A r \in Provers : pc'[r] = pc[r]
    BY Ranked DEF Verifier, SendParams, Setup, RecvCommitments, RecvAnswers, RecvFinished,
                  RevealSeed, CreatePlainQueries, RunTests, Terminate
  <2>2. phase' = phase
    BY DEF Verifier, SendParams, Setup, RecvCommitments, RecvAnswers, RecvFinished,
           RevealSeed, CreatePlainQueries, RunTests, Terminate
  <2> QED
    BY <2>1, <2>2 DEF PhaseOfPC
<1>a. \A l \in VerifierPC \cup ProverPC :
         [pc EXCEPT ![0] = l] \in [Ranks -> VerifierPC \cup ProverPC]
  BY Ranked
<1>b. \A q \in Seq(Msg) : Put(0, 1, q) \in [Ranks -> [Ranks -> Seq(Msg)]]
  BY Ranked, PutType
<1>c. \A ph \in {1, 2, 3} : Invoke(ph) \in Seq(Msg)
  BY InvokeType
<1>1. CASE SendParams
  <2>1. pc' \in [Ranks -> VerifierPC \cup ProverPC]
    BY <1>1, <1>a DEF SendParams, VerifierPC
  <2>2. net' \in [Ranks -> [Ranks -> Seq(Msg)]]
    <3>1. <<M("PARAMS", BatchSize)>> \in Seq(Msg)
      BY MessageType, SessionAssumption
    <3> QED
      BY <1>1, <1>b, <3>1 DEF SendParams, MPI_COORD_RANK
  <2> QED
    BY <1>0, <1>1, <2>1, <2>2 DEF SendParams
<1>2. CASE Setup
  <2>1. pc' \in [Ranks -> VerifierPC \cup ProverPC]
    BY <1>2, <1>a DEF Setup, VerifierPC
  <2>2. net' \in [Ranks -> [Ranks -> Seq(Msg)]]
    BY <1>2, <1>b, <1>c DEF Setup, MPI_COORD_RANK, COMMITMENT
  <2>3. folder' \in Folder
    BY <1>2 DEF Setup, Folder, Stamp
  <2> QED
    BY <1>0, <1>2, <2>1, <2>2, <2>3 DEF Setup
<1>3. CASE RecvCommitments \/ RecvAnswers
  <2>1. pc' \in [Ranks -> VerifierPC \cup ProverPC]
    BY <1>3, <1>a DEF RecvCommitments, RecvAnswers, RecvFinished, VerifierPC
  <2>2. net' \in [Ranks -> [Ranks -> Seq(Msg)]]
    <3>1. PICK i \in 1 .. Len(net[1][0]) : net' = Taken(1, 0, i)
      BY <1>3 DEF RecvCommitments, RecvAnswers, RecvFinished, VerifierSource, MPI_COORD_RANK
    <3> QED
      BY <3>1, Ranked, TakenType
  <2> QED
    BY <1>0, <1>3, <2>1, <2>2 DEF RecvCommitments, RecvAnswers, RecvFinished
<1>4. CASE RevealSeed
  <2>1. pc' \in [Ranks -> VerifierPC \cup ProverPC]
    BY <1>4, <1>a DEF RevealSeed, VerifierPC
  <2>2. net' \in [Ranks -> [Ranks -> Seq(Msg)]]
    BY <1>4, <1>b, <1>c DEF RevealSeed, MPI_COORD_RANK, DEDUCE_QUERIES
  <2>3. folder' \in Folder
    BY <1>4 DEF RevealSeed, Folder, Stamp
  <2> QED
    BY <1>0, <1>4, <2>1, <2>2, <2>3 DEF RevealSeed
<1>5. CASE CreatePlainQueries
  <2>1. pc' \in [Ranks -> VerifierPC \cup ProverPC]
    BY <1>5, <1>a DEF CreatePlainQueries, VerifierPC
  <2>2. net' \in [Ranks -> [Ranks -> Seq(Msg)]]
    BY <1>5, <1>b, <1>c DEF CreatePlainQueries, MPI_COORD_RANK, PCP
  <2>3. folder' \in Folder
    BY <1>5 DEF CreatePlainQueries, Folder, Stamp
  <2> QED
    BY <1>0, <1>5, <2>1, <2>2, <2>3 DEF CreatePlainQueries
<1>6. CASE RunTests
  <2>1. pc' \in [Ranks -> VerifierPC \cup ProverPC]
    BY <1>6, <1>a DEF RunTests, VerifierPC
  <2>2. beta' \in 0 .. BatchSize
    BY <1>6, SessionAssumption DEF RunTests
  <2>3. result' \in BOOLEAN
    BY <1>6, Zenon DEF RunTests
  <2> QED
    BY <1>0, <1>6, <2>1, <2>2, <2>3 DEF RunTests
<1>7. CASE Terminate
  <2>1. pc' \in [Ranks -> VerifierPC \cup ProverPC]
    BY <1>7, <1>a DEF Terminate, VerifierPC
  <2>2. net' \in [Ranks -> [Ranks -> Seq(Msg)]]
    BY <1>7, <1>b, MessageType DEF Terminate, MPI_COORD_RANK
  <2> QED
    BY <1>0, <1>7, <2>1, <2>2 DEF Terminate
<1> QED
  BY <1>1, <1>2, <1>3, <1>4, <1>5, <1>6, <1>7 DEF Verifier

LEMMA ProverTypeInv ==
    ASSUME TypeInv, NEW r \in Provers, Prover(r)
    PROVE  TypeInv'
<1> USE DEF TypeInv, TypeOK, vProverVars, vVerifierVars, Goto
<1> DEFINE PCs  == [Ranks -> VerifierPC \cup ProverPC]
           Nets == [Ranks -> [Ranks -> Seq(Msg)]]
<1>a. /\ r \in Ranks /\ r \in Int /\ r # 0 /\ 0 \in Ranks /\ 1 \in Ranks
      /\ \A q \in Provers : q \in Ranks
  BY Ranked DEF Provers, Ranks
<1>b. \A l \in ProverPC : [pc EXCEPT ![r] = l] \in PCs
  BY <1>a
<1>c. \A d \in Ranks : \A q \in Seq(Msg) : Put(r, d, q) \in Nets
  BY <1>a, PutType
<1>d. \A s \in Ranks : \A i \in 1 .. Len(net[s][r]) :
         Taken(s, r, i) \in Nets /\ net[s][r][i].val \in Int
  <2> TAKE s \in Ranks
  <2> TAKE i \in 1 .. Len(net[s][r])
  <2> QED
    BY <1>a, TakenType DEF Msg
<1>1. CASE RecvParams(r)
  <2>0. PICK s \in Ranks : \E i \in 1 .. Len(net[s][r]) :
          /\ net' = Taken(s, r, i)
          /\ batch_size' = [batch_size EXCEPT ![r] = net[s][r][i].val]
    BY <1>1 DEF RecvParams, Recv
  <2>1. PICK i \in 1 .. Len(net[s][r]) :
          /\ net' = Taken(s, r, i)
          /\ batch_size' = [batch_size EXCEPT ![r] = net[s][r][i].val]
    BY <2>0
  <2>2. net' \in Nets /\ batch_size' \in [Provers -> Int]
    BY <1>d, <2>1
  <2>3. pc' \in PCs
    BY <1>1, <1>b DEF RecvParams, ProverPC
  <2>4. PhaseOfPC'
    BY <1>1, <1>a DEF RecvParams, PhaseOfPC, InPhase
  <2> QED
    BY <1>1, <2>2, <2>3, <2>4 DEF RecvParams
<1>2. CASE RecvBatchStart(r)
  <2>1. PICK i \in 1 .. Len(net[1][r]) :
          /\ net' = Taken(1, r, i)
          /\ batch_start' = [batch_start EXCEPT ![r] = net[1][r][i].val]
    BY <1>2 DEF RecvBatchStart, Recv, MPI_COORD_RANK
  <2>2. net' \in Nets /\ batch_start' \in [Provers -> Int]
    BY <1>a, <1>d, <2>1
  <2>3. pc' \in PCs
    BY <1>2, <1>b DEF RecvBatchStart, ProverPC
  <2>4. PhaseOfPC'
    BY <1>2, <1>a DEF RecvBatchStart, PhaseOfPC, InPhase
  <2> QED
    BY <1>2, <2>2, <2>3, <2>4 DEF RecvBatchStart
<1>3. CASE RecvBatchEnd(r)
  <2>1. PICK i \in 1 .. Len(net[1][r]) :
          /\ net' = Taken(1, r, i)
          /\ batch_end' = [batch_end EXCEPT ![r] = net[1][r][i].val]
    BY <1>3 DEF RecvBatchEnd, Recv, MPI_COORD_RANK
  <2>2. net' \in Nets /\ batch_end' \in [Provers -> Int]
    BY <1>a, <1>d, <2>1
  <2>3. pc' \in PCs
    BY <1>3, <1>b DEF RecvBatchEnd, ProverPC
  <2>4. PhaseOfPC'
    BY <1>3, <1>a DEF RecvBatchEnd, PhaseOfPC, InPhase
  <2> QED
    BY <1>3, <2>2, <2>3, <2>4 DEF RecvBatchEnd
<1>4. CASE RecvRequest(r)
  <2>0. PICK s \in Ranks : \E i \in 1 .. Len(net[s][r]) :
          \/ net' = Taken(s, r, i)
          \/ net' = [Taken(s, r, i) EXCEPT
                       ![r] = [d \in Ranks |-> IF d \in TerminateTargets
                                               THEN @[d] \o <<M("TERMINATE", 0)>>
                                               ELSE @[d]]]
    BY <1>4 DEF RecvRequest, PutAll
  <2>1. PICK i \in 1 .. Len(net[s][r]) :
          \/ net' = Taken(s, r, i)
          \/ net' = [Taken(s, r, i) EXCEPT
                       ![r] = [d \in Ranks |-> IF d \in TerminateTargets
                                               THEN @[d] \o <<M("TERMINATE", 0)>>
                                               ELSE @[d]]]
    BY <2>0
  <2>2. net' \in Nets
    <3> DEFINE T == Taken(s, r, i)
    <3>1. T \in Nets
      BY <1>d
    <3>2. \A d \in Ranks : T[r][d] \o <<M("TERMINATE", 0)>> \in Seq(Msg)
      BY <1>a, <3>1, MessageType, ConcatProperties
    <3>3. \/ net' = T
          \/ net' = [T EXCEPT ![r] = [d \in Ranks |-> IF d \in TerminateTargets
                                                     THEN T[r][d] \o <<M("TERMINATE", 0)>>
                                                     ELSE T[r][d]]]
      BY <1>a, <2>1, <3>1
    <3> HIDE DEF T
    <3> DEFINE U == [d \in Ranks |-> IF d \in TerminateTargets
                                     THEN T[r][d] \o <<M("TERMINATE", 0)>>
                                     ELSE T[r][d]]
    <3>4. U \in [Ranks -> Seq(Msg)]
      BY <1>a, <3>1, <3>2
    <3>5. net' = T \/ net' = [T EXCEPT ![r] = U]
      BY <3>3
    <3> HIDE DEF U
    <3> QED
      BY <1>a, <3>1, <3>4, <3>5
  <2>3. pc' \in PCs
    BY <1>4, <1>b DEF RecvRequest, ProverPC
  <2>4. PhaseOfPC'
    BY <1>4, <1>a DEF RecvRequest, PhaseOfPC, InPhase
  <2> QED
    BY <1>4, <2>2, <2>3, <2>4 DEF RecvRequest
<1>5. CASE RecvPhase(r)
  <2>0. PICK s \in Ranks : \E i \in 1 .. Len(net[s][r]) :
          /\ net' = Taken(s, r, i)
          /\ phase' = [phase EXCEPT ![r] = net[s][r][i].val]
          /\ pc' = [pc EXCEPT ![r] = IF net[s][r][i].val = DEDUCE_QUERIES
                                     THEN "p_deduce" ELSE "p_request"]
    BY <1>5 DEF RecvPhase, Recv
  <2>1. PICK i \in 1 .. Len(net[s][r]) :
          /\ net' = Taken(s, r, i)
          /\ phase' = [phase EXCEPT ![r] = net[s][r][i].val]
          /\ pc' = [pc EXCEPT ![r] = IF net[s][r][i].val = DEDUCE_QUERIES
                                     THEN "p_deduce" ELSE "p_request"]
    BY <2>0
  <2>2. net' \in Nets /\ phase' \in [Provers -> Int]
    BY <1>d, <2>1
  <2>3. pc' \in PCs
    BY <2>1, <1>b DEF ProverPC
  <2>4. PhaseOfPC'
    BY <2>1, <1>a DEF PhaseOfPC, InPhase
  <2> QED
    BY <1>5, <2>2, <2>3, <2>4 DEF RecvPhase
<1>6. CASE DeduceQueries(r)
  <2>1. folder' \in Folder
    <3>1. From({folder.seed}) \in Stamp
      BY DEF From, Stamp
    <3> QED
      BY <1>6, <3>1 DEF DeduceQueries, Folder
  <2>2. pc' \in PCs
    BY <1>6, <1>b DEF DeduceQueries, ProverPC
  <2>3. PhaseOfPC'
    BY <1>6, <1>a DEF DeduceQueries, PhaseOfPC, InPhase
  <2> QED
    BY <1>6, <2>1, <2>2, <2>3 DEF DeduceQueries
<1>7. CASE Distribute(r)
  <2>1. phase[r] \in Int /\ batch_size[r] \in Int
    OBVIOUS
  <2>2. net' \in Nets
    <3>1. \A d \in Ranks : net[r][d] \o Distribution(phase[r], batch_size[r], d) \in Seq(Msg)
      <4> TAKE d \in Ranks
      <4>1. d \in Int
        BY DEF Ranks
      <4>2. Distribution(phase[r], batch_size[r], d) \in Seq(Msg)
        BY <2>1, <4>1, DistributionType
      <4> QED
        BY <1>a, <4>2, ConcatProperties
    <3>2. net' = [net EXCEPT ![r] = [d \in Ranks |->
                    IF d \in Slaves THEN @[d] \o Distribution(phase[r], batch_size[r], d)
                                    ELSE @[d]]]
      BY <1>7 DEF Distribute, PutAll
    <3> QED
      BY <1>a, <3>1, <3>2
  <2>3. pc' \in PCs
    BY <1>7, <1>b DEF Distribute, Work, ProverPC
  <2>4. PhaseOfPC'
    BY <1>7, <1>a DEF Distribute, PhaseOfPC, InPhase
  <2>5. BatchStart(batch_size[r], NumSlaves, 1) \in Int /\ BatchEnd(batch_size[r], NumSlaves, 1) \in Int
    BY <2>1, DistributionType
  <2>6. /\ batch_start' \in [Provers -> Int] /\ batch_end' \in [Provers -> Int]
        /\ cur' \in [Provers -> Int] /\ num' \in Int
    BY <1>7, <2>5 DEF Distribute
  <2> QED
    BY <1>7, <2>2, <2>3, <2>4, <2>6 DEF Distribute
<1>8. CASE StartPhase(r)
  <2>1. pc' \in PCs
    BY <1>8, <1>b DEF StartPhase, Work, ProverPC
  <2>2. PhaseOfPC'
    BY <1>8, <1>a DEF StartPhase, PhaseOfPC, InPhase
  <2>3. cur' \in [Provers -> Int]
    BY <1>8 DEF StartPhase
  <2> QED
    BY <1>8, <2>1, <2>2, <2>3 DEF StartPhase
<1>9. CASE RecvQueryCreated(r)
  <2>1. PICK i \in 1 .. Len(net[1][r]) : net' = Taken(1, r, i)
    BY <1>9 DEF RecvQueryCreated, Recv, MPI_COORD_RANK
  <2>2. net' \in Nets
    BY <1>a, <1>d, <2>1
  <2>3. pc' \in PCs
    BY <1>9, <1>b DEF RecvQueryCreated, ProverPC
  <2>4. PhaseOfPC'
    BY <1>9, <1>a DEF RecvQueryCreated, PhaseOfPC, InPhase
  <2> QED
    BY <1>9, <2>2, <2>3, <2>4 DEF RecvQueryCreated
<1>10. CASE Compute(r) \/ Commit(r) \/ Answer(r)
  <2>1. folder' \in Folder
    BY <1>10, FolderType DEF Compute, Commit, Answer, Loop
  <2>2. pc' \in PCs
    BY <1>10, <1>b DEF Compute, Commit, Answer, Loop, ProverPC
  <2>3. cur' \in [Provers -> Int]
    BY <1>10 DEF Compute, Commit, Answer, Loop
  <2>4. PhaseOfPC'
    BY <1>10, <1>a DEF Compute, Commit, Answer, Loop, PhaseOfPC, InPhase
  <2> QED
    BY <1>10, <2>1, <2>2, <2>3, <2>4 DEF Compute, Commit, Answer, Loop
<1>11. CASE SlaveFinished(r)
  <2>1. phase[r] \in Int \ {DEDUCE_QUERIES} /\ batch_start[r] \in Int
    BY <1>11 DEF SlaveFinished, PhaseOfPC, InPhase
  <2>2. folder' \in Folder
    <3>1. <<phase[r], batch_start[r]>> \in (Int \ {DEDUCE_QUERIES}) \X Int
      BY <2>1
    <3>2. folder.done \cup {<<phase[r], batch_start[r]>>}
            \in SUBSET ((Int \ {DEDUCE_QUERIES}) \X Int)
      BY <3>1 DEF Folder
    <3>3. folder' = [folder EXCEPT !.done = folder.done \cup {<<phase[r], batch_start[r]>>}]
      BY <1>11 DEF SlaveFinished
    <3> QED
      BY <3>2, <3>3 DEF Folder
  <2>3. net' \in Nets
    BY <1>11, <1>a, <1>c, MessageType DEF SlaveFinished, MPI_COORD_RANK
  <2>4. pc' \in PCs
    BY <1>11, <1>b DEF SlaveFinished, ProverPC
  <2>5. PhaseOfPC'
    BY <1>11, <1>a DEF SlaveFinished, PhaseOfPC, InPhase
  <2> QED
    BY <1>11, <2>2, <2>3, <2>4, <2>5 DEF SlaveFinished
<1>12. CASE CoordFinished(r) \/ PollDoneFiles(r)
  <2>1. pc' \in PCs
    BY <1>12, <1>b DEF CoordFinished, PollDoneFiles, ProverPC
  <2>2. PhaseOfPC'
    BY <1>12, <1>a DEF CoordFinished, PollDoneFiles, PhaseOfPC, InPhase
  <2> QED
    BY <1>12, <2>1, <2>2 DEF CoordFinished, PollDoneFiles
<1>13. CASE CountFinished(r)
  <2>0. PICK s \in Ranks : \E i \in 1 .. Len(net[s][r]) :
          /\ net' = Taken(s, r, i)
          /\ num' \in {num, num + 1}
          /\ pc' \in {[pc EXCEPT ![r] = "p_wait"], [pc EXCEPT ![r] = "p_done_files"]}
    BY <1>13 DEF CountFinished, Recv
  <2>1. PICK i \in 1 .. Len(net[s][r]) :
          /\ net' = Taken(s, r, i)
          /\ num' \in {num, num + 1}
          /\ pc' \in {[pc EXCEPT ![r] = "p_wait"], [pc EXCEPT ![r] = "p_done_files"]}
    BY <2>0
  <2>2. net' \in Nets /\ num' \in Int
    BY <1>d, <2>1
  <2>3. pc' \in PCs
    BY <2>1, <1>b DEF ProverPC
  <2>4. PhaseOfPC'
    BY <1>13, <2>1, <1>a DEF CountFinished, PhaseOfPC, InPhase
  <2> QED
    BY <1>13, <2>2, <2>3, <2>4 DEF CountFinished
<1>14. CASE Report(r)
  <2>1. net' \in Nets
    BY <1>14, <1>a, <1>c, MessageType DEF Report
  <2>2. pc' \in PCs
    BY <1>14, <1>b DEF Report, ProverPC
  <2>3. PhaseOfPC'
    BY <1>14, <1>a DEF Report, PhaseOfPC, InPhase
  <2> QED
    BY <1>14, <2>1, <2>2, <2>3 DEF Report
<1> QED
  BY <1>1, <1>2, <1>3, <1>4, <1>5, <1>6, <1>7, <1>8, <1>9, <1>10, <1>11, <1>12, <1>13,
     <1>14 DEF Prover

LEMMA TypeInvAlways == Spec => []TypeInv
<1>1. TypeInv /\ [Next]_vars => TypeInv'
  <2> SUFFICES ASSUME TypeInv, [Next]_vars PROVE TypeInv'
    OBVIOUS
  <2>1. CASE Verifier
    BY <2>1, VerifierTypeInv
  <2>2. CASE \E r \in Provers : Prover(r)
    BY <2>2, ProverTypeInv
  <2>3. CASE UNCHANGED vars
    BY <2>3 DEF vars, TypeInv, TypeOK, PhaseOfPC
  <2> QED
    BY <2>1, <2>2, <2>3 DEF Next, Finished
<1> QED
  BY InitTypeInv, <1>1, PTL DEF Spec

\* The session is type correct for every number of ranks and every batch: the
\* channels hold only well-formed messages, the batch loops write only stamped
\* files, and no DONE file is left by the query-derivation phase.
THEOREM TypeCorrect == Spec => []TypeOK
<1>1. TypeInv => TypeOK
  BY DEF TypeInv
<1> QED
  BY TypeInvAlways, <1>1, PTL

-----------------------------------------------------------------------------
(* Ranks beyond the limit.  Nobody addresses them: every send goes to rank 0,   *)
(* to the coordinator or to a rank of 2..NumProcs-1, and without a message      *)
(* their first receive blocks.                                                  *)

Excess == {q \in Provers : q > NUM_PROVERS_MAX}

LEMMA ExcessRanks ==
    ASSUME NEW q \in Excess
    PROVE  q \in Ranks /\ q # 0 /\ q # 1 /\ q \notin Slaves /\ q \notin TerminateTargets
  BY SessionAssumption
     DEF Excess, Provers, Ranks, Slaves, TerminateTargets, NumSlaves, NumProcs

\* A message put into or taken from a channel to d leaves the other channels alone.
LEMMA PutOther ==
    ASSUME net \in [Ranks -> [Ranks -> Seq(Msg)]], NEW msgs,
           NEW s \in Ranks, NEW d \in Ranks, NEW a \in Ranks, NEW b \in Ranks, b # d
    PROVE  Put(s, d, msgs)[a][b] = net[a][b]
  BY DEF Put

LEMMA TakenOther ==
    ASSUME net \in [Ranks -> [Ranks -> Seq(Msg)]], NEW i,
           NEW s \in Ranks, NEW d \in Ranks, NEW a \in Ranks, NEW b \in Ranks, b # d
    PROVE  Taken(s, d, i)[a][b] = net[a][b]
  BY DEF Taken

LEMMA VerifierParks ==
    ASSUME TypeInv, Verifier, NEW q \in Excess, NEW s \in Ranks
    PROVE  pc'[q] = pc[q] /\ net'[s][q] = net[s][q]
<1> USE DEF TypeInv, TypeOK
<1>1. q \in Ranks /\ q # 0 /\ q # 1 /\ 0 \in Ranks /\ 1 \in Ranks
  BY ExcessRanks, Ranked
<1>2. pc'[q] = pc[q]
  BY <1>1 DEF Verifier, SendParams, Setup, RecvCommitments, RecvAnswers, RecvFinished,
              RevealSeed, CreatePlainQueries, RunTests, Terminate
<1>t. net \in [Ranks -> [Ranks -> Seq(Msg)]]
  OBVIOUS
<1>3. \A msgs : Put(0, 1, msgs)[s][q] = net[s][q]
  <2> HIDE DEF TypeInv, TypeOK
  <2> QED
    BY <1>t, <1>1, PutOther
<1>4. \A i : Taken(1, 0, i)[s][q] = net[s][q]
  <2> HIDE DEF TypeInv, TypeOK
  <2> QED
    BY <1>t, <1>1, TakenOther
<1>5. net'[s][q] = net[s][q]
  BY <1>3, <1>4 DEF Verifier, SendParams, Setup, RecvCommitments, RecvAnswers, RecvFinished,
                    RevealSeed, CreatePlainQueries, RunTests, Terminate, VerifierSource,
                    MPI_COORD_RANK
<1> QED
  BY <1>2, <1>5

LEMMA ProverParks ==
    ASSUME TypeInv, ExcessRanksParked, NEW r \in Provers, Prover(r),
           NEW q \in Excess, NEW s \in Ranks
    PROVE  pc'[q] = pc[q] /\ net'[s][q] = net[s][q]
<1> USE DEF TypeInv, TypeOK, Goto
<1>1. /\ q \in Ranks /\ q # 0 /\ q # 1 /\ q \notin Slaves /\ q \notin TerminateTargets
      /\ 0 \in Ranks /\ 1 \in Ranks /\ r \in Ranks /\ q \in Provers
  BY ExcessRanks, Ranked DEF Excess
<1>2. pc[q] = "p_batch" /\ \A a \in Ranks : net[a][q] = <<>>
  BY <1>1 DEF ExcessRanksParked, Excess
<1>3. r # q
  <2> SUFFICES ASSUME r = q PROVE FALSE
    OBVIOUS
  <2>a. /\ RecvBatchStart(r) => pc[r] = "p_start"
        /\ RecvBatchEnd(r) => pc[r] = "p_end"
        /\ RecvRequest(r) => pc[r] = "p_idle"
        /\ RecvPhase(r) => pc[r] = "p_phase"
        /\ RecvQueryCreated(r) => pc[r] = "p_queries"
        /\ CountFinished(r) => pc[r] = "p_wait"
    BY DEF RecvBatchStart, RecvBatchEnd, RecvRequest, RecvPhase, RecvQueryCreated, CountFinished
  <2>b. /\ DeduceQueries(r) => pc[r] = "p_deduce"
        /\ Distribute(r) \/ StartPhase(r) => pc[r] = "p_request"
        /\ Compute(r) => pc[r] = "p_compute"
        /\ Commit(r) => pc[r] = "p_commit"
        /\ Answer(r) => pc[r] = "p_answer"
        /\ SlaveFinished(r) \/ CoordFinished(r) => pc[r] = "p_finish"
        /\ PollDoneFiles(r) => pc[r] = "p_done_files"
        /\ Report(r) => pc[r] = "p_report"
    BY DEF DeduceQueries, Distribute, StartPhase, Compute, Commit, Answer, Loop, SlaveFinished,
           CoordFinished, PollDoneFiles, Report
  <2>1. RecvParams(q)
    BY <1>2, <2>a, <2>b DEF Prover
  <2>2. PICK a \in Ranks : \E i \in 1 .. Len(net[a][q]) : net' = Taken(a, q, i)
    BY <2>1 DEF RecvParams, Recv
  <2>3. Len(net[a][q]) = 0
    BY <1>2
  <2> QED
    BY <2>2, <2>3
<1>4. pc'[q] = pc[q]
  BY <1>1, <1>3 DEF Prover, RecvParams, RecvBatchStart, RecvBatchEnd, RecvRequest, RecvPhase,
     Recv, DeduceQueries, Distribute, StartPhase, RecvQueryCreated, Compute, Commit, Answer,
     Loop, SlaveFinished, CoordFinished, CountFinished, PollDoneFiles, Report
<1>n. net \in [Ranks -> [Ranks -> Seq(Msg)]] /\ q # r
  BY <1>3
<1>a. \A a \in Ranks : \A i : Taken(a, r, i)[s][q] = net[s][q]
  <2> TAKE a \in Ranks
  <2> TAKE i
  <2> QED
    BY <1>1, <1>n, SMT DEF Taken
<1>b. \A msgs : Put(r, 0, msgs)[s][q] = net[s][q] /\ Put(r, 1, msgs)[s][q] = net[s][q]
  <2> TAKE msgs
  <2> QED
    BY <1>1, <1>n, SMT DEF Put
<1>5. net'[s][q] = net[s][q]
  <2>1. CASE RecvParams(r)
    BY <2>1, <1>a DEF RecvParams, Recv
  <2>2. CASE RecvBatchStart(r) \/ RecvBatchEnd(r)
    <3>1. \E i : net' = Taken(1, r, i)
      BY <2>2 DEF RecvBatchStart, RecvBatchEnd, Recv, MPI_COORD_RANK
    <3> QED
      BY <1>1, <1>a, <3>1
  <2>3. CASE RecvRequest(r)
    <3>1. PICK a \in Ranks : \E i \in 1 .. Len(net[a][r]) :
            \/ net' = Taken(a, r, i)
            \/ net' = [Taken(a, r, i) EXCEPT
                         ![r] = [d \in Ranks |-> IF d \in TerminateTargets
                                                 THEN @[d] \o <<M("TERMINATE", 0)>>
                                                 ELSE @[d]]]
      BY <2>3 DEF RecvRequest, PutAll
    <3>2. PICK i \in 1 .. Len(net[a][r]) :
            \/ net' = Taken(a, r, i)
            \/ net' = [Taken(a, r, i) EXCEPT
                         ![r] = [d \in Ranks |-> IF d \in TerminateTargets
                                                 THEN @[d] \o <<M("TERMINATE", 0)>>
                                                 ELSE @[d]]]
      BY <3>1
    <3> DEFINE T == Taken(a, r, i)
    <3>3. T[s][q] = net[s][q]
      BY <1>a
    <3>4. T \in [Ranks -> [Ranks -> Seq(Msg)]]
      BY <1>1, TakenType
    <3>5. net' = T \/ net' = [T EXCEPT ![r] = [d \in Ranks |-> IF d \in TerminateTargets
                                                 THEN T[r][d] \o <<M("TERMINATE", 0)>>
                                                 ELSE T[r][d]]]
      BY <1>1, <3>2, <3>4
    <3> HIDE DEF T
    <3> DEFINE U == [d \in Ranks |-> IF d \in TerminateTargets
                                     THEN T[r][d] \o <<M("TERMINATE", 0)>>
                                     ELSE T[r][d]]
    <3>6. U[q] = T[r][q]
      BY <1>1
    <3>7. net' = T \/ net' = [T EXCEPT ![r] = U]
      BY <3>5
    <3> HIDE DEF U
    <3> QED
      BY <1>1, <3>3, <3>4, <3>6, <3>7
  <2>4. CASE RecvPhase(r)
    <3>1. \E a \in Ranks : \E i \in 1 .. Len(net[a][r]) : net' = Taken(a, r, i)
      BY <2>4 DEF RecvPhase, Recv
    <3> QED
      BY <1>a, <3>1
  <2>5. CASE Distribute(r)
    <3> DEFINE U == [d \in Ranks |-> IF d \in Slaves
                                     THEN net[r][d] \o Distribution(phase[r], batch_size[r], d)
                                     ELSE net[r][d]]
    <3>1. net' = [net EXCEPT ![r] = U]
      BY <2>5, <1>1 DEF Distribute, PutAll
    <3>2. U[q] = net[r][q]
      BY <1>1
    <3> HIDE DEF U
    <3> QED
      BY <1>1, <3>1, <3>2
  <2>6. CASE RecvQueryCreated(r)
    BY <2>6, <1>1, <1>a DEF RecvQueryCreated, Recv, MPI_COORD_RANK
  <2>7. CASE CountFinished(r)
    <3>1. \E a \in Ranks : \E i \in 1 .. Len(net[a][r]) : net' = Taken(a, r, i)
      BY <2>7 DEF CountFinished, Recv
    <3> QED
      BY <1>a, <3>1
  <2>8. CASE SlaveFinished(r) \/ Report(r)
    BY <2>8, <1>b DEF SlaveFinished, Report, MPI_COORD_RANK
  <2>9. CASE DeduceQueries(r) \/ StartPhase(r) \/ Compute(r) \/ Commit(r) \/ Answer(r)
             \/ CoordFinished(r) \/ PollDoneFiles(r)
    BY <2>9 DEF DeduceQueries, StartPhase, Compute, Commit, Answer, Loop, CoordFinished,
                PollDoneFiles
  <2> QED
    BY <2>1, <2>2, <2>3, <2>4, <2>5, <2>6, <2>7, <2>8, <2>9 DEF Prover
<1> QED
  BY <1>4, <1>5

\* However many ranks mpirun starts, those beyond NUM_PROVERS_MAX are never sent
\* anything and never leave their first receive (Prover::Prover trims num_procs;
\* no loop over ranks goes beyond it).
THEOREM ExcessRanksParkedAlways == Spec => []ExcessRanksParked
<1>1. Init => ExcessRanksParked
  BY Ranked DEF Init, ExcessRanksParked
<1>2. TypeInv /\ ExcessRanksParked /\ [Next]_vars => ExcessRanksParked'
  <2> SUFFICES ASSUME TypeInv, ExcessRanksParked, [Next]_vars PROVE ExcessRanksParked'
    OBVIOUS
  <2>1. ASSUME NEW q \in Excess, NEW s \in Ranks
        PROVE  pc'[q] = pc[q] /\ net'[s][q] = net[s][q]
    <3>1. CASE Verifier
      BY <3>1, VerifierParks
    <3>2. CASE \E r \in Provers : Prover(r)
      BY <3>2, ProverParks
    <3>3. CASE UNCHANGED vars
      BY <3>3 DEF vars
    <3> QED
      BY <3>1, <3>2, <3>3 DEF Next, Finished
  <2> QED
    BY <2>1, Ranked DEF ExcessRanksParked, Excess
<1> QED
  BY <1>1, <1>2, TypeInvAlways, PTL DEF Spec

-----------------------------------------------------------------------------
(* The dialogue: where the coordinator is, relative to the verifier, and what   *)
(* lies between them.                                                           *)

INVOKE  == M("INVOKE_PROVER", 0)
PARAM(v) == M("PARAMS", v)
FINISH  == M("PROVER_FINISHED", 0)
CREATED == M("QUERY_CREATED", 0)
TERM    == M("TERMINATE", 0)

\* The coordinator has been invoked for phase ph and has not reported it.
Engaged(ph) ==
    /\ phase[1] = ph /\ net[0][1] = << >> /\ net[1][0] = << >>
    /\ pc[1] \in {"p_request", "p_finish", "p_wait", "p_done_files", "p_report"}
                   \cup (IF ph = COMMITMENT THEN {"p_compute", "p_commit"} ELSE {"p_answer"})

\* It waits for a request, q being what the verifier has sent it.
Waits(ph, q, a) == pc[1] = "p_idle" /\ phase[1] = ph /\ net[0][1] = q /\ net[1][0] = a
Told(ph, q)     == pc[1] = "p_phase" /\ phase[1] = ph /\ net[0][1] = q /\ net[1][0] = << >>

Dialogue ==
    /\ pc[0] = "v_params" => pc[1] = "p_batch" /\ phase[1] = 0 /\ net[0][1] = << >> /\ net[1][0] = << >>
    /\ pc[0] = "v_setup" =>
         \/ pc[1] = "p_batch" /\ phase[1] = 0 /\ net[0][1] = << PARAM(BatchSize) >> /\ net[1][0] = << >>
         \/ Waits(0, << >>, << >>)
    /\ pc[0] = "v_wait1" =>
         \/ /\ pc[1] = "p_batch" /\ phase[1] = 0 /\ net[1][0] = << >>
            /\ net[0][1] = << PARAM(BatchSize), INVOKE, PARAM(COMMITMENT) >>
         \/ Waits(0, << INVOKE, PARAM(COMMITMENT) >>, << >>)
         \/ Told(0, << PARAM(COMMITMENT) >>)
         \/ Engaged(COMMITMENT)
         \/ Waits(COMMITMENT, << >>, << FINISH >>)
    /\ pc[0] = "v_reveal" => Waits(COMMITMENT, << >>, << >>)
    /\ pc[0] = "v_plain" =>
         \/ Waits(COMMITMENT, << INVOKE, PARAM(DEDUCE_QUERIES) >>, << >>)
         \/ Told(COMMITMENT, << PARAM(DEDUCE_QUERIES) >>)
         \/ /\ pc[1] = "p_deduce" /\ phase[1] = DEDUCE_QUERIES
            /\ net[0][1] = << >> /\ net[1][0] = << >>
         \/ Waits(DEDUCE_QUERIES, << >>, << >>)
    /\ pc[0] = "v_wait3" =>
         \/ Waits(COMMITMENT, << INVOKE, PARAM(DEDUCE_QUERIES), INVOKE, PARAM(PCP) >>, << >>)
         \/ Told(COMMITMENT, << PARAM(DEDUCE_QUERIES), INVOKE, PARAM(PCP) >>)
         \/ /\ pc[1] = "p_deduce" /\ phase[1] = DEDUCE_QUERIES
            /\ net[0][1] = << INVOKE, PARAM(PCP) >> /\ net[1][0] = << >>
         \/ Waits(DEDUCE_QUERIES, << INVOKE, PARAM(PCP) >>, << >>)
         \/ Told(DEDUCE_QUERIES, << PARAM(PCP) >>)
         \/ Engaged(PCP)
         \/ Waits(PCP, << >>, << FINISH >>)
    /\ pc[0] = "v_test" => Waits(PCP, << >>, << >>)
    /\ pc[0] = "done" =>
         \/ Waits(PCP, << TERM >>, << >>)
         \/ pc[1] = "done" /\ phase[1] = PCP /\ net[0][1] = << >> /\ net[1][0] = << >>
    /\ pc[0] \in VerifierPC \ {"exit"}
    /\ pc[1] = "p_batch" \/ batch_size[1] = BatchSize

-----------------------------------------------------------------------------
(* The slaves, by what the coordinator has handed out. *)

\* Nothing yet; phase ph, and not every FINISHED is counted; nothing since all
\* slaves finished the first phase; nothing since they finished the last; TERMINATE.
Before     == phase[1] = 0 \/ (phase[1] = COMMITMENT /\ pc[1] = "p_request")
HandedOut(ph) == phase[1] = ph /\ pc[1] \in {"p_compute", "p_commit", "p_answer", "p_finish", "p_wait"}
Between    == \/ phase[1] = COMMITMENT /\ pc[1] \in {"p_done_files", "p_report", "p_idle", "p_phase"}
              \/ phase[1] = DEDUCE_QUERIES
              \/ phase[1] = PCP /\ pc[1] = "p_request"
AllAnswered == phase[1] = PCP /\ pc[1] \in {"p_done_files", "p_report", "p_idle"}
Over       == pc[1] = "done"

ShareStart(r) == BatchStart(BatchSize, NumSlaves, r)
ShareEnd(r)   == BatchEnd(BatchSize, NumSlaves, r)
Ranged(r)     == batch_start[r] = ShareStart(r) /\ batch_end[r] = ShareEnd(r)

\* Slave d has finished phase ph.
Reported(d, ph) == phase[d] = ph /\ pc[d] \in {"p_report", "p_idle"}

\* Slave d before it has finished the first phase ...
FirstPhase(d) ==
    \/ /\ pc[d] = "p_batch" /\ phase[d] = 0
       /\ net[1][d] = << PARAM(BatchSize), PARAM(ShareStart(d)), PARAM(ShareEnd(d)),
                         INVOKE, PARAM(COMMITMENT) >>
    \/ /\ pc[d] = "p_start" /\ phase[d] = 0
       /\ net[1][d] = << PARAM(ShareStart(d)), PARAM(ShareEnd(d)), INVOKE, PARAM(COMMITMENT) >>
    \/ /\ pc[d] = "p_end" /\ phase[d] = 0 /\ batch_start[d] = ShareStart(d)
       /\ net[1][d] = << PARAM(ShareEnd(d)), INVOKE, PARAM(COMMITMENT) >>
    \/ pc[d] = "p_idle" /\ phase[d] = 0 /\ Ranged(d) /\ net[1][d] = << INVOKE, PARAM(COMMITMENT) >>
    \/ pc[d] = "p_phase" /\ phase[d] = 0 /\ Ranged(d) /\ net[1][d] = << PARAM(COMMITMENT) >>
    \/ /\ pc[d] \in {"p_request", "p_compute", "p_commit", "p_finish"} /\ phase[d] = COMMITMENT
       /\ Ranged(d) /\ net[1][d] = << >>

\* ... and the last.
LastPhase(d) ==
    \/ /\ Reported(d, COMMITMENT) /\ net[1][d] = << INVOKE, PARAM(PCP), CREATED >>
    \/ pc[d] = "p_phase" /\ phase[d] = COMMITMENT /\ net[1][d] = << PARAM(PCP), CREATED >>
    \/ pc[d] \in {"p_request", "p_queries"} /\ phase[d] = PCP /\ net[1][d] = << CREATED >>
    \/ pc[d] \in {"p_answer", "p_finish"} /\ phase[d] = PCP /\ net[1][d] = << >>

SlaveLine(d) ==
    /\ Before => pc[d] = "p_batch" /\ phase[d] = 0 /\ net[1][d] = << >> /\ net[d][1] = << >>
    /\ HandedOut(COMMITMENT) =>
         \/ FirstPhase(d) /\ net[d][1] = << >>
         \/ /\ Reported(d, COMMITMENT) /\ Ranged(d) /\ net[1][d] = << >>
            /\ net[d][1] \in {<< >>, << FINISH >>}
    /\ Between => Reported(d, COMMITMENT) /\ Ranged(d) /\ net[1][d] = << >> /\ net[d][1] = << >>
    /\ HandedOut(PCP) =>
         /\ Ranged(d)
         /\ \/ LastPhase(d) /\ net[d][1] = << >>
            \/ Reported(d, PCP) /\ net[1][d] = << >> /\ net[d][1] \in {<< >>, << FINISH >>}
    /\ AllAnswered => Reported(d, PCP) /\ Ranged(d) /\ net[1][d] = << >> /\ net[d][1] = << >>
    /\ Over => /\ phase[d] = PCP /\ Ranged(d) /\ net[d][1] = << >>
               /\ net[1][d] \in {<< >>, << TERM >>}
               /\ \/ pc[d] \in {"p_report", "p_idle"} /\ net[1][d] = << TERM >>
                  \/ pc[d] = "done"

\* The slaves whose FINISHED the coordinator has taken.
Counted(ph) == {d \in Slaves : Reported(d, ph) /\ net[d][1] = << >>}

Count ==
    \A ph \in {COMMITMENT, PCP} : HandedOut(ph) =>
        /\ num = 2 + Cardinality(Counted(ph))
        /\ pc[1] = "p_wait" => num <= NumSlaves
        /\ pc[1] \in {"p_compute", "p_commit", "p_answer"} => num = 2

\* Nobody else sends anything; rank 0 gets reports, the slaves tell each other
\* to stop.
Only(q, m) == \A i \in 1 .. Len(q) : q[i] = m

Channels ==
    \A s, d \in Ranks :
        \/ net[s][d] = << >>
        \/ <<s, d>> \in {<<0, 1>>, <<1, 0>>}
        \/ s = 1 /\ d \in Slaves
        \/ s \in Slaves /\ d = 1
        \/ s \in Slaves /\ d = 0 /\ Only(net[s][d], FINISH)
        \/ s \in Slaves /\ d \in Slaves /\ pc[s] = "done" /\ Only(net[s][d], TERM)

-----------------------------------------------------------------------------
(* The folder. *)

Revealed == {"v_plain", "v_wait3", "v_test", "done"}

New(f, S) == \A i \in S : f[i] = "new"

\* What the batch loops of rank r have written.
ShareFiles(r) ==
    /\ pc[r] \in {"p_compute", "p_commit"} =>
         /\ Ranged(r) /\ cur[r] \in ShareStart(r) .. ShareEnd(r) + 1
         /\ LET upto == IF pc[r] = "p_compute" THEN cur[r] - 1 ELSE ShareEnd(r)
            IN  New(folder.output, ShareStart(r) .. upto) /\ New(folder.assignment, ShareStart(r) .. upto)
         /\ pc[r] = "p_commit" => New(folder.commitment, ShareStart(r) .. cur[r] - 1)
    /\ \/ phase[r] = COMMITMENT /\ pc[r] \notin {"p_request", "p_compute", "p_commit"}
       \/ phase[r] \in {DEDUCE_QUERIES, PCP}
      => /\ New(folder.output, ShareStart(r) .. ShareEnd(r))
         /\ New(folder.assignment, ShareStart(r) .. ShareEnd(r))
         /\ New(folder.commitment, ShareStart(r) .. ShareEnd(r))
    /\ pc[r] \in {"p_queries", "p_answer"} =>
         Ranged(r) /\ cur[r] \in ShareStart(r) .. ShareEnd(r) + 1
    /\ pc[r] = "p_queries" => cur[r] = ShareStart(r)
    /\ pc[r] = "p_answer" => New(folder.answers, ShareStart(r) .. cur[r] - 1)
    /\ phase[r] = PCP /\ pc[r] \notin {"p_request", "p_queries", "p_answer"} =>
         New(folder.answers, ShareStart(r) .. ShareEnd(r))

Files ==
    /\ pc[0] \notin {"v_params", "v_setup"} =>
         folder.commitment_query = "new" /\ New(folder.input, Instances)
    /\ folder.seed = "new" <=> pc[0] \in Revealed
    /\ pc[0] \in {"v_wait3", "v_test", "done"} => folder.consistency = "new"
    /\ phase[1] = PCP \/ (phase[1] = DEDUCE_QUERIES /\ pc[1] # "p_deduce") => folder.queries = "new"
    /\ result

SessionInv ==
    /\ Dialogue /\ Channels /\ Count /\ Files
    /\ \A d \in Slaves : SlaveLine(d)
    /\ \A r \in Working : ShareFiles(r)

-----------------------------------------------------------------------------
(* Ranks, messages and channels. *)

Nets == [Ranks -> [Ranks -> Seq(Msg)]]

LEMMA RankFacts ==
    /\ 0 \in Ranks /\ 1 \in Ranks /\ 1 \in Provers /\ 1 \in Working /\ 1 \notin Slaves /\ 0 \notin Slaves
    /\ 0 \notin Working /\ 0 \notin Provers
    /\ Slaves \subseteq Provers /\ Slaves \subseteq Ranks /\ Slaves \subseteq Working
    /\ Working \subseteq Provers /\ Working \subseteq Ranks
    /\ \A r \in Working : r = 1 \/ r \in Slaves
    /\ TerminateTargets = Slaves
    /\ \A r \in Provers : r \in Working \/ r \in Excess
    /\ \A r \in Slaves : r # 0 /\ r # 1
  BY SessionAssumption
     DEF Ranks, Provers, Working, Slaves, TerminateTargets, NumSlaves, NumProcs, Excess

LEMMA PhaseNumbers ==
    /\ COMMITMENT \in Int /\ DEDUCE_QUERIES \in Int /\ PCP \in Int
    /\ COMMITMENT # 0 /\ DEDUCE_QUERIES # 0 /\ PCP # 0
    /\ COMMITMENT # DEDUCE_QUERIES /\ COMMITMENT # PCP /\ DEDUCE_QUERIES # PCP
  BY DEF COMMITMENT, DEDUCE_QUERIES, PCP

LEMMA MessageFacts ==
    /\ INVOKE.tag = "INVOKE_PROVER" /\ FINISH.tag = "PROVER_FINISHED"
    /\ CREATED.tag = "QUERY_CREATED" /\ TERM.tag = "TERMINATE"
    /\ \A v : PARAM(v).tag = "PARAMS" /\ PARAM(v).val = v
    /\ INVOKE \in Msg /\ FINISH \in Msg /\ CREATED \in Msg /\ TERM \in Msg
    /\ \A v \in Int : PARAM(v) \in Msg
    /\ \A m \in Msg : m.tag \in Tags
  BY DEF M, INVOKE, FINISH, CREATED, TERM, PARAM, Msg, Tags

\* Queues of at most five messages.
LEMMA Queues ==
    ASSUME NEW a, NEW b, NEW c, NEW d, NEW e
    PROVE  /\ Head(<< a >>) = a /\ Tail(<< a >>) = << >> /\ << a >> # << >>
           /\ Head(<< a, b >>) = a /\ Tail(<< a, b >>) = << b >> /\ << a, b >> # << >>
           /\ Head(<< a, b, c >>) = a /\ Tail(<< a, b, c >>) = << b, c >> /\ << a, b, c >> # << >>
           /\ Head(<< a, b, c, d >>) = a /\ Tail(<< a, b, c, d >>) = << b, c, d >>
           /\ << a, b, c, d >> # << >> /\ << a, b, c, d, e >> # << >>
           /\ Head(<< a, b, c, d, e >>) = a /\ Tail(<< a, b, c, d, e >>) = << b, c, d, e >>
  OBVIOUS

\* A receive whose first message matches takes that one.
LEMMA TakesHead ==
    ASSUME net \in Nets, NEW s \in Ranks, NEW d \in Ranks, NEW tags,
           NEW i \in 1 .. Len(net[s][d]), FirstMatch(s, d, tags, i), Head(net[s][d]).tag \in tags
    PROVE  /\ net[s][d][i] = Head(net[s][d]) /\ net[s][d] # << >>
           /\ Taken(s, d, i) = [net EXCEPT ![s][d] = Tail(net[s][d])]
<1>1. PICK q \in Seq(Msg) : q = net[s][d]
  BY DEF Nets
<1>2. Len(q) \in Nat /\ i \in 1 .. Len(q)
  BY <1>1
<1>3. q # << >> /\ Head(q) = q[1]
  BY <1>2
<1>4. i = 1
  <2> SUFFICES ASSUME i # 1 PROVE FALSE
    OBVIOUS
  <2>1. 1 \in 1 .. i - 1
    BY <1>2
  <2> QED
    BY <1>1, <1>3, <2>1 DEF FirstMatch
<1>5. Without(q, 1) = Tail(q)
  <2>1. SubSeq(q, 1, 1 - 1) = << >>
    BY SubSeqEmpty
  <2>2. SubSeq(q, 1 + 1, Len(q)) = Tail(q)
    BY <1>3, TailIsSubSeq
  <2>3. Tail(q) \in Seq(Msg)
    BY <1>3, HeadTailProperties
  <2> QED
    BY <2>1, <2>2, <2>3, ConcatEmptySeq DEF Without
<1> QED
  BY <1>1, <1>3, <1>4, <1>5 DEF Taken

LEMMA ChannelAt ==
    ASSUME net \in Nets, NEW s \in Ranks, NEW d \in Ranks, NEW q
    PROVE  \A a, b \in Ranks : [net EXCEPT ![s][d] = q][a][b] =
                                 IF a = s /\ b = d THEN q ELSE net[a][b]
  BY DEF Nets

LEMMA PutAt ==
    ASSUME net \in Nets, NEW s \in Ranks, NEW d \in Ranks, NEW msgs
    PROVE  \A a, b \in Ranks : Put(s, d, msgs)[a][b] =
                                 IF a = s /\ b = d THEN net[s][d] \o msgs ELSE net[a][b]
  BY DEF Nets, Put

\* Nothing can be received from an empty channel.
LEMMA NoMatch ==
    ASSUME NEW s, NEW d, net[s][d] = << >>, NEW i \in 1 .. Len(net[s][d])
    PROVE  FALSE
  OBVIOUS

-----------------------------------------------------------------------------
(* What the coordinator has handed out, case by case. *)

LEMMA Epochs ==
    ASSUME Dialogue
    PROVE  Before \/ HandedOut(COMMITMENT) \/ Between \/ HandedOut(PCP) \/ AllAnswered \/ Over
<1>1. pc[0] \in {"v_params", "v_setup", "v_wait1", "v_reveal", "v_plain", "v_wait3", "v_test", "done"}
  BY DEF Dialogue, VerifierPC
<1>2. CASE pc[0] \in {"v_params", "v_setup"}
  BY <1>2 DEF Dialogue, Waits, Before
<1>3. CASE pc[0] = "v_wait1"
  <2>1. CASE Engaged(COMMITMENT)
    BY <2>1, PhaseNumbers DEF Engaged, Before, HandedOut, Between
  <2> QED
    BY <1>3, <2>1 DEF Dialogue, Waits, Told, Before, Between
<1>4. CASE pc[0] \in {"v_reveal", "v_plain"}
  BY <1>4 DEF Dialogue, Waits, Told, Between
<1>5. CASE pc[0] = "v_wait3"
  <2>1. CASE Engaged(PCP)
    BY <2>1, PhaseNumbers DEF Engaged, HandedOut, Between, AllAnswered
  <2> QED
    BY <1>5, <2>1 DEF Dialogue, Waits, Told, Between, AllAnswered
<1>6. CASE pc[0] \in {"v_test", "done"}
  BY <1>6 DEF Dialogue, Waits, AllAnswered, Over
<1> QED
  BY <1>1, <1>2, <1>3, <1>4, <1>5, <1>6

LEMMA EpochsApart ==
    /\ HandedOut(COMMITMENT) => ~Before /\ ~Between /\ ~HandedOut(PCP) /\ ~AllAnswered /\ ~Over
    /\ HandedOut(PCP) => ~Before /\ ~Between /\ ~AllAnswered /\ ~Over
    /\ Between /\ ~Over => ~Before /\ ~AllAnswered
    /\ AllAnswered => ~Before /\ ~Between /\ ~Over
  BY PhaseNumbers DEF Before, HandedOut, Between, AllAnswered, Over

LEMMA DialogueFacts ==
    ASSUME Dialogue
    PROVE  /\ HandedOut(COMMITMENT) => pc[0] = "v_wait1" /\ Engaged(COMMITMENT)
           /\ HandedOut(PCP) => pc[0] = "v_wait3" /\ Engaged(PCP)
           /\ Over => pc[0] = "done" /\ phase[1] = PCP /\ net[0][1] = << >> /\ net[1][0] = << >>
<1>1. pc[0] \in {"v_params", "v_setup", "v_wait1", "v_reveal", "v_plain", "v_wait3", "v_test", "done"}
  BY DEF Dialogue, VerifierPC
<1>2. CASE pc[0] \in {"v_params", "v_setup"}
  BY <1>2, PhaseNumbers DEF Dialogue, Waits, HandedOut, Over
<1>3. CASE pc[0] = "v_wait1"
  BY <1>3, PhaseNumbers DEF Dialogue, Waits, Told, HandedOut, Over, Engaged
<1>4. CASE pc[0] \in {"v_reveal", "v_plain"}
  BY <1>4, PhaseNumbers DEF Dialogue, Waits, Told, HandedOut, Over
<1>5. CASE pc[0] = "v_wait3"
  BY <1>5, PhaseNumbers DEF Dialogue, Waits, Told, HandedOut, Over, Engaged
<1>6. CASE pc[0] \in {"v_test", "done"}
  BY <1>6, PhaseNumbers DEF Dialogue, Waits, HandedOut, Over
<1> QED
  BY <1>1, <1>2, <1>3, <1>4, <1>5, <1>6

-----------------------------------------------------------------------------
(* The slaves.  Where a slave is says what the coordinator has handed out and   *)
(* what the slave will receive.                                                 *)

\* The epoch, and nothing else, decides which part of SlaveLine speaks.
LEMMA LineByEpoch ==
    ASSUME Dialogue, NEW d \in Slaves
    PROVE  /\ HandedOut(COMMITMENT) =>
                (SlaveLine(d) <=>
                   \/ FirstPhase(d) /\ net[d][1] = << >>
                   \/ /\ Reported(d, COMMITMENT) /\ Ranged(d) /\ net[1][d] = << >>
                      /\ net[d][1] \in {<< >>, << FINISH >>})
           /\ HandedOut(PCP) =>
                (SlaveLine(d) <=>
                   /\ Ranged(d)
                   /\ \/ LastPhase(d) /\ net[d][1] = << >>
                      \/ /\ Reported(d, PCP) /\ net[1][d] = << >>
                         /\ net[d][1] \in {<< >>, << FINISH >>})
           /\ Over =>
                (SlaveLine(d) <=>
                   /\ phase[d] = PCP /\ Ranged(d) /\ net[d][1] = << >>
                   /\ net[1][d] \in {<< >>, << TERM >>}
                   /\ \/ pc[d] \in {"p_report", "p_idle"} /\ net[1][d] = << TERM >>
                      \/ pc[d] = "done")
<1>1. Over => ~Before /\ ~Between /\ ~HandedOut(COMMITMENT) /\ ~HandedOut(PCP) /\ ~AllAnswered
  BY DialogueFacts, EpochsApart, PhaseNumbers DEF Over, Before, Between
<1> QED
  BY <1>1, EpochsApart DEF SlaveLine

\* The slave's epoch by its position.
LEMMA SlaveWhere ==
    ASSUME Dialogue, NEW d \in Slaves, SlaveLine(d)
    PROVE  /\ pc[d] = "p_batch" /\ net[1][d] # << >> => HandedOut(COMMITMENT)
           /\ pc[d] \in {"p_start", "p_end", "p_compute", "p_commit"} => HandedOut(COMMITMENT)
           /\ pc[d] \in {"p_queries", "p_answer"} => HandedOut(PCP)
           /\ pc[d] \in {"p_phase", "p_request", "p_finish"} =>
                HandedOut(COMMITMENT) \/ HandedOut(PCP)
           /\ pc[d] = "p_idle" /\ net[1][d] # << >> =>
                HandedOut(COMMITMENT) \/ HandedOut(PCP) \/ Over
           /\ pc[d] = "done" => Over
           /\ pc[d] \in {"p_batch", "p_start", "p_end", "p_idle", "p_phase", "p_request", "p_queries",
                         "p_compute", "p_commit", "p_answer", "p_finish", "p_report", "done"}
<1>1. CASE Before
  BY <1>1 DEF SlaveLine
<1>2. CASE HandedOut(COMMITMENT)
  BY <1>2, LineByEpoch DEF FirstPhase, Reported
<1>3. CASE Between
  BY <1>3 DEF SlaveLine, Reported
<1>4. CASE HandedOut(PCP)
  BY <1>4, LineByEpoch DEF LastPhase, Reported
<1>5. CASE AllAnswered
  BY <1>5 DEF SlaveLine, Reported
<1>6. CASE Over
  BY <1>6, LineByEpoch
<1> QED
  BY <1>1, <1>2, <1>3, <1>4, <1>5, <1>6, Epochs

\* What slave d leaves alone when it takes a step: the verifier, the coordinator
\* and their channels, and the other slaves.
SlaveFrame(d) ==
    /\ \A r \in Ranks \ {d} : pc'[r] = pc[r]
    /\ \A r \in Provers \ {d} : /\ phase'[r] = phase[r] /\ batch_size'[r] = batch_size[r]
                                /\ batch_start'[r] = batch_start[r]
                                /\ batch_end'[r] = batch_end[r] /\ cur'[r] = cur[r]
    /\ num' = num /\ result' = result
    /\ net'[0][1] = net[0][1] /\ net'[1][0] = net[1][0]
    /\ \A e \in Slaves \ {d} : net'[1][e] = net[1][e] /\ net'[e][1] = net[e][1]

\* Files that are this session's stay so.
Grows ==
    /\ \A i \in Instances : /\ folder.output[i] = "new" => folder'.output[i] = "new"
                            /\ folder.assignment[i] = "new" => folder'.assignment[i] = "new"
                            /\ folder.commitment[i] = "new" => folder'.commitment[i] = "new"
                            /\ folder.answers[i] = "new" => folder'.answers[i] = "new"

KeepsOthers == /\ folder'.commitment_query = folder.commitment_query /\ folder'.input = folder.input
               /\ folder'.seed = folder.seed /\ folder'.consistency = folder.consistency
               /\ folder'.queries = folder.queries

\* The shares lie within the batch.
LEMMA Shares ==
    ASSUME NEW r \in Working
    PROVE  /\ ShareStart(r) \in Int /\ ShareEnd(r) \in Int /\ ShareStart(r) <= ShareEnd(r) + 1
           /\ \A i \in ShareStart(r) .. ShareEnd(r) : i \in Instances
<1>1. BatchSize \in Nat /\ NumSlaves \in Nat \ {0} /\ r \in 1 .. NumSlaves
  BY SessionAssumption, Ranked DEF Working
<1>2. /\ BatchStart(BatchSize, NumSlaves, r) \in Nat /\ BatchEnd(BatchSize, NumSlaves, r) \in Int
      /\ BatchEnd(BatchSize, NumSlaves, r) <= BatchSize - 1
  BY <1>1, ShareInside
<1>3. BatchStart(BatchSize, NumSlaves, r) <= BatchEnd(BatchSize, NumSlaves, r) + 1
  <2> DEFINE k == BatchSize \div NumSlaves
             e == BatchSize % NumSlaves
  <2>1. k \in Nat /\ e \in Nat
    BY <1>1, DivMod
  <2>2. /\ BatchEnd(BatchSize, NumSlaves, r) = e + r * k - 1
        /\ BatchStart(BatchSize, NumSlaves, r) = IF r = 1 THEN 0 ELSE e + (r - 1) * k
    BY <1>1, ShareBounds
  <2> HIDE DEF k, e
  <2>3. (r - 1) * k <= r * k /\ r * k \in Nat /\ (r - 1) * k \in Nat
    BY <1>1, <2>1, SMT
  <2> QED
    BY <1>1, <2>1, <2>2, <2>3
<1> QED
  BY <1>2, <1>3, SessionAssumption DEF ShareStart, ShareEnd, Instances

\* Every instance lies in a share.
LEMMA SharesCover ==
    ASSUME NEW i \in Instances
    PROVE  \E r \in Working : i \in ShareStart(r) .. ShareEnd(r)
<1>1. BatchSize \in Nat /\ NumSlaves \in Nat \ {0} /\ i \in 0 .. BatchSize - 1
  BY SessionAssumption, Ranked DEF Instances
<1> QED
  BY <1>1, ShareOf DEF Working, ShareStart, ShareEnd

\* New is kept, over parts of a share.
LEMMA NewKept ==
    ASSUME NEW r \in Working, NEW hi \in Int, hi <= ShareEnd(r), Grows
    PROVE  /\ New(folder.output, ShareStart(r) .. hi) => New(folder'.output, ShareStart(r) .. hi)
           /\ New(folder.assignment, ShareStart(r) .. hi) => New(folder'.assignment, ShareStart(r) .. hi)
           /\ New(folder.commitment, ShareStart(r) .. hi) => New(folder'.commitment, ShareStart(r) .. hi)
           /\ New(folder.answers, ShareStart(r) .. hi) => New(folder'.answers, ShareStart(r) .. hi)
<1>1. \A i \in ShareStart(r) .. hi : i \in Instances
  <2>1. \A i \in ShareStart(r) .. hi : i \in ShareStart(r) .. ShareEnd(r)
    BY Shares
  <2> QED
    BY <2>1, Shares
<1> QED
  BY <1>1 DEF New, Grows

LEMMA ShareFilesKept ==
    ASSUME NEW r \in Working, ShareFiles(r), Grows,
           pc'[r] = pc[r], phase'[r] = phase[r], cur'[r] = cur[r],
           batch_start'[r] = batch_start[r], batch_end'[r] = batch_end[r]
    PROVE  ShareFiles(r)'
<1>1. ShareStart(r) \in Int /\ ShareEnd(r) \in Int
  BY Shares
<1>2. /\ New(folder.output, ShareStart(r) .. ShareEnd(r))
           => New(folder'.output, ShareStart(r) .. ShareEnd(r))
      /\ New(folder.assignment, ShareStart(r) .. ShareEnd(r))
           => New(folder'.assignment, ShareStart(r) .. ShareEnd(r))
      /\ New(folder.commitment, ShareStart(r) .. ShareEnd(r))
           => New(folder'.commitment, ShareStart(r) .. ShareEnd(r))
      /\ New(folder.answers, ShareStart(r) .. ShareEnd(r))
           => New(folder'.answers, ShareStart(r) .. ShareEnd(r))
  BY <1>1, NewKept
<1>3. ASSUME cur[r] \in ShareStart(r) .. ShareEnd(r) + 1
      PROVE  /\ New(folder.output, ShareStart(r) .. cur[r] - 1)
                  => New(folder'.output, ShareStart(r) .. cur[r] - 1)
             /\ New(folder.assignment, ShareStart(r) .. cur[r] - 1)
                  => New(folder'.assignment, ShareStart(r) .. cur[r] - 1)
             /\ New(folder.commitment, ShareStart(r) .. cur[r] - 1)
                  => New(folder'.commitment, ShareStart(r) .. cur[r] - 1)
             /\ New(folder.answers, ShareStart(r) .. cur[r] - 1)
                  => New(folder'.answers, ShareStart(r) .. cur[r] - 1)
  <2>1. PICK hi \in Int : hi = cur[r] - 1 /\ hi <= ShareEnd(r)
    BY <1>1, <1>3
  <2>2. /\ New(folder.output, ShareStart(r) .. hi) => New(folder'.output, ShareStart(r) .. hi)
        /\ New(folder.assignment, ShareStart(r) .. hi) => New(folder'.assignment, ShareStart(r) .. hi)
        /\ New(folder.commitment, ShareStart(r) .. hi) => New(folder'.commitment, ShareStart(r) .. hi)
        /\ New(folder.answers, ShareStart(r) .. hi) => New(folder'.answers, ShareStart(r) .. hi)
    BY <2>1, NewKept
  <2> QED
    BY <2>1, <2>2
<1> QED
  BY <1>2, <1>3 DEF ShareFiles, Ranged

-----------------------------------------------------------------------------
(* The steps of a slave. *)

\* The epochs are the coordinator's: they change when it moves, and only then.
LEMMA EpochsKept ==
    ASSUME pc'[1] = pc[1], phase'[1] = phase[1]
    PROVE  /\ Before' <=> Before
           /\ \A ph : HandedOut(ph)' <=> HandedOut(ph)
           /\ Between' <=> Between
           /\ AllAnswered' <=> AllAnswered
           /\ Over' <=> Over
  BY DEF Before, HandedOut, Between, AllAnswered, Over

LEMMA LineNext ==
    ASSUME Dialogue, NEW d \in Slaves, pc'[1] = pc[1], phase'[1] = phase[1]
    PROVE  /\ /\ HandedOut(COMMITMENT)
              /\ \/ FirstPhase(d)' /\ net'[d][1] = << >>
                 \/ /\ Reported(d, COMMITMENT)' /\ Ranged(d)' /\ net'[1][d] = << >>
                    /\ net'[d][1] \in {<< >>, << FINISH >>}
              => SlaveLine(d)'
           /\ /\ HandedOut(PCP)
              /\ Ranged(d)'
              /\ \/ LastPhase(d)' /\ net'[d][1] = << >>
                 \/ /\ Reported(d, PCP)' /\ net'[1][d] = << >>
                    /\ net'[d][1] \in {<< >>, << FINISH >>}
              => SlaveLine(d)'
           /\ /\ Over
              /\ phase'[d] = PCP /\ Ranged(d)' /\ net'[d][1] = << >>
              /\ net'[1][d] \in {<< >>, << TERM >>}
              /\ \/ pc'[d] \in {"p_report", "p_idle"} /\ net'[1][d] = << TERM >>
                 \/ pc'[d] = "done"
              => SlaveLine(d)'
<1>1. Over => ~Before /\ ~Between /\ ~HandedOut(COMMITMENT) /\ ~HandedOut(PCP) /\ ~AllAnswered
  BY DialogueFacts, EpochsApart, PhaseNumbers DEF Over, Before, Between
<1> QED
  BY <1>1, EpochsApart, EpochsKept DEF SlaveLine

LEMMA SlaveLineKept ==
    ASSUME NEW e \in Slaves, SlaveLine(e), pc'[1] = pc[1], phase'[1] = phase[1],
           pc'[e] = pc[e], phase'[e] = phase[e],
           batch_start'[e] = batch_start[e], batch_end'[e] = batch_end[e],
           net'[1][e] = net[1][e], net'[e][1] = net[e][1]
    PROVE  SlaveLine(e)'
  BY EpochsKept DEF SlaveLine, FirstPhase, LastPhase, Reported, Ranged

LEMMA DialogueKept ==
    ASSUME Dialogue, pc'[0] = pc[0], pc'[1] = pc[1], phase'[1] = phase[1],
           batch_size'[1] = batch_size[1], net'[0][1] = net[0][1], net'[1][0] = net[1][0]
    PROVE  Dialogue'
  BY DEF Dialogue, Waits, Told, Engaged

LEMMA FilesKept ==
    ASSUME Files, KeepsOthers, pc'[0] = pc[0], pc'[1] = pc[1], phase'[1] = phase[1],
           result' = result
    PROVE  Files'
  BY DEF Files, KeepsOthers

\* The channels that are nobody's: a step may only do this to them.
LEMMA ChannelsStep ==
    ASSUME Channels, \A r \in Slaves : pc[r] = "done" => pc'[r] = "done",
           \A a, b \in Ranks :
              \/ net'[a][b] = net[a][b]
              \/ net'[a][b] = << >>
              \/ <<a, b>> \in {<<0, 1>>, <<1, 0>>}
              \/ a = 1 /\ b \in Slaves
              \/ a \in Slaves /\ b = 1
              \/ a \in Slaves /\ b = 0 /\ Only(net'[a][b], FINISH)
              \/ a \in Slaves /\ b \in Slaves /\ pc'[a] = "done" /\ Only(net'[a][b], TERM)
    PROVE  Channels'
  BY DEF Channels, Only

\* A slave's step keeps the invariant when it keeps the slave's own part of it.
LEMMA SlaveCombine ==
    ASSUME SessionInv, NEW d \in Slaves, SlaveFrame(d), Grows, KeepsOthers,
           SlaveLine(d)', ShareFiles(d)', Channels',
           \A ph \in {COMMITMENT, PCP} : HandedOut(ph) =>
              (Reported(d, ph)' /\ net'[d][1] = << >> <=> Reported(d, ph) /\ net[d][1] = << >>)
    PROVE  SessionInv'
<1>1. /\ pc'[0] = pc[0] /\ pc'[1] = pc[1] /\ phase'[1] = phase[1] /\ batch_size'[1] = batch_size[1]
      /\ net'[0][1] = net[0][1] /\ net'[1][0] = net[1][0] /\ result' = result /\ num' = num
  BY RankFacts DEF SlaveFrame
<1>2. Dialogue' /\ Files'
  BY <1>1, DialogueKept, FilesKept DEF SessionInv
<1>3. ASSUME NEW e \in Slaves, e # d
      PROVE  /\ SlaveLine(e)' /\ e \in Provers /\ e \in Ranks
             /\ pc'[e] = pc[e] /\ phase'[e] = phase[e] /\ net'[e][1] = net[e][1]
  <2>1. e \in Provers /\ e \in Ranks /\ pc'[e] = pc[e] /\ phase'[e] = phase[e]
    BY <1>3, RankFacts DEF SlaveFrame
  <2>2. /\ batch_start'[e] = batch_start[e] /\ batch_end'[e] = batch_end[e]
        /\ net'[1][e] = net[1][e] /\ net'[e][1] = net[e][1]
    BY <1>3, <2>1 DEF SlaveFrame
  <2> QED
    BY <1>1, <2>1, <2>2, SlaveLineKept DEF SessionInv
<1>4. ASSUME NEW r \in Working, r # d PROVE ShareFiles(r)'
  <2>1. r \in Provers /\ r \in Ranks
    BY RankFacts
  <2>2. /\ pc'[r] = pc[r] /\ phase'[r] = phase[r] /\ cur'[r] = cur[r]
        /\ batch_start'[r] = batch_start[r] /\ batch_end'[r] = batch_end[r]
    BY <1>4, <2>1 DEF SlaveFrame
  <2> QED
    BY <2>2, ShareFilesKept DEF SessionInv
<1>5. Count'
  <2> SUFFICES ASSUME NEW ph \in {COMMITMENT, PCP}, HandedOut(ph)'
               PROVE  /\ num' = 2 + Cardinality(Counted(ph)')
                      /\ pc'[1] = "p_wait" => num' <= NumSlaves
                      /\ pc'[1] \in {"p_compute", "p_commit", "p_answer"} => num' = 2
    BY DEF Count
  <2>1. HandedOut(ph)
    BY <1>1 DEF HandedOut
  <2>2. \A e \in Slaves : (Reported(e, ph)' /\ net'[e][1] = << >>) <=> (Reported(e, ph) /\ net[e][1] = << >>)
    <3> TAKE e \in Slaves
    <3>1. CASE e = d
      BY <3>1, <2>1
    <3>2. CASE e # d
      BY <3>2, <1>3 DEF Reported
    <3> QED
      BY <3>1, <3>2
  <2>3. Counted(ph)' = Counted(ph)
    BY <2>2 DEF Counted
  <2> QED
    BY <1>1, <2>1, <2>3 DEF SessionInv, Count
<1> QED
  BY <1>2, <1>3, <1>4, <1>5 DEF SessionInv

\* A slave hears from the coordinator, and from slaves that have stopped.
LEMMA SlaveReceives ==
    ASSUME TypeInv, Channels, NEW d \in Slaves, NEW s \in Ranks, NEW i \in 1 .. Len(net[s][d])
    PROVE  s = 1 \/ (s \in Slaves /\ pc[s] = "done" /\ net[s][d][i] = TERM)
<1>1. d \in Ranks /\ d # 0 /\ d # 1
  BY RankFacts
<1>2. net[s][d] # << >>
  BY NoMatch
<1> QED
  BY <1>1, <1>2 DEF Channels, Only

\* What a receive from the coordinator that takes the first message changes.
LEMMA SlaveTakes ==
    ASSUME TypeInv, Channels, NEW d \in Slaves, NEW tags, NEW i \in 1 .. Len(net[1][d]),
           FirstMatch(1, d, tags, i), Head(net[1][d]).tag \in tags, net' = Taken(1, d, i),
           NEW l, pc' = [pc EXCEPT ![d] = l], pc[d] # "done"
    PROVE  /\ net[1][d][i] = Head(net[1][d]) /\ net'[1][d] = Tail(net[1][d])
           /\ net'[d][1] = net[d][1] /\ net'[0][1] = net[0][1] /\ net'[1][0] = net[1][0]
           /\ \A e \in Slaves \ {d} : net'[1][e] = net[1][e] /\ net'[e][1] = net[e][1]
           /\ pc'[d] = l /\ \A r \in Ranks \ {d} : pc'[r] = pc[r]
           /\ Channels'
<1>1. net \in Nets /\ pc \in [Ranks -> VerifierPC \cup ProverPC]
  BY DEF TypeInv, TypeOK, Nets
<1>2. d \in Ranks /\ d # 0 /\ d # 1 /\ 0 \in Ranks /\ 1 \in Ranks
  BY RankFacts
<1>3. /\ net[1][d][i] = Head(net[1][d])
      /\ net' = [net EXCEPT ![1][d] = Tail(net[1][d])]
  BY <1>1, <1>2, TakesHead
<1>4. PICK q : q = Tail(net[1][d])
  OBVIOUS
<1>5. \A a, b \in Ranks : net'[a][b] = IF a = 1 /\ b = d THEN q ELSE net[a][b]
  BY <1>1, <1>2, <1>3, <1>4, ChannelAt
<1>6. pc'[d] = l /\ \A r \in Ranks \ {d} : pc'[r] = pc[r]
  BY <1>1, <1>2
<1>7. Channels'
  <2>1. \A r \in Slaves : pc[r] = "done" => pc'[r] = "done"
    BY <1>6, RankFacts
  <2> QED
    BY <1>5, <2>1, ChannelsStep
<1>8. \A e \in Slaves \ {d} : net'[1][e] = net[1][e] /\ net'[e][1] = net[e][1]
  BY <1>2, <1>5, RankFacts
<1> QED
  BY <1>2, <1>3, <1>4, <1>5, <1>6, <1>7, <1>8

\* Outside the loops, and before the first phase, no file is promised.
LEMMA NoFilesYet ==
    ASSUME NEW r \in Working, phase'[r] = 0 \/ (phase'[r] = COMMITMENT /\ pc'[r] = "p_request"),
           pc'[r] \notin {"p_compute", "p_commit", "p_queries", "p_answer"}
    PROVE  ShareFiles(r)'
  BY PhaseNumbers DEF ShareFiles

LEMMA SlaveRecvParams ==
    ASSUME TypeInv, SessionInv, NEW d \in Slaves, RecvParams(d)
    PROVE  SessionInv'
<1> USE DEF Goto, vVerifierVars
<1>0. d \in Ranks /\ d \in Provers /\ d \in Working /\ d # 0 /\ d # 1 /\ pc[d] = "p_batch"
  BY RankFacts DEF RecvParams
<1>a. PICK s \in Ranks : \E i \in 1 .. Len(net[s][d]) :
         /\ FirstMatch(s, d, {"PARAMS"}, i) /\ net' = Taken(s, d, i)
         /\ batch_size' = [batch_size EXCEPT ![d] = net[s][d][i].val]
  BY DEF RecvParams, Recv
<1>1. PICK i \in 1 .. Len(net[s][d]) :
         /\ FirstMatch(s, d, {"PARAMS"}, i) /\ net' = Taken(s, d, i)
         /\ batch_size' = [batch_size EXCEPT ![d] = net[s][d][i].val]
  BY <1>a
<1>2. s = 1
  <2>1. net[s][d][i].tag = "PARAMS"
    BY <1>1 DEF FirstMatch
  <2> QED
    BY <2>1, <1>1, SlaveReceives, MessageFacts DEF SessionInv
<1>3. net[1][d] # << >>
  BY <1>1, <1>2, NoMatch
<1>4. HandedOut(COMMITMENT)
  BY <1>0, <1>3, SlaveWhere DEF SessionInv
<1>5. /\ phase[d] = 0 /\ net[d][1] = << >>
      /\ net[1][d] = << PARAM(BatchSize), PARAM(ShareStart(d)), PARAM(ShareEnd(d)),
                        INVOKE, PARAM(COMMITMENT) >>
  BY <1>0, <1>4, LineByEpoch DEF SessionInv, FirstPhase, Reported
<1>6. /\ Head(net[1][d]).tag \in {"PARAMS"}
      /\ Tail(net[1][d]) = << PARAM(ShareStart(d)), PARAM(ShareEnd(d)), INVOKE, PARAM(COMMITMENT) >>
  BY <1>5, Queues, MessageFacts
<1>7. pc' = [pc EXCEPT ![d] = "p_start"]
  BY <1>0 DEF RecvParams, isMaster, MPI_COORD_RANK
<1>8. /\ net'[1][d] = Tail(net[1][d])
      /\ net'[d][1] = net[d][1] /\ net'[0][1] = net[0][1] /\ net'[1][0] = net[1][0]
      /\ \A e \in Slaves \ {d} : net'[1][e] = net[1][e] /\ net'[e][1] = net[e][1]
      /\ pc'[d] = "p_start" /\ \A r \in Ranks \ {d} : pc'[r] = pc[r]
      /\ Channels'
  BY <1>0, <1>1, <1>2, <1>6, <1>7, SlaveTakes DEF SessionInv
<1>9. /\ phase' = phase /\ batch_start' = batch_start /\ batch_end' = batch_end /\ cur' = cur
      /\ num' = num /\ folder' = folder /\ result' = result
      /\ \A r \in Provers \ {d} : batch_size'[r] = batch_size[r]
  <2>1. batch_size \in [Provers -> Int]
    BY DEF TypeInv, TypeOK
  <2> QED
    BY <1>1, <2>1 DEF RecvParams
<1>10. SlaveFrame(d) /\ Grows /\ KeepsOthers
  BY <1>8, <1>9 DEF SlaveFrame, Grows, KeepsOthers
<1>11. SlaveLine(d)'
  <2>1. FirstPhase(d)'
    BY <1>5, <1>6, <1>8, <1>9 DEF FirstPhase
  <2> QED
    BY <1>0, <1>4, <1>5, <1>8, <1>9, <2>1, LineNext, RankFacts DEF SessionInv
<1>12. ShareFiles(d)'
  BY <1>0, <1>5, <1>8, <1>9, NoFilesYet
<1>13. \A ph \in {COMMITMENT, PCP} : ~Reported(d, ph) /\ ~Reported(d, ph)'
  BY <1>0, <1>8 DEF Reported
<1> QED
  BY <1>8, <1>10, <1>11, <1>12, <1>13, SlaveCombine

\* The same step, as a step of the session: its frame.
LEMMA SlaveReceipt ==
    ASSUME TypeInv, SessionInv, NEW d \in Slaves, NEW tags, NEW i \in 1 .. Len(net[1][d]),
           FirstMatch(1, d, tags, i), Head(net[1][d]).tag \in tags, net' = Taken(1, d, i),
           NEW l, pc' = [pc EXCEPT ![d] = l], pc[d] # "done",
           folder' = folder, num' = num, result' = result,
           \A r \in Provers \ {d} : /\ phase'[r] = phase[r] /\ batch_size'[r] = batch_size[r]
                                    /\ batch_start'[r] = batch_start[r]
                                    /\ batch_end'[r] = batch_end[r] /\ cur'[r] = cur[r]
    PROVE  /\ net[1][d][i] = Head(net[1][d]) /\ net'[1][d] = Tail(net[1][d])
           /\ net'[d][1] = net[d][1] /\ pc'[d] = l /\ pc'[1] = pc[1] /\ phase'[1] = phase[1]
           /\ Channels' /\ SlaveFrame(d) /\ Grows /\ KeepsOthers
<1>1. /\ net[1][d][i] = Head(net[1][d]) /\ net'[1][d] = Tail(net[1][d])
      /\ net'[d][1] = net[d][1] /\ net'[0][1] = net[0][1] /\ net'[1][0] = net[1][0]
      /\ \A e \in Slaves \ {d} : net'[1][e] = net[1][e] /\ net'[e][1] = net[e][1]
      /\ pc'[d] = l /\ \A r \in Ranks \ {d} : pc'[r] = pc[r]
      /\ Channels'
  BY SlaveTakes DEF SessionInv
<1>2. SlaveFrame(d) /\ Grows /\ KeepsOthers
  BY <1>1 DEF SlaveFrame, Grows, KeepsOthers
<1> QED
  BY <1>1, <1>2, RankFacts

LEMMA SlaveRecvBatchStart ==
    ASSUME TypeInv, SessionInv, NEW d \in Slaves, RecvBatchStart(d)
    PROVE  SessionInv'
<1> USE DEF Goto, vVerifierVars
<1>0. d \in Ranks /\ d \in Provers /\ d \in Working /\ d # 0 /\ d # 1 /\ pc[d] = "p_start"
  BY RankFacts DEF RecvBatchStart
<1>1. PICK i \in 1 .. Len(net[1][d]) :
         /\ FirstMatch(1, d, {"PARAMS"}, i) /\ net' = Taken(1, d, i)
         /\ batch_start' = [batch_start EXCEPT ![d] = net[1][d][i].val]
  BY DEF RecvBatchStart, Recv, MPI_COORD_RANK
<1>4. HandedOut(COMMITMENT)
  BY <1>0, SlaveWhere DEF SessionInv
<1>5. /\ phase[d] = 0 /\ net[d][1] = << >>
      /\ net[1][d] = << PARAM(ShareStart(d)), PARAM(ShareEnd(d)), INVOKE, PARAM(COMMITMENT) >>
  BY <1>0, <1>4, LineByEpoch DEF SessionInv, FirstPhase, Reported
<1>6. /\ Head(net[1][d]).tag \in {"PARAMS"} /\ Head(net[1][d]).val = ShareStart(d)
      /\ Tail(net[1][d]) = << PARAM(ShareEnd(d)), INVOKE, PARAM(COMMITMENT) >>
  BY <1>5, Queues, MessageFacts
<1>7. pc' = [pc EXCEPT ![d] = "p_end"]
  BY DEF RecvBatchStart
<1>8. /\ phase' = phase /\ batch_size' = batch_size /\ batch_end' = batch_end /\ cur' = cur
      /\ num' = num /\ folder' = folder /\ result' = result
      /\ \A r \in Provers \ {d} : batch_start'[r] = batch_start[r]
      /\ batch_start'[d] = net[1][d][i].val
  <2>1. batch_start \in [Provers -> Int]
    BY DEF TypeInv, TypeOK
  <2> QED
    BY <1>0, <1>1, <2>1 DEF RecvBatchStart
<1>9. /\ net[1][d][i] = Head(net[1][d]) /\ net'[1][d] = Tail(net[1][d])
      /\ net'[d][1] = net[d][1] /\ pc'[d] = "p_end" /\ pc'[1] = pc[1] /\ phase'[1] = phase[1]
      /\ Channels' /\ SlaveFrame(d) /\ Grows /\ KeepsOthers
  BY <1>0, <1>1, <1>6, <1>7, <1>8, SlaveReceipt
<1>11. SlaveLine(d)'
  <2>1. FirstPhase(d)'
    BY <1>5, <1>6, <1>8, <1>9 DEF FirstPhase
  <2> QED
    BY <1>4, <1>5, <1>9, <2>1, LineNext DEF SessionInv
<1>12. ShareFiles(d)'
  BY <1>0, <1>5, <1>8, <1>9, NoFilesYet
<1>13. \A ph \in {COMMITMENT, PCP} : ~Reported(d, ph) /\ ~Reported(d, ph)'
  BY <1>0, <1>9 DEF Reported
<1> QED
  BY <1>9, <1>11, <1>12, <1>13, SlaveCombine

LEMMA SlaveRecvBatchEnd ==
    ASSUME TypeInv, SessionInv, NEW d \in Slaves, RecvBatchEnd(d)
    PROVE  SessionInv'
<1> USE DEF Goto, vVerifierVars
<1>0. d \in Ranks /\ d \in Provers /\ d \in Working /\ d # 0 /\ d # 1 /\ pc[d] = "p_end"
  BY RankFacts DEF RecvBatchEnd
<1>1. PICK i \in 1 .. Len(net[1][d]) :
         /\ FirstMatch(1, d, {"PARAMS"}, i) /\ net' = Taken(1, d, i)
         /\ batch_end' = [batch_end EXCEPT ![d] = net[1][d][i].val]
  BY DEF RecvBatchEnd, Recv, MPI_COORD_RANK
<1>4. HandedOut(COMMITMENT)
  BY <1>0, SlaveWhere DEF SessionInv
<1>5. /\ phase[d] = 0 /\ net[d][1] = << >> /\ batch_start[d] = ShareStart(d)
      /\ net[1][d] = << PARAM(ShareEnd(d)), INVOKE, PARAM(COMMITMENT) >>
  BY <1>0, <1>4, LineByEpoch DEF SessionInv, FirstPhase, Reported
<1>6. /\ Head(net[1][d]).tag \in {"PARAMS"} /\ Head(net[1][d]).val = ShareEnd(d)
      /\ Tail(net[1][d]) = << INVOKE, PARAM(COMMITMENT) >>
  BY <1>5, Queues, MessageFacts
<1>7. pc' = [pc EXCEPT ![d] = "p_idle"]
  BY DEF RecvBatchEnd
<1>8. /\ phase' = phase /\ batch_size' = batch_size /\ batch_start' = batch_start /\ cur' = cur
      /\ num' = num /\ folder' = folder /\ result' = result
      /\ \A r \in Provers \ {d} : batch_end'[r] = batch_end[r]
      /\ batch_end'[d] = net[1][d][i].val
  <2>1. batch_end \in [Provers -> Int]
    BY DEF TypeInv, TypeOK
  <2> QED
    BY <1>0, <1>1, <2>1 DEF RecvBatchEnd
<1>9. /\ net[1][d][i] = Head(net[1][d]) /\ net'[1][d] = Tail(net[1][d])
      /\ net'[d][1] = net[d][1] /\ pc'[d] = "p_idle" /\ pc'[1] = pc[1] /\ phase'[1] = phase[1]
      /\ Channels' /\ SlaveFrame(d) /\ Grows /\ KeepsOthers
  BY <1>0, <1>1, <1>6, <1>7, <1>8, SlaveReceipt
<1>11. SlaveLine(d)'
  <2>1. FirstPhase(d)'
    BY <1>5, <1>6, <1>8, <1>9 DEF FirstPhase, Ranged
  <2> QED
    BY <1>4, <1>5, <1>9, <2>1, LineNext DEF SessionInv
<1>12. ShareFiles(d)'
  BY <1>0, <1>5, <1>8, <1>9, NoFilesYet
<1>13. \A ph \in {COMMITMENT, PCP} : ~Reported(d, ph) /\ ~Reported(d, ph)'
  BY <1>0, <1>5, <1>8, <1>9, PhaseNumbers DEF Reported
<1> QED
  BY <1>9, <1>11, <1>12, <1>13, SlaveCombine

LEMMA SlaveRecvPhase ==
    ASSUME TypeInv, SessionInv, NEW d \in Slaves, RecvPhase(d)
    PROVE  SessionInv'
<1> USE DEF Goto, vVerifierVars
<1>0. d \in Ranks /\ d \in Provers /\ d \in Working /\ d # 0 /\ d # 1 /\ pc[d] = "p_phase"
  BY RankFacts DEF RecvPhase
<1>a. PICK s \in Ranks : \E i \in 1 .. Len(net[s][d]) :
         /\ FirstMatch(s, d, {"PARAMS"}, i) /\ net' = Taken(s, d, i)
         /\ phase' = [phase EXCEPT ![d] = net[s][d][i].val]
         /\ pc' = [pc EXCEPT ![d] = IF net[s][d][i].val = DEDUCE_QUERIES
                                    THEN "p_deduce" ELSE "p_request"]
  BY DEF RecvPhase, Recv
<1>1. PICK i \in 1 .. Len(net[s][d]) :
         /\ FirstMatch(s, d, {"PARAMS"}, i) /\ net' = Taken(s, d, i)
         /\ phase' = [phase EXCEPT ![d] = net[s][d][i].val]
         /\ pc' = [pc EXCEPT ![d] = IF net[s][d][i].val = DEDUCE_QUERIES
                                    THEN "p_deduce" ELSE "p_request"]
  BY <1>a
<1>2. s = 1
  <2>1. net[s][d][i].tag = "PARAMS"
    BY <1>1 DEF FirstMatch
  <2> QED
    BY <2>1, <1>1, SlaveReceives, MessageFacts DEF SessionInv
<1>b. net[1][d][i].val = DEDUCE_QUERIES \/ net[1][d][i].val # DEDUCE_QUERIES
  OBVIOUS
<1>4. HandedOut(COMMITMENT) \/ HandedOut(PCP)
  BY <1>0, SlaveWhere DEF SessionInv
<1>5. /\ net[d][1] = << >> /\ Ranged(d)
      /\ \/ HandedOut(COMMITMENT) /\ phase[d] = 0 /\ net[1][d] = << PARAM(COMMITMENT) >>
         \/ HandedOut(PCP) /\ phase[d] = COMMITMENT /\ net[1][d] = << PARAM(PCP), CREATED >>
  <2>1. ASSUME HandedOut(COMMITMENT)
        PROVE  /\ net[d][1] = << >> /\ Ranged(d)
               /\ phase[d] = 0 /\ net[1][d] = << PARAM(COMMITMENT) >>
    BY <1>0, <2>1, LineByEpoch DEF SessionInv, FirstPhase, Reported
  <2>2. ASSUME HandedOut(PCP)
        PROVE  /\ net[d][1] = << >> /\ Ranged(d)
               /\ phase[d] = COMMITMENT /\ net[1][d] = << PARAM(PCP), CREATED >>
    BY <1>0, <2>2, LineByEpoch DEF SessionInv, LastPhase, Reported
  <2> QED
    BY <1>4, <2>1, <2>2
<1>6. /\ Head(net[1][d]).tag \in {"PARAMS"} /\ Head(net[1][d]).val # DEDUCE_QUERIES
      /\ \/ /\ HandedOut(COMMITMENT) /\ phase[d] = 0
            /\ Head(net[1][d]).val = COMMITMENT /\ Tail(net[1][d]) = << >>
         \/ /\ HandedOut(PCP) /\ phase[d] = COMMITMENT
            /\ Head(net[1][d]).val = PCP /\ Tail(net[1][d]) = << CREATED >>
  <2>1. \A v, w : /\ Head(<< PARAM(v) >>) = PARAM(v) /\ Tail(<< PARAM(v) >>) = << >>
                  /\ Head(<< PARAM(v), w >>) = PARAM(v) /\ Tail(<< PARAM(v), w >>) = << w >>
    OBVIOUS
  <2>2. \A v : PARAM(v).tag = "PARAMS" /\ PARAM(v).val = v
    BY MessageFacts
  <2>3. CASE HandedOut(COMMITMENT) /\ phase[d] = 0 /\ net[1][d] = << PARAM(COMMITMENT) >>
    BY <2>1, <2>2, <2>3, PhaseNumbers
  <2>4. CASE HandedOut(PCP) /\ phase[d] = COMMITMENT /\ net[1][d] = << PARAM(PCP), CREATED >>
    BY <2>1, <2>2, <2>4, PhaseNumbers
  <2> QED
    BY <1>5, <2>3, <2>4
<1>7. net[1][d][i] = Head(net[1][d])
  <2>1. net \in Nets /\ 1 \in Ranks
    BY RankFacts DEF TypeInv, TypeOK, Nets
  <2>2. Head(net[1][d]).tag \in {"PARAMS"} /\ FirstMatch(1, d, {"PARAMS"}, i)
    BY <1>1, <1>2, <1>6
  <2> QED
    BY <1>0, <1>1, <1>2, <2>1, <2>2, TakesHead
<1>c. pc' = [pc EXCEPT ![d] = "p_request"]
  BY <1>1, <1>2, <1>6, <1>7
<1>8. /\ batch_size' = batch_size /\ batch_start' = batch_start /\ batch_end' = batch_end
      /\ cur' = cur /\ num' = num /\ folder' = folder /\ result' = result
      /\ \A r \in Provers \ {d} : phase'[r] = phase[r]
      /\ phase'[d] = Head(net[1][d]).val
  <2>1. phase \in [Provers -> Int]
    BY DEF TypeInv, TypeOK
  <2> QED
    BY <1>0, <1>1, <1>2, <1>7, <2>1 DEF RecvPhase
<1>9. /\ net[1][d][i] = Head(net[1][d]) /\ net'[1][d] = Tail(net[1][d])
      /\ net'[d][1] = net[d][1] /\ pc'[d] = "p_request" /\ pc'[1] = pc[1] /\ phase'[1] = phase[1]
      /\ Channels' /\ SlaveFrame(d) /\ Grows /\ KeepsOthers
  BY <1>0, <1>1, <1>2, <1>6, <1>c, <1>8, SlaveReceipt
<1>r. Ranged(d)'
  BY <1>5, <1>8 DEF Ranged
<1>11. SlaveLine(d)'
  <2>1. CASE HandedOut(COMMITMENT) /\ Head(net[1][d]).val = COMMITMENT /\ Tail(net[1][d]) = << >>
    <3>1. FirstPhase(d)'
      BY <2>1, <1>8, <1>9, <1>r DEF FirstPhase
    <3> QED
      BY <2>1, <1>5, <1>9, <3>1, LineNext DEF SessionInv
  <2>2. CASE HandedOut(PCP) /\ Head(net[1][d]).val = PCP /\ Tail(net[1][d]) = << CREATED >>
    <3>1. LastPhase(d)'
      BY <2>2, <1>8, <1>9 DEF LastPhase
    <3> QED
      BY <2>2, <1>5, <1>9, <1>r, <3>1, LineNext DEF SessionInv
  <2> QED
    BY <2>1, <2>2, <1>6
<1>12. ShareFiles(d)'
  <2>1. CASE phase'[d] = COMMITMENT
    BY <1>0, <2>1, <1>9, NoFilesYet
  <2>2. CASE phase[d] = COMMITMENT
    <3>1. ShareFiles(d)
      BY <1>0 DEF SessionInv
    <3>2. /\ New(folder.output, ShareStart(d) .. ShareEnd(d))
          /\ New(folder.assignment, ShareStart(d) .. ShareEnd(d))
          /\ New(folder.commitment, ShareStart(d) .. ShareEnd(d))
      BY <1>0, <2>2, <3>1 DEF ShareFiles
    <3> QED
      BY <1>8, <1>9, <3>2, PhaseNumbers DEF ShareFiles
  <2> QED
    BY <2>1, <2>2, <1>6, <1>8
<1>13. \A ph \in {COMMITMENT, PCP} : ~Reported(d, ph) /\ ~Reported(d, ph)'
  BY <1>0, <1>9 DEF Reported
<1> QED
  BY <1>9, <1>11, <1>12, <1>13, SlaveCombine

LEMMA SlaveRecvQueryCreated ==
    ASSUME TypeInv, SessionInv, NEW d \in Slaves, RecvQueryCreated(d)
    PROVE  SessionInv'
<1> USE DEF Goto, vVerifierVars, vProverVars
<1>0. d \in Ranks /\ d \in Provers /\ d \in Working /\ d # 0 /\ d # 1 /\ pc[d] = "p_queries"
  BY RankFacts DEF RecvQueryCreated
<1>1. PICK i \in 1 .. Len(net[1][d]) :
         FirstMatch(1, d, {"QUERY_CREATED"}, i) /\ net' = Taken(1, d, i)
  BY DEF RecvQueryCreated, Recv, MPI_COORD_RANK
<1>4. HandedOut(PCP)
  BY <1>0, SlaveWhere DEF SessionInv
<1>5. phase[d] = PCP /\ Ranged(d) /\ net[d][1] = << >> /\ net[1][d] = << CREATED >>
  BY <1>0, <1>4, LineByEpoch DEF SessionInv, LastPhase, Reported
<1>6. Head(net[1][d]).tag \in {"QUERY_CREATED"} /\ Tail(net[1][d]) = << >>
  BY <1>5, Queues, MessageFacts
<1>8. /\ pc' = [pc EXCEPT ![d] = "p_answer"]
      /\ phase' = phase /\ batch_size' = batch_size /\ batch_start' = batch_start
      /\ batch_end' = batch_end /\ cur' = cur
      /\ num' = num /\ folder' = folder /\ result' = result
  BY DEF RecvQueryCreated
<1>9. /\ net[1][d][i] = Head(net[1][d]) /\ net'[1][d] = Tail(net[1][d])
      /\ net'[d][1] = net[d][1] /\ pc'[d] = "p_answer" /\ pc'[1] = pc[1] /\ phase'[1] = phase[1]
      /\ Channels' /\ SlaveFrame(d) /\ Grows /\ KeepsOthers
  BY <1>0, <1>1, <1>6, <1>8, SlaveReceipt
<1>11. SlaveLine(d)'
  <2>1. LastPhase(d)' /\ Ranged(d)'
    BY <1>5, <1>6, <1>8, <1>9 DEF LastPhase, Ranged
  <2> QED
    BY <1>4, <1>5, <1>9, <2>1, LineNext DEF SessionInv
<1>12. ShareFiles(d)'
  <2>1. ShareFiles(d)
    BY <1>0 DEF SessionInv
  <2>2. /\ New(folder.output, ShareStart(d) .. ShareEnd(d))
        /\ New(folder.assignment, ShareStart(d) .. ShareEnd(d))
        /\ New(folder.commitment, ShareStart(d) .. ShareEnd(d))
        /\ cur[d] \in ShareStart(d) .. ShareEnd(d) + 1 /\ cur[d] = ShareStart(d)
    BY <1>0, <1>5, <2>1 DEF ShareFiles
  <2>3. New(folder.answers, ShareStart(d) .. cur[d] - 1)
    BY <1>0, <2>2, Shares DEF New
  <2> QED
    BY <1>5, <1>8, <1>9, <2>2, <2>3, PhaseNumbers DEF ShareFiles, Ranged
<1>13. \A ph \in {COMMITMENT, PCP} : ~Reported(d, ph) /\ ~Reported(d, ph)'
  BY <1>0, <1>9 DEF Reported
<1> QED
  BY <1>9, <1>11, <1>12, <1>13, SlaveCombine

-----------------------------------------------------------------------------
(* The batch loops, of a slave or of the coordinator. *)

LEMMA LoopFrame ==
    ASSUME TypeInv, NEW r \in Working, Compute(r) \/ Commit(r) \/ Answer(r)
    PROVE  /\ \A q \in Ranks \ {r} : pc'[q] = pc[q]
           /\ \A q \in Provers \ {r} : cur'[q] = cur[q]
           /\ net' = net /\ num' = num /\ phase' = phase /\ batch_size' = batch_size
           /\ batch_start' = batch_start /\ batch_end' = batch_end
           /\ beta' = beta /\ result' = result
           /\ Compute(r) => pc[r] = "p_compute" /\ pc'[r] \in {"p_compute", "p_commit"}
           /\ Commit(r) => pc[r] = "p_commit" /\ pc'[r] \in {"p_commit", "p_finish"}
           /\ Answer(r) => pc[r] = "p_answer" /\ pc'[r] \in {"p_answer", "p_finish"}
<1>1. r \in Ranks /\ r \in Provers
  BY RankFacts
<1>2. pc \in [Ranks -> VerifierPC \cup ProverPC] /\ cur \in [Provers -> Int]
  BY DEF TypeInv, TypeOK
<1>3. \/ /\ pc[r] = "p_compute" /\ (pc' = pc \/ pc' = [pc EXCEPT ![r] = "p_commit"])
      \/ /\ pc[r] = "p_commit" /\ (pc' = pc \/ pc' = [pc EXCEPT ![r] = "p_finish"])
      \/ /\ pc[r] = "p_answer" /\ (pc' = pc \/ pc' = [pc EXCEPT ![r] = "p_finish"])
  BY DEF Compute, Commit, Answer, Loop, Goto
<1>4. /\ Compute(r) => pc[r] = "p_compute"
      /\ Commit(r) => pc[r] = "p_commit"
      /\ Answer(r) => pc[r] = "p_answer"
  BY DEF Compute, Commit, Answer, Loop
<1>5. \E v : cur' = [cur EXCEPT ![r] = v]
  BY DEF Compute, Commit, Answer, Loop
<1>6. /\ net' = net /\ num' = num /\ phase' = phase /\ batch_size' = batch_size
      /\ batch_start' = batch_start /\ batch_end' = batch_end
      /\ beta' = beta /\ result' = result
  BY DEF Compute, Commit, Answer, Loop, vVerifierVars
<1> QED
  BY <1>1, <1>2, <1>3, <1>4, <1>5, <1>6

\* One more instance of a share is this session's.
LEMMA NewNext ==
    ASSUME NEW lo \in Int, NEW i \in Int, NEW S, NEW f \in [S -> Stamp], \A j \in lo .. i : j \in S,
           lo <= i, New(f, lo .. i - 1)
    PROVE  New([f EXCEPT ![i] = "new"], lo .. i + 1 - 1)
<1>1. \A j \in lo .. i + 1 - 1 : j \in lo .. i /\ (j = i \/ j \in lo .. i - 1)
  OBVIOUS
<1>2. \A j \in S : [f EXCEPT ![i] = "new"][j] = IF j = i THEN "new" ELSE f[j]
  OBVIOUS
<1> QED
  BY <1>1, <1>2 DEF New

\* prover_do_computation writes this session's output and assignment.
LEMMA ComputeFiles ==
    ASSUME TypeInv, Files, NEW r \in Working, ShareFiles(r), Compute(r), phase[r] = COMMITMENT,
           pc[0] \notin {"v_params", "v_setup"}
    PROVE  /\ Grows /\ KeepsOthers /\ ShareFiles(r)'
           /\ folder'.commitment = folder.commitment /\ folder'.answers = folder.answers
<1>0. /\ r \in Ranks /\ r \in Provers /\ pc[r] = "p_compute"
      /\ batch_start' = batch_start /\ batch_end' = batch_end /\ phase' = phase
  BY RankFacts, LoopFrame
<1>t. /\ folder \in Folder /\ cur \in [Provers -> Int] /\ pc \in [Ranks -> VerifierPC \cup ProverPC]
  BY DEF TypeInv, TypeOK
<1>s. /\ ShareStart(r) \in Int /\ ShareEnd(r) \in Int /\ ShareStart(r) <= ShareEnd(r) + 1
      /\ \A i \in ShareStart(r) .. ShareEnd(r) : i \in Instances
  BY Shares
<1>1. /\ Ranged(r) /\ cur[r] \in ShareStart(r) .. ShareEnd(r) + 1
      /\ New(folder.output, ShareStart(r) .. cur[r] - 1)
      /\ New(folder.assignment, ShareStart(r) .. cur[r] - 1)
  BY <1>0 DEF ShareFiles
<1>2. CASE cur[r] <= batch_end[r]
  <2>1. PICK i \in Int : i = cur[r]
    BY <1>0, <1>t
  <2>2. /\ i \in Instances /\ ShareStart(r) <= i /\ i <= ShareEnd(r)
        /\ \A j \in ShareStart(r) .. i : j \in Instances
    BY <1>1, <1>2, <1>s, <2>1 DEF Ranged
  <2>3. From({folder.input[i]}) = "new"
    BY <2>2 DEF Files, New, From
  <2>4. /\ folder' = [folder EXCEPT !.output[i] = "new", !.assignment[i] = "new"]
        /\ cur' = [cur EXCEPT ![r] = i + 1] /\ pc' = pc
    BY <1>2, <2>1, <2>3 DEF Compute, Loop, Computed
  <2>5. /\ folder'.output = [folder.output EXCEPT ![i] = "new"]
        /\ folder'.assignment = [folder.assignment EXCEPT ![i] = "new"]
        /\ folder'.commitment = folder.commitment /\ folder'.answers = folder.answers
    BY <1>t, <2>4 DEF Folder
  <2>6. KeepsOthers
    BY <1>t, <2>4 DEF KeepsOthers, Folder
  <2>7. folder.output \in [Instances -> Stamp] /\ folder.assignment \in [Instances -> Stamp]
    BY <1>t DEF Folder
  <2>8. Grows
    BY <2>5, <2>7 DEF Grows
  <2>9. /\ New(folder'.output, ShareStart(r) .. i + 1 - 1)
        /\ New(folder'.assignment, ShareStart(r) .. i + 1 - 1)
    <3>1. New(folder.output, ShareStart(r) .. i - 1) /\ New(folder.assignment, ShareStart(r) .. i - 1)
      BY <1>1, <2>1
    <3>2. New([folder.output EXCEPT ![i] = "new"], ShareStart(r) .. i + 1 - 1)
      BY <1>s, <2>2, <2>7, <3>1, NewNext
    <3>3. New([folder.assignment EXCEPT ![i] = "new"], ShareStart(r) .. i + 1 - 1)
      BY <1>s, <2>2, <2>7, <3>1, NewNext
    <3> QED
      BY <2>5, <3>2, <3>3
  <2>10. cur'[r] = i + 1 /\ cur'[r] \in ShareStart(r) .. ShareEnd(r) + 1
    BY <1>0, <1>t, <1>s, <2>2, <2>4
  <2>11. Ranged(r)' /\ pc'[r] = "p_compute" /\ phase'[r] = COMMITMENT
    BY <1>0, <1>1, <2>4 DEF Ranged
  <2>12. ShareFiles(r)'
    BY <2>9, <2>10, <2>11, PhaseNumbers DEF ShareFiles
  <2> QED
    BY <2>5, <2>6, <2>8, <2>12
<1>3. CASE ~(cur[r] <= batch_end[r])
  <2>1. cur[r] - 1 = ShareEnd(r)
    BY <1>1, <1>3, <1>s DEF Ranged
  <2>2. folder' = folder /\ pc' = [pc EXCEPT ![r] = "p_commit"] /\ cur' = [cur EXCEPT ![r] = batch_start[r]]
    BY <1>3 DEF Compute, Loop, Goto
  <2>3. /\ cur'[r] = ShareStart(r) /\ pc'[r] = "p_commit" /\ Ranged(r)' /\ phase'[r] = COMMITMENT
    BY <1>0, <1>t, <1>1, <2>2 DEF Ranged
  <2>4. New(folder.output, ShareStart(r) .. ShareEnd(r)) /\ New(folder.assignment, ShareStart(r) .. ShareEnd(r))
    BY <1>1, <2>1
  <2>5. New(folder'.commitment, ShareStart(r) .. cur'[r] - 1)
    BY <1>s, <2>3 DEF New
  <2>6. cur'[r] \in ShareStart(r) .. ShareEnd(r) + 1
    BY <1>s, <2>3
  <2>7. ShareFiles(r)'
    BY <2>2, <2>3, <2>4, <2>5, <2>6, PhaseNumbers DEF ShareFiles
  <2> QED
    BY <2>2, <2>7 DEF Grows, KeepsOthers
<1> QED
  BY <1>2, <1>3

\* prover_interactive commits to an assignment of this session.
LEMMA CommitFiles ==
    ASSUME TypeInv, Files, NEW r \in Working, ShareFiles(r), Commit(r), phase[r] = COMMITMENT,
           pc[0] \notin {"v_params", "v_setup"}
    PROVE  /\ Grows /\ KeepsOthers /\ ShareFiles(r)'
           /\ \/ folder' = folder
              \/ /\ \E i \in Instances : folder'.commitment = [folder.commitment EXCEPT ![i] = "new"]
                 /\ folder'.answers = folder.answers
<1>0. /\ r \in Ranks /\ r \in Provers /\ pc[r] = "p_commit"
      /\ batch_start' = batch_start /\ batch_end' = batch_end /\ phase' = phase
  BY RankFacts, LoopFrame
<1>t. /\ folder \in Folder /\ cur \in [Provers -> Int] /\ pc \in [Ranks -> VerifierPC \cup ProverPC]
  BY DEF TypeInv, TypeOK
<1>s. /\ ShareStart(r) \in Int /\ ShareEnd(r) \in Int /\ ShareStart(r) <= ShareEnd(r) + 1
      /\ \A i \in ShareStart(r) .. ShareEnd(r) : i \in Instances
  BY Shares
<1>1. /\ Ranged(r) /\ cur[r] \in ShareStart(r) .. ShareEnd(r) + 1
      /\ New(folder.output, ShareStart(r) .. ShareEnd(r))
      /\ New(folder.assignment, ShareStart(r) .. ShareEnd(r))
      /\ New(folder.commitment, ShareStart(r) .. cur[r] - 1)
  BY <1>0 DEF ShareFiles
<1>2. CASE cur[r] <= batch_end[r]
  <2>1. PICK i \in Int : i = cur[r]
    BY <1>0, <1>t
  <2>2. /\ i \in ShareStart(r) .. ShareEnd(r) /\ i \in Instances /\ ShareStart(r) <= i
        /\ i <= ShareEnd(r) /\ \A j \in ShareStart(r) .. i : j \in Instances
    BY <1>1, <1>2, <1>s, <2>1 DEF Ranged
  <2>3. From({folder.commitment_query, folder.assignment[i]}) = "new"
    BY <1>1, <2>2 DEF Files, New, From
  <2>4. /\ folder' = [folder EXCEPT !.commitment[i] = "new"]
        /\ cur' = [cur EXCEPT ![r] = i + 1] /\ pc' = pc
    BY <1>2, <2>1, <2>3 DEF Commit, Loop, Committed
  <2>5. /\ folder'.commitment = [folder.commitment EXCEPT ![i] = "new"]
        /\ folder'.output = folder.output /\ folder'.assignment = folder.assignment
        /\ folder'.answers = folder.answers
    BY <1>t, <2>4 DEF Folder
  <2>6. KeepsOthers
    BY <1>t, <2>4 DEF KeepsOthers, Folder
  <2>7. folder.commitment \in [Instances -> Stamp]
    BY <1>t DEF Folder
  <2>8. Grows
    BY <2>5, <2>7 DEF Grows
  <2>9. New(folder'.commitment, ShareStart(r) .. i + 1 - 1)
    <3>1. New(folder.commitment, ShareStart(r) .. i - 1)
      BY <1>1, <2>1
    <3>2. New([folder.commitment EXCEPT ![i] = "new"], ShareStart(r) .. i + 1 - 1)
      BY <1>s, <2>2, <2>7, <3>1, NewNext
    <3> QED
      BY <2>5, <3>2
  <2>10. cur'[r] = i + 1 /\ cur'[r] \in ShareStart(r) .. ShareEnd(r) + 1
    BY <1>0, <1>t, <1>s, <2>2, <2>4
  <2>11. Ranged(r)' /\ pc'[r] = "p_commit" /\ phase'[r] = COMMITMENT
    BY <1>0, <1>1, <2>4 DEF Ranged
  <2>12. ShareFiles(r)'
    BY <1>1, <2>5, <2>9, <2>10, <2>11, PhaseNumbers DEF ShareFiles
  <2> QED
    BY <2>2, <2>5, <2>6, <2>8, <2>12
<1>3. CASE ~(cur[r] <= batch_end[r])
  <2>1. cur[r] - 1 = ShareEnd(r)
    BY <1>1, <1>3, <1>s DEF Ranged
  <2>2. folder' = folder /\ pc' = [pc EXCEPT ![r] = "p_finish"]
    BY <1>3 DEF Commit, Loop, Goto
  <2>3. pc'[r] = "p_finish" /\ phase'[r] = COMMITMENT
    BY <1>0, <1>t, <2>2
  <2>4. New(folder.commitment, ShareStart(r) .. ShareEnd(r))
    BY <1>1, <2>1
  <2>7. ShareFiles(r)'
    BY <1>1, <2>2, <2>3, <2>4, PhaseNumbers DEF ShareFiles
  <2> QED
    BY <2>2, <2>7 DEF Grows, KeepsOthers
<1> QED
  BY <1>2, <1>3

\* prover_answer_queries answers this session's queries from its assignment.
LEMMA AnswerFiles ==
    ASSUME TypeInv, Files, NEW r \in Working, ShareFiles(r), Answer(r), phase[r] = PCP,
           phase[1] = PCP, pc[0] = "v_wait3"
    PROVE  /\ Grows /\ KeepsOthers /\ ShareFiles(r)'
           /\ \/ folder' = folder
              \/ /\ \E i \in Instances : folder'.answers = [folder.answers EXCEPT ![i] = "new"]
                 /\ folder'.commitment = folder.commitment
<1>0. /\ r \in Ranks /\ r \in Provers /\ pc[r] = "p_answer"
      /\ batch_start' = batch_start /\ batch_end' = batch_end /\ phase' = phase
  BY RankFacts, LoopFrame
<1>t. /\ folder \in Folder /\ cur \in [Provers -> Int] /\ pc \in [Ranks -> VerifierPC \cup ProverPC]
  BY DEF TypeInv, TypeOK
<1>s. /\ ShareStart(r) \in Int /\ ShareEnd(r) \in Int /\ ShareStart(r) <= ShareEnd(r) + 1
      /\ \A i \in ShareStart(r) .. ShareEnd(r) : i \in Instances
  BY Shares
<1>1. /\ Ranged(r) /\ cur[r] \in ShareStart(r) .. ShareEnd(r) + 1
      /\ New(folder.output, ShareStart(r) .. ShareEnd(r))
      /\ New(folder.assignment, ShareStart(r) .. ShareEnd(r))
      /\ New(folder.commitment, ShareStart(r) .. ShareEnd(r))
      /\ New(folder.answers, ShareStart(r) .. cur[r] - 1)
  BY <1>0 DEF ShareFiles
<1>2. CASE cur[r] <= batch_end[r]
  <2>1. PICK i \in Int : i = cur[r]
    BY <1>0, <1>t
  <2>2. /\ i \in ShareStart(r) .. ShareEnd(r) /\ i \in Instances /\ ShareStart(r) <= i
        /\ i <= ShareEnd(r) /\ \A j \in ShareStart(r) .. i : j \in Instances
    BY <1>1, <1>2, <1>s, <2>1 DEF Ranged
  <2>3. From({folder.assignment[i], folder.consistency, folder.queries}) = "new"
    BY <1>1, <2>2 DEF Files, New, From
  <2>4. /\ folder' = [folder EXCEPT !.answers[i] = "new"]
        /\ cur' = [cur EXCEPT ![r] = i + 1] /\ pc' = pc
    BY <1>2, <2>1, <2>3 DEF Answer, Loop, Answered
  <2>5. /\ folder'.answers = [folder.answers EXCEPT ![i] = "new"]
        /\ folder'.output = folder.output /\ folder'.assignment = folder.assignment
        /\ folder'.commitment = folder.commitment
    BY <1>t, <2>4 DEF Folder
  <2>6. KeepsOthers
    BY <1>t, <2>4 DEF KeepsOthers, Folder
  <2>7. folder.answers \in [Instances -> Stamp]
    BY <1>t DEF Folder
  <2>8. Grows
    BY <2>5, <2>7 DEF Grows
  <2>9. New(folder'.answers, ShareStart(r) .. i + 1 - 1)
    <3>1. New(folder.answers, ShareStart(r) .. i - 1)
      BY <1>1, <2>1
    <3>2. New([folder.answers EXCEPT ![i] = "new"], ShareStart(r) .. i + 1 - 1)
      BY <1>s, <2>2, <2>7, <3>1, NewNext
    <3> QED
      BY <2>5, <3>2
  <2>10. cur'[r] = i + 1 /\ cur'[r] \in ShareStart(r) .. ShareEnd(r) + 1
    BY <1>0, <1>t, <1>s, <2>2, <2>4
  <2>11. Ranged(r)' /\ pc'[r] = "p_answer" /\ phase'[r] = PCP
    BY <1>0, <1>1, <2>4 DEF Ranged
  <2>12. ShareFiles(r)'
    BY <1>1, <2>5, <2>9, <2>10, <2>11, PhaseNumbers DEF ShareFiles
  <2> QED
    BY <2>2, <2>5, <2>6, <2>8, <2>12
<1>3. CASE ~(cur[r] <= batch_end[r])
  <2>1. cur[r] - 1 = ShareEnd(r)
    BY <1>1, <1>3, <1>s DEF Ranged
  <2>2. folder' = folder /\ pc' = [pc EXCEPT ![r] = "p_finish"]
    BY <1>3 DEF Answer, Loop, Goto
  <2>3. pc'[r] = "p_finish" /\ phase'[r] = PCP
    BY <1>0, <1>t, <2>2
  <2>4. New(folder.answers, ShareStart(r) .. ShareEnd(r))
    BY <1>1, <2>1
  <2>7. ShareFiles(r)'
    BY <1>1, <2>2, <2>3, <2>4, PhaseNumbers DEF ShareFiles
  <2> QED
    BY <2>2, <2>7 DEF Grows, KeepsOthers
<1> QED
  BY <1>2, <1>3

-----------------------------------------------------------------------------
(* The remaining steps of a slave. *)

\* A step of slave d that sends and receives nothing.
LEMMA SlaveLocal ==
    ASSUME TypeInv, SessionInv, NEW d \in Slaves, net' = net, num' = num, result' = result,
           \A r \in Ranks \ {d} : pc'[r] = pc[r], pc[d] # "done",
           \A r \in Provers \ {d} : /\ phase'[r] = phase[r] /\ batch_size'[r] = batch_size[r]
                                    /\ batch_start'[r] = batch_start[r]
                                    /\ batch_end'[r] = batch_end[r] /\ cur'[r] = cur[r]
    PROVE  SlaveFrame(d) /\ Channels' /\ pc'[1] = pc[1] /\ phase'[1] = phase[1]
<1>1. \A r \in Slaves : pc[r] = "done" => pc'[r] = "done"
  BY RankFacts
<1>2. Channels'
  BY <1>1, ChannelsStep DEF SessionInv
<1> QED
  BY <1>2, RankFacts DEF SlaveFrame

LEMMA SlaveLoops ==
    ASSUME TypeInv, SessionInv, NEW d \in Slaves, Compute(d) \/ Commit(d) \/ Answer(d)
    PROVE  SessionInv'
<1>0. d \in Ranks /\ d \in Provers /\ d \in Working /\ d # 0 /\ d # 1 /\ 1 \in Provers
  BY RankFacts
<1>1. /\ \A q \in Ranks \ {d} : pc'[q] = pc[q]
      /\ \A q \in Provers \ {d} : cur'[q] = cur[q]
      /\ net' = net /\ num' = num /\ phase' = phase /\ batch_size' = batch_size
      /\ batch_start' = batch_start /\ batch_end' = batch_end
      /\ beta' = beta /\ result' = result
      /\ Compute(d) => pc[d] = "p_compute" /\ pc'[d] \in {"p_compute", "p_commit"}
      /\ Commit(d) => pc[d] = "p_commit" /\ pc'[d] \in {"p_commit", "p_finish"}
      /\ Answer(d) => pc[d] = "p_answer" /\ pc'[d] \in {"p_answer", "p_finish"}
  BY <1>0, LoopFrame
<1>2. pc[d] \in {"p_compute", "p_commit", "p_answer"}
  BY <1>1
<1>3. SlaveFrame(d) /\ Channels' /\ pc'[1] = pc[1] /\ phase'[1] = phase[1]
  BY <1>1, <1>2, SlaveLocal
<1>4. \A ph \in {COMMITMENT, PCP} : ~Reported(d, ph) /\ ~Reported(d, ph)'
  BY <1>1 DEF Reported
<1>i. Files /\ ShareFiles(d) /\ SlaveLine(d) /\ Dialogue
  BY <1>0 DEF SessionInv
<1>5. CASE Compute(d) \/ Commit(d)
  <2>1. HandedOut(COMMITMENT)
    BY <1>1, <1>5, <1>i, SlaveWhere
  <2>2. pc[0] = "v_wait1"
    BY <1>i, <2>1, DialogueFacts
  <2>3. phase[d] = COMMITMENT /\ Ranged(d) /\ net[1][d] = << >> /\ net[d][1] = << >>
    BY <1>1, <1>5, <1>i, <2>1, LineByEpoch DEF FirstPhase, Reported
  <2>4. Grows /\ KeepsOthers /\ ShareFiles(d)'
    BY <1>0, <1>5, <1>i, <2>2, <2>3, ComputeFiles, CommitFiles
  <2>5. FirstPhase(d)'
    BY <1>1, <1>5, <2>3 DEF FirstPhase, Ranged
  <2>6. SlaveLine(d)'
    BY <1>1, <1>3, <1>i, <2>1, <2>3, <2>5, LineNext
  <2> QED
    BY <1>3, <1>4, <2>4, <2>6, SlaveCombine
<1>6. CASE Answer(d)
  <2>1. HandedOut(PCP)
    BY <1>1, <1>6, <1>i, SlaveWhere
  <2>2. pc[0] = "v_wait3" /\ phase[1] = PCP
    BY <1>i, <2>1, DialogueFacts DEF HandedOut
  <2>3. phase[d] = PCP /\ Ranged(d) /\ net[1][d] = << >> /\ net[d][1] = << >>
    BY <1>1, <1>6, <1>i, <2>1, LineByEpoch DEF LastPhase, Reported
  <2>4. Grows /\ KeepsOthers /\ ShareFiles(d)'
    BY <1>0, <1>6, <1>i, <2>2, <2>3, AnswerFiles
  <2>5. LastPhase(d)' /\ Ranged(d)'
    BY <1>1, <1>6, <2>3 DEF LastPhase, Ranged
  <2>6. SlaveLine(d)'
    BY <1>1, <1>3, <1>i, <2>1, <2>3, <2>5, LineNext
  <2> QED
    BY <1>3, <1>4, <2>4, <2>6, SlaveCombine
<1> QED
  BY <1>5, <1>6

LEMMA SlaveStartPhase ==
    ASSUME TypeInv, SessionInv, NEW d \in Slaves, StartPhase(d)
    PROVE  SessionInv'
<1> USE DEF Goto, vVerifierVars
<1>0. d \in Ranks /\ d \in Provers /\ d \in Working /\ d # 0 /\ d # 1 /\ pc[d] = "p_request"
  BY RankFacts DEF StartPhase
<1>t. /\ cur \in [Provers -> Int] /\ pc \in [Ranks -> VerifierPC \cup ProverPC]
  BY DEF TypeInv, TypeOK
<1>i. Files /\ ShareFiles(d) /\ SlaveLine(d) /\ Dialogue
  BY <1>0 DEF SessionInv
<1>1. /\ phase' = phase /\ batch_size' = batch_size /\ batch_start' = batch_start
      /\ batch_end' = batch_end /\ net' = net
      /\ num' = num /\ folder' = folder /\ result' = result
      /\ \A r \in Provers \ {d} : cur'[r] = cur[r]
      /\ \A r \in Ranks \ {d} : pc'[r] = pc[r]
      /\ cur'[d] = batch_start[d]
      /\ pc'[d] = IF phase[d] = PCP THEN "p_queries" ELSE Work(phase[d])
  BY <1>0, <1>t DEF StartPhase
<1>2. SlaveFrame(d) /\ Channels' /\ pc'[1] = pc[1] /\ phase'[1] = phase[1]
  BY <1>0, <1>1, SlaveLocal
<1>3. Grows /\ KeepsOthers
  BY <1>1 DEF Grows, KeepsOthers
<1>4. HandedOut(COMMITMENT) \/ HandedOut(PCP)
  BY <1>0, <1>i, SlaveWhere
<1>s. ShareStart(d) \in Int /\ ShareEnd(d) \in Int /\ ShareStart(d) <= ShareEnd(d) + 1
  BY <1>0, Shares
<1>5. CASE HandedOut(COMMITMENT)
  <2>1. phase[d] = COMMITMENT /\ Ranged(d) /\ net[1][d] = << >> /\ net[d][1] = << >>
    BY <1>0, <1>5, <1>i, LineByEpoch DEF FirstPhase, Reported
  <2>2. pc'[d] = "p_compute" /\ cur'[d] = ShareStart(d) /\ Ranged(d)' /\ phase'[d] = COMMITMENT
    BY <1>1, <2>1, PhaseNumbers DEF Work, Ranged
  <2>3. FirstPhase(d)'
    BY <1>1, <2>1, <2>2 DEF FirstPhase
  <2>4. SlaveLine(d)'
    BY <1>1, <1>2, <1>5, <1>i, <2>1, <2>3, LineNext
  <2>5. ShareFiles(d)'
    <3>1. \A f : New(f, ShareStart(d) .. cur'[d] - 1)
      BY <1>s, <2>2 DEF New
    <3>2. cur'[d] \in ShareStart(d) .. ShareEnd(d) + 1
      BY <1>s, <2>2
    <3> QED
      BY <2>2, <3>1, <3>2, PhaseNumbers DEF ShareFiles
  <2>6. \A ph \in {COMMITMENT, PCP} : ~Reported(d, ph) /\ ~Reported(d, ph)'
    BY <1>0, <2>2 DEF Reported
  <2> QED
    BY <1>2, <1>3, <2>4, <2>5, <2>6, SlaveCombine
<1>6. CASE HandedOut(PCP)
  <2>1. phase[d] = PCP /\ Ranged(d) /\ net[1][d] = << CREATED >> /\ net[d][1] = << >>
    BY <1>0, <1>6, <1>i, LineByEpoch DEF LastPhase, Reported
  <2>2. pc'[d] = "p_queries" /\ cur'[d] = ShareStart(d) /\ Ranged(d)' /\ phase'[d] = PCP
    BY <1>1, <2>1 DEF Ranged
  <2>3. LastPhase(d)'
    BY <1>1, <2>1, <2>2 DEF LastPhase
  <2>4. SlaveLine(d)'
    BY <1>1, <1>2, <1>6, <1>i, <2>1, <2>2, <2>3, LineNext
  <2>5. ShareFiles(d)'
    <3>1. /\ New(folder.output, ShareStart(d) .. ShareEnd(d))
          /\ New(folder.assignment, ShareStart(d) .. ShareEnd(d))
          /\ New(folder.commitment, ShareStart(d) .. ShareEnd(d))
      BY <1>i, <2>1 DEF ShareFiles
    <3>2. cur'[d] \in ShareStart(d) .. ShareEnd(d) + 1
      BY <1>s, <2>2
    <3> QED
      BY <1>1, <2>2, <3>1, <3>2, PhaseNumbers DEF ShareFiles
  <2>6. \A ph \in {COMMITMENT, PCP} : ~Reported(d, ph) /\ ~Reported(d, ph)'
    BY <1>0, <2>2 DEF Reported
  <2> QED
    BY <1>2, <1>3, <2>4, <2>5, <2>6, SlaveCombine
<1> QED
  BY <1>4, <1>5, <1>6

LEMMA OnlyMore ==
    ASSUME NEW q \in Seq(Msg), NEW m \in Msg, Only(q, m)
    PROVE  Only(q \o << m >>, m)
<1>1. << m >> \in Seq(Msg) /\ Len(<< m >>) = 1 /\ << m >>[1] = m
  OBVIOUS
<1>2. Len(q \o << m >>) = Len(q) + 1 /\ Len(q) \in Nat
  BY <1>1
<1>3. \A i \in 1 .. Len(q) + 1 : (q \o << m >>)[i] = IF i <= Len(q) THEN q[i] ELSE << m >>[i - Len(q)]
  BY <1>1, ConcatProperties
<1> QED
  BY <1>1, <1>2, <1>3 DEF Only

LEMMA OnlyTail ==
    ASSUME NEW q \in Seq(Msg), NEW m, q # << >>, Only(q, m)
    PROVE  Only(Tail(q), m)
  BY DEF Only

LEMMA SlaveReport ==
    ASSUME TypeInv, SessionInv, NEW d \in Slaves, Report(d)
    PROVE  SessionInv'
<1> USE DEF Goto, vVerifierVars, vProverVars
<1>0. /\ d \in Ranks /\ d \in Provers /\ d \in Working /\ d # 0 /\ d # 1 /\ pc[d] = "p_report"
      /\ 0 \in Ranks /\ 1 \in Ranks
  BY RankFacts DEF Report
<1>t. net \in Nets /\ pc \in [Ranks -> VerifierPC \cup ProverPC]
  BY DEF TypeInv, TypeOK, Nets
<1>i. Channels /\ ShareFiles(d) /\ SlaveLine(d) /\ Dialogue
  BY <1>0 DEF SessionInv
<1>1. /\ phase' = phase /\ batch_size' = batch_size /\ batch_start' = batch_start
      /\ batch_end' = batch_end /\ cur' = cur
      /\ num' = num /\ folder' = folder /\ result' = result
      /\ \A r \in Ranks \ {d} : pc'[r] = pc[r]
      /\ pc'[d] = "p_idle" /\ pc'[1] = pc[1]
  BY <1>0, <1>t DEF Report
<1>2. \A a, b \in Ranks : net'[a][b] = IF a = d /\ b = 0 THEN net[d][0] \o << FINISH >> ELSE net[a][b]
  BY <1>0, <1>t, PutAt DEF Report, FINISH
<1>3. Only(net'[d][0], FINISH)
  <2>1. net[d][0] \in Seq(Msg) /\ FINISH \in Msg
    BY <1>0, <1>t, MessageFacts DEF Nets
  <2>2. Only(net[d][0], FINISH)
    BY <1>0, <1>i DEF Channels, Only
  <2> QED
    BY <1>0, <1>2, <2>1, <2>2, OnlyMore
<1>4. Channels'
  <2>1. \A r \in Slaves : pc[r] = "done" => pc'[r] = "done"
    BY <1>0, <1>1, RankFacts
  <2> QED
    BY <1>i, <1>2, <1>3, <2>1, ChannelsStep
<1>5. /\ net'[1][d] = net[1][d] /\ net'[d][1] = net[d][1]
      /\ net'[0][1] = net[0][1] /\ net'[1][0] = net[1][0]
      /\ \A e \in Slaves : net'[1][e] = net[1][e] /\ net'[e][1] = net[e][1]
  BY <1>0, <1>2, RankFacts
<1>6. SlaveFrame(d) /\ Grows /\ KeepsOthers
  BY <1>1, <1>5 DEF SlaveFrame, Grows, KeepsOthers
<1>7. SlaveLine(d)'
  BY <1>0, <1>1, <1>5, <1>i, EpochsKept DEF SlaveLine, FirstPhase, LastPhase, Reported, Ranged
<1>8. ShareFiles(d)'
  BY <1>0, <1>1, <1>i DEF ShareFiles
<1>9. \A ph : Reported(d, ph)' <=> Reported(d, ph)
  BY <1>0, <1>1 DEF Reported
<1> QED
  BY <1>4, <1>5, <1>6, <1>7, <1>8, <1>9, SlaveCombine

LEMMA SlaveFinishes ==
    ASSUME TypeInv, SessionInv, NEW d \in Slaves, SlaveFinished(d)
    PROVE  SessionInv'
<1> USE DEF Goto, vVerifierVars, vProverVars
<1>0. /\ d \in Ranks /\ d \in Provers /\ d \in Working /\ d # 0 /\ d # 1 /\ pc[d] = "p_finish"
      /\ 0 \in Ranks /\ 1 \in Ranks
  BY RankFacts DEF SlaveFinished
<1>t. net \in Nets /\ pc \in [Ranks -> VerifierPC \cup ProverPC] /\ folder \in Folder
  BY DEF TypeInv, TypeOK, Nets
<1>i. Channels /\ ShareFiles(d) /\ SlaveLine(d) /\ Dialogue
  BY <1>0 DEF SessionInv
<1>1. /\ phase' = phase /\ batch_size' = batch_size /\ batch_start' = batch_start
      /\ batch_end' = batch_end /\ cur' = cur /\ num' = num /\ result' = result
      /\ \A r \in Ranks \ {d} : pc'[r] = pc[r]
      /\ pc'[d] = "p_report" /\ pc'[1] = pc[1]
  BY <1>0, <1>t DEF SlaveFinished
<1>2. \A a, b \in Ranks : net'[a][b] = IF a = d /\ b = 1 THEN net[d][1] \o << FINISH >> ELSE net[a][b]
  BY <1>0, <1>t, PutAt DEF SlaveFinished, FINISH, MPI_COORD_RANK
<1>3. Grows /\ KeepsOthers /\ folder'.output = folder.output /\ folder'.assignment = folder.assignment
      /\ folder'.commitment = folder.commitment /\ folder'.answers = folder.answers
  <2>1. PICK D : folder' = [folder EXCEPT !.done = D]
    BY DEF SlaveFinished
  <2> QED
    BY <1>t, <2>1 DEF Folder, Grows, KeepsOthers
<1>4. Channels'
  <2>1. \A r \in Slaves : pc[r] = "done" => pc'[r] = "done"
    BY <1>0, <1>1, RankFacts
  <2> QED
    BY <1>i, <1>2, <2>1, ChannelsStep
<1>5. /\ net'[1][d] = net[1][d] /\ net'[d][1] = net[d][1] \o << FINISH >>
      /\ net'[0][1] = net[0][1] /\ net'[1][0] = net[1][0]
      /\ \A e \in Slaves \ {d} : net'[1][e] = net[1][e] /\ net'[e][1] = net[e][1]
  BY <1>0, <1>2, RankFacts
<1>6. SlaveFrame(d)
  BY <1>1, <1>5 DEF SlaveFrame
<1>7. HandedOut(COMMITMENT) \/ HandedOut(PCP)
  BY <1>0, <1>i, SlaveWhere
<1>8. /\ net[d][1] = << >> /\ net[1][d] = << >> /\ Ranged(d)
      /\ \/ HandedOut(COMMITMENT) /\ phase[d] = COMMITMENT
         \/ HandedOut(PCP) /\ phase[d] = PCP
  <2>1. ASSUME HandedOut(COMMITMENT)
        PROVE  net[d][1] = << >> /\ net[1][d] = << >> /\ Ranged(d) /\ phase[d] = COMMITMENT
    BY <1>0, <2>1, <1>i, LineByEpoch DEF FirstPhase, Reported
  <2>2. ASSUME HandedOut(PCP)
        PROVE  net[d][1] = << >> /\ net[1][d] = << >> /\ Ranged(d) /\ phase[d] = PCP
    BY <1>0, <2>2, <1>i, LineByEpoch DEF LastPhase, Reported
  <2> QED
    BY <1>7, <2>1, <2>2
<1>9. net'[d][1] = << FINISH >> /\ << FINISH >> # << >> /\ Ranged(d)' /\ net'[1][d] = << >>
  <2>1. << >> \o << FINISH >> = << FINISH >> /\ << FINISH >> # << >>
    OBVIOUS
  <2> QED
    BY <1>1, <1>5, <1>8, <2>1 DEF Ranged
<1>10. SlaveLine(d)'
  <2>1. ASSUME HandedOut(COMMITMENT), phase[d] = COMMITMENT PROVE SlaveLine(d)'
    <3>1. Reported(d, COMMITMENT)'
      BY <1>1, <2>1 DEF Reported
    <3> QED
      BY <1>1, <1>9, <1>i, <2>1, <3>1, LineNext
  <2>2. ASSUME HandedOut(PCP), phase[d] = PCP PROVE SlaveLine(d)'
    <3>1. Reported(d, PCP)'
      BY <1>1, <2>2 DEF Reported
    <3> QED
      BY <1>1, <1>9, <1>i, <2>2, <3>1, LineNext
  <2> QED
    BY <1>8, <2>1, <2>2
<1>11. ShareFiles(d)'
  BY <1>0, <1>1, <1>3, <1>i DEF ShareFiles
<1>12. \A ph : ~Reported(d, ph)
  BY <1>0 DEF Reported
<1> QED
  BY <1>3, <1>4, <1>6, <1>9, <1>10, <1>11, <1>12, SlaveCombine

\* All the channels of rank r replaced at once.
LEMMA RowAt ==
    ASSUME NEW T, NEW X, T \in [Ranks -> X], NEW r \in Ranks, NEW U
    PROVE  \A a, b \in Ranks : [T EXCEPT ![r] = U][a][b] = IF a = r THEN U[b] ELSE T[a][b]
  OBVIOUS

LEMMA SlaveInvoked ==
    ASSUME TypeInv, SessionInv, NEW d \in Slaves, pc[d] = "p_idle",
           NEW i \in 1 .. Len(net[1][d]), FirstMatch(1, d, Tags, i), ~Over,
           net' = Taken(1, d, i) \/ net[1][d][i].tag = "TERMINATE",
           net[1][d][i].tag # "TERMINATE" =>
               pc' = [pc EXCEPT ![d] = IF net[1][d][i].tag = "INVOKE_PROVER" THEN "p_phase" ELSE "p_idle"],
           UNCHANGED <<vVerifierVars, vProverVars, folder>>
    PROVE  SessionInv'
<1> USE DEF vVerifierVars, vProverVars
<1>0. d \in Ranks /\ d \in Provers /\ d \in Working /\ d # 0 /\ d # 1 /\ 1 \in Ranks
  BY RankFacts
<1>t. net \in Nets /\ pc \in [Ranks -> VerifierPC \cup ProverPC]
  BY DEF TypeInv, TypeOK, Nets
<1>i. Channels /\ ShareFiles(d) /\ SlaveLine(d) /\ Dialogue
  BY <1>0 DEF SessionInv
<1>1. net[1][d] # << >>
  BY NoMatch
<1>2. HandedOut(COMMITMENT) \/ HandedOut(PCP)
  BY <1>1, <1>i, SlaveWhere
<1>3. /\ Ranged(d) /\ net[d][1] = << >>
      /\ \/ HandedOut(COMMITMENT) /\ phase[d] = 0 /\ net[1][d] = << INVOKE, PARAM(COMMITMENT) >>
         \/ HandedOut(PCP) /\ phase[d] = COMMITMENT /\ net[1][d] = << INVOKE, PARAM(PCP), CREATED >>
  <2>1. ASSUME HandedOut(COMMITMENT)
        PROVE  /\ Ranged(d) /\ net[d][1] = << >> /\ phase[d] = 0
               /\ net[1][d] = << INVOKE, PARAM(COMMITMENT) >>
    BY <1>1, <1>i, <2>1, LineByEpoch DEF FirstPhase, Reported
  <2>2. ASSUME HandedOut(PCP)
        PROVE  /\ Ranged(d) /\ net[d][1] = << >> /\ phase[d] = COMMITMENT
               /\ net[1][d] = << INVOKE, PARAM(PCP), CREATED >>
    BY <1>1, <1>i, <2>2, LineByEpoch DEF LastPhase, Reported
  <2> QED
    BY <1>2, <2>1, <2>2
<1>4. /\ Head(net[1][d]) = INVOKE
      /\ \/ HandedOut(COMMITMENT) /\ phase[d] = 0 /\ Tail(net[1][d]) = << PARAM(COMMITMENT) >>
         \/ HandedOut(PCP) /\ phase[d] = COMMITMENT /\ Tail(net[1][d]) = << PARAM(PCP), CREATED >>
  <2>1. \A v, w : /\ Head(<< INVOKE, v >>) = INVOKE /\ Tail(<< INVOKE, v >>) = << v >>
                  /\ Head(<< INVOKE, v, w >>) = INVOKE /\ Tail(<< INVOKE, v, w >>) = << v, w >>
    OBVIOUS
  <2>2. ASSUME HandedOut(COMMITMENT), phase[d] = 0, net[1][d] = << INVOKE, PARAM(COMMITMENT) >>
        PROVE  Head(net[1][d]) = INVOKE /\ Tail(net[1][d]) = << PARAM(COMMITMENT) >>
    BY <2>1, <2>2
  <2>3. ASSUME HandedOut(PCP), phase[d] = COMMITMENT, net[1][d] = << INVOKE, PARAM(PCP), CREATED >>
        PROVE  Head(net[1][d]) = INVOKE /\ Tail(net[1][d]) = << PARAM(PCP), CREATED >>
    BY <2>1, <2>3
  <2> QED
    BY <1>3, <2>2, <2>3
<1>5. INVOKE.tag = "INVOKE_PROVER" /\ INVOKE.tag \in Tags
  BY MessageFacts DEF Tags
<1>6. net[1][d][i] = INVOKE
  BY <1>0, <1>t, <1>4, <1>5, TakesHead
<1>7. net' = Taken(1, d, i) /\ pc' = [pc EXCEPT ![d] = "p_phase"]
  BY <1>5, <1>6
<1>8. /\ net'[1][d] = Tail(net[1][d])
      /\ net'[d][1] = net[d][1] /\ pc'[d] = "p_phase" /\ pc'[1] = pc[1] /\ phase'[1] = phase[1]
      /\ Channels' /\ SlaveFrame(d) /\ Grows /\ KeepsOthers
  BY <1>4, <1>5, <1>7, SlaveReceipt
<1>9. SlaveLine(d)'
  <2>r. Ranged(d)'
    BY <1>3 DEF Ranged
  <2>1. CASE HandedOut(COMMITMENT) /\ phase[d] = 0 /\ Tail(net[1][d]) = << PARAM(COMMITMENT) >>
    <3>1. FirstPhase(d)'
      BY <1>8, <2>1, <2>r DEF FirstPhase
    <3> QED
      BY <1>3, <1>8, <1>i, <2>1, <3>1, LineNext
  <2>2. CASE HandedOut(PCP) /\ phase[d] = COMMITMENT /\ Tail(net[1][d]) = << PARAM(PCP), CREATED >>
    <3>1. LastPhase(d)'
      BY <1>8, <2>2 DEF LastPhase
    <3> QED
      BY <1>3, <1>8, <1>i, <2>2, <2>r, <3>1, LineNext
  <2> QED
    BY <1>4, <2>1, <2>2
<1>10. ShareFiles(d)'
  BY <1>3, <1>8, <1>i, PhaseNumbers DEF ShareFiles
<1>11. ASSUME NEW ph \in {COMMITMENT, PCP}, HandedOut(ph) PROVE ~Reported(d, ph) /\ ~Reported(d, ph)'
  BY <1>3, <1>8, <1>11, PhaseNumbers DEF Reported, HandedOut
<1> QED
  BY <1>8, <1>9, <1>10, <1>11, SlaveCombine

LEMMA SlaveStops ==
    ASSUME TypeInv, SessionInv, NEW d \in Slaves, pc[d] = "p_idle", NEW s \in Ranks,
           NEW i \in 1 .. Len(net[s][d]), FirstMatch(s, d, Tags, i), Over, s = 1 \/ s \in Slaves,
           net' = [Taken(s, d, i) EXCEPT
                      ![d] = [e \in Ranks |-> IF e \in TerminateTargets THEN @[e] \o << TERM >> ELSE @[e]]],
           pc' = [pc EXCEPT ![d] = "done"], UNCHANGED <<vVerifierVars, vProverVars, folder>>
    PROVE  SessionInv'
<1> USE DEF vVerifierVars, vProverVars
<1>0. /\ d \in Ranks /\ d \in Provers /\ d \in Working /\ d # 0 /\ d # 1 /\ 1 \in Ranks /\ 0 \in Ranks
      /\ TerminateTargets = Slaves /\ s # 0
  BY RankFacts
<1>t. net \in Nets /\ pc \in [Ranks -> VerifierPC \cup ProverPC]
  BY DEF TypeInv, TypeOK, Nets
<1>i. Channels /\ ShareFiles(d) /\ SlaveLine(d) /\ Dialogue
  BY <1>0 DEF SessionInv
<1>1. net[s][d] # << >> /\ net[s][d] \in Seq(Msg)
  BY <1>0, <1>t, NoMatch DEF Nets
<1>2. Head(net[s][d]).tag \in Tags
  BY <1>1, MessageFacts
<1>3. PICK q : q = Tail(net[s][d])
  OBVIOUS
<1>4. Taken(s, d, i) = [net EXCEPT ![s][d] = q]
  BY <1>0, <1>t, <1>2, <1>3, TakesHead
<1>5. \A a, b \in Ranks :
         net'[a][b] = LET c == IF a = s /\ b = d THEN q ELSE net[a][b]
                      IN  IF a = d /\ b \in Slaves THEN c \o << TERM >> ELSE c
  <2>1. PICK T : T = [net EXCEPT ![s][d] = q]
    OBVIOUS
  <2>2. T \in [Ranks -> [Ranks -> Seq(Msg) \cup {q}]]
    <3> DEFINE R == Ranks
               Q == Seq(Msg)
    <3>1. net \in [R -> [R -> Q]]
      BY <1>t DEF Nets
    <3> HIDE DEF R, Q
    <3>2. T \in [R -> [R -> Q \cup {q}]]
      BY <2>1, <3>1
    <3> QED
      BY <3>2 DEF R, Q
  <2>3. \A a, b \in Ranks : T[a][b] = IF a = s /\ b = d THEN q ELSE net[a][b]
    BY <1>0, <1>t, <2>1 DEF Nets
  <2>4. PICK U : U = [e \in Ranks |-> IF e \in Slaves THEN T[d][e] \o << TERM >> ELSE T[d][e]]
    OBVIOUS
  <2>5. net' = [T EXCEPT ![d] = U]
    BY <1>0, <1>4, <2>1, <2>2, <2>4
  <2>6. \A b \in Ranks : U[b] = IF b \in Slaves THEN T[d][b] \o << TERM >> ELSE T[d][b]
    BY <2>4
  <2>7. \A a, b \in Ranks : net'[a][b] = IF a = d THEN U[b] ELSE T[a][b]
    BY <1>0, <2>2, <2>5, RowAt
  <2> QED
    BY <2>3, <2>6, <2>7
<1>6. s # d
  BY <1>0, <1>1, <1>i DEF Channels
<1>7. pc'[d] = "done" /\ \A r \in Ranks \ {d} : pc'[r] = pc[r]
  BY <1>0, <1>t
<1>8. \A e \in Slaves : net'[d][e] = << TERM >>
  <2>1. \A e \in Slaves : net[d][e] = << >>
    BY <1>0, <1>i, RankFacts DEF Channels
  <2>2. << >> \o << TERM >> = << TERM >>
    OBVIOUS
  <2> QED
    BY <1>0, <1>5, <1>6, <2>1, <2>2, RankFacts
<1>9. s \in Slaves => Only(q, TERM) /\ pc[s] = "done"
  <2>1. ASSUME s \in Slaves PROVE Only(net[s][d], TERM) /\ pc[s] = "done"
    BY <1>0, <1>1, <1>i, <2>1, RankFacts DEF Channels
  <2> QED
    BY <1>1, <1>3, <2>1, OnlyTail
<1>10. Channels'
  <2>1. \A r \in Slaves : pc[r] = "done" => pc'[r] = "done"
    BY <1>7, RankFacts
  <2>2. Only(<< TERM >>, TERM)
    BY DEF Only
  <2>3. ASSUME NEW a \in Ranks, NEW b \in Ranks
        PROVE  \/ net'[a][b] = net[a][b]
               \/ a = 1 /\ b \in Slaves
               \/ a \in Slaves /\ b \in Slaves /\ pc'[a] = "done" /\ Only(net'[a][b], TERM)
    <3>1. CASE a = d /\ b \in Slaves
      BY <1>7, <1>8, <2>2, <3>1
    <3>2. CASE a = s /\ b = d
      <4>1. net'[a][b] = q
        BY <1>5, <1>6, <3>2
      <4> QED
        BY <1>6, <1>7, <1>9, <3>2, <4>1
    <3>3. CASE ~(a = d /\ b \in Slaves) /\ ~(a = s /\ b = d)
      BY <1>5, <3>3
    <3> QED
      BY <3>1, <3>2, <3>3
  <2> QED
    BY <1>i, <2>1, <2>3, ChannelsStep
<1>11. /\ net'[d][1] = net[d][1] /\ net'[0][1] = net[0][1] /\ net'[1][0] = net[1][0]
       /\ net'[1][d] = IF s = 1 THEN q ELSE net[1][d]
  BY <1>0, <1>5, <1>6, RankFacts
<1>12. \A e \in Slaves \ {d} : net'[1][e] = net[1][e] /\ net'[e][1] = net[e][1]
  BY <1>0, <1>5, <1>6, RankFacts
<1>13. SlaveFrame(d) /\ Grows /\ KeepsOthers
  BY <1>7, <1>11, <1>12 DEF SlaveFrame, Grows, KeepsOthers
<1>14. phase[d] = PCP /\ Ranged(d) /\ net[d][1] = << >> /\ net[1][d] = << TERM >>
  BY <1>i, LineByEpoch
<1>15. SlaveLine(d)'
  <2>1. s = 1 => q = << >>
    <3>1. Tail(<< TERM >>) = << >>
      OBVIOUS
    <3> QED
      BY <1>3, <1>14, <3>1
  <2>2. Ranged(d)' /\ phase'[d] = PCP
    BY <1>14 DEF Ranged
  <2>3. pc'[1] = pc[1] /\ phase'[1] = phase[1]
    BY <1>0, <1>7
  <2> QED
    BY <1>7, <1>11, <1>14, <1>i, <2>1, <2>2, <2>3, LineNext
<1>16. ShareFiles(d)'
  BY <1>7, <1>14, <1>i, PhaseNumbers DEF ShareFiles
<1>17. \A ph \in {COMMITMENT, PCP} : ~HandedOut(ph)
  BY DEF HandedOut, Over
<1> QED
  BY <1>10, <1>13, <1>15, <1>16, <1>17, SlaveCombine

LEMMA SlaveRecvRequest ==
    ASSUME TypeInv, SessionInv, NEW d \in Slaves, RecvRequest(d)
    PROVE  SessionInv'
<1> USE DEF Goto
<1>0. d \in Ranks /\ d # 0 /\ d # 1 /\ pc[d] = "p_idle"
  BY RankFacts DEF RecvRequest
<1>a. PICK s \in Ranks : \E i \in 1 .. Len(net[s][d]) :
         /\ FirstMatch(s, d, Tags, i)
         /\ \/ /\ net[s][d][i].tag = "TERMINATE"
               /\ net' = [Taken(s, d, i) EXCEPT
                            ![d] = [e \in Ranks |-> IF e \in TerminateTargets
                                                    THEN @[e] \o << TERM >> ELSE @[e]]]
               /\ pc' = [pc EXCEPT ![d] = "done"]
            \/ /\ net[s][d][i].tag # "TERMINATE"
               /\ net' = Taken(s, d, i)
               /\ pc' = [pc EXCEPT ![d] = IF net[s][d][i].tag = "INVOKE_PROVER" THEN "p_phase" ELSE "p_idle"]
  BY DEF RecvRequest, PutAll, TERM
<1>1. PICK i \in 1 .. Len(net[s][d]) :
         /\ FirstMatch(s, d, Tags, i)
         /\ \/ /\ net[s][d][i].tag = "TERMINATE"
               /\ net' = [Taken(s, d, i) EXCEPT
                            ![d] = [e \in Ranks |-> IF e \in TerminateTargets
                                                    THEN @[e] \o << TERM >> ELSE @[e]]]
               /\ pc' = [pc EXCEPT ![d] = "done"]
            \/ /\ net[s][d][i].tag # "TERMINATE"
               /\ net' = Taken(s, d, i)
               /\ pc' = [pc EXCEPT ![d] = IF net[s][d][i].tag = "INVOKE_PROVER" THEN "p_phase" ELSE "p_idle"]
  BY <1>a
<1>2. UNCHANGED <<vVerifierVars, vProverVars, folder>>
  BY DEF RecvRequest
<1>3. s = 1 \/ (s \in Slaves /\ pc[s] = "done" /\ net[s][d][i] = TERM)
  BY <1>1, SlaveReceives DEF SessionInv
<1>4. CASE ~Over
  <2>1. s = 1
    BY <1>3, <1>4, SlaveWhere DEF SessionInv
  <2> QED
    BY <1>0, <1>1, <1>2, <1>4, <2>1, SlaveInvoked
<1>5. CASE Over
  <2>1. net[s][d][i].tag = "TERMINATE"
    <3>1. CASE s = 1
      <4>1. net[1][d] # << >>
        BY <1>1, <3>1, NoMatch
      <4>2. net[1][d] = << TERM >>
        BY <1>5, <4>1, LineByEpoch DEF SessionInv
      <4>3. << TERM >>[i] = TERM
        <5>1. \A m : Len(<< m >>) = 1 /\ << m >>[1] = m
          OBVIOUS
        <5>2. i \in 1 .. Len(<< TERM >>)
          BY <1>1, <3>1, <4>2
        <5> QED
          BY <5>1, <5>2
      <4> QED
        BY <3>1, <4>2, <4>3, MessageFacts
    <3> QED
      BY <1>3, <3>1, MessageFacts
  <2> QED
    BY <1>0, <1>1, <1>2, <1>3, <1>5, <2>1, SlaveStops
<1> QED
  BY <1>4, <1>5

LEMMA SlaveStep ==
    ASSUME TypeInv, SessionInv, NEW d \in Slaves, Prover(d)
    PROVE  SessionInv'
<1>1. pc[d] \notin {"p_deduce", "p_wait", "p_done_files"} /\ ~isMaster(d)
  BY SlaveWhere, RankFacts DEF SessionInv, isMaster, MPI_COORD_RANK
<1>2. ~DeduceQueries(d) /\ ~CountFinished(d) /\ ~PollDoneFiles(d)
  BY <1>1 DEF DeduceQueries, CountFinished, PollDoneFiles
<1>3. ~Distribute(d) /\ ~CoordFinished(d)
  BY <1>1 DEF Distribute, CoordFinished
<1> QED
  BY <1>2, <1>3, SlaveRecvParams, SlaveRecvBatchStart, SlaveRecvBatchEnd, SlaveRecvRequest,
     SlaveRecvPhase, SlaveStartPhase, SlaveRecvQueryCreated, SlaveLoops, SlaveFinishes, SlaveReport
     DEF Prover

-----------------------------------------------------------------------------
(* The steps of the verifier. *)

VerifierFrame ==
    /\ \A r \in Ranks \ {0} : pc'[r] = pc[r]
    /\ phase' = phase /\ batch_size' = batch_size /\ batch_start' = batch_start
    /\ batch_end' = batch_end /\ cur' = cur /\ num' = num
    /\ \A a, b \in Ranks : <<a, b>> \notin {<<0, 1>>, <<1, 0>>} => net'[a][b] = net[a][b]
    /\ folder'.output = folder.output /\ folder'.assignment = folder.assignment
    /\ folder'.commitment = folder.commitment /\ folder'.answers = folder.answers

LEMMA VerifierCombine ==
    ASSUME SessionInv, VerifierFrame, Dialogue', Files'
    PROVE  SessionInv'
<1>1. \A r \in Ranks \ {0} : pc'[r] = pc[r]
  BY DEF VerifierFrame
<1>2. pc'[1] = pc[1] /\ phase'[1] = phase[1] /\ num' = num
  BY <1>1, RankFacts DEF VerifierFrame
<1>3. Channels'
  <2>1. \A r \in Slaves : pc[r] = "done" => pc'[r] = "done"
    BY <1>1, RankFacts
  <2>2. \A a, b \in Ranks : net'[a][b] = net[a][b] \/ <<a, b>> \in {<<0, 1>>, <<1, 0>>}
    BY DEF VerifierFrame
  <2> QED
    BY <2>1, <2>2, ChannelsStep DEF SessionInv
<1>4. ASSUME NEW e \in Slaves
      PROVE  /\ SlaveLine(e)' /\ pc'[e] = pc[e] /\ net'[e][1] = net[e][1]
  <2>1. e \in Ranks /\ e # 0 /\ e # 1 /\ 1 \in Ranks
    BY RankFacts
  <2>2. pc'[e] = pc[e] /\ net'[1][e] = net[1][e] /\ net'[e][1] = net[e][1]
    BY <1>1, <2>1 DEF VerifierFrame
  <2>3. phase' = phase /\ batch_start' = batch_start /\ batch_end' = batch_end
    BY DEF VerifierFrame
  <2> QED
    BY <1>2, <2>2, <2>3, SlaveLineKept DEF SessionInv
<1>5. ASSUME NEW r \in Working PROVE ShareFiles(r)'
  <2>1. pc'[r] = pc[r]
    BY <1>1, RankFacts
  <2>2. Grows
    BY DEF VerifierFrame, Grows
  <2>3. phase' = phase /\ batch_start' = batch_start /\ batch_end' = batch_end /\ cur' = cur
    BY DEF VerifierFrame
  <2> QED
    BY <2>1, <2>2, <2>3, ShareFilesKept DEF SessionInv
<1>6. Count'
  <2> SUFFICES ASSUME NEW ph \in {COMMITMENT, PCP}, HandedOut(ph)'
               PROVE  /\ num' = 2 + Cardinality(Counted(ph)')
                      /\ pc'[1] = "p_wait" => num' <= NumSlaves
                      /\ pc'[1] \in {"p_compute", "p_commit", "p_answer"} => num' = 2
    BY DEF Count
  <2>1. HandedOut(ph)
    BY <1>2 DEF HandedOut
  <2>2. phase' = phase
    BY DEF VerifierFrame
  <2>3. Counted(ph)' = Counted(ph)
    BY <1>4, <2>2 DEF Counted, Reported
  <2> QED
    BY <1>2, <2>1, <2>3 DEF SessionInv, Count
<1> QED
  BY <1>3, <1>4, <1>5, <1>6 DEF SessionInv

\* Once the verifier has heard of the commitments, every instance has its files ...
LEMMA AllCommitted ==
    ASSUME SessionInv, pc[0] \in {"v_reveal"} \cup Revealed
    PROVE  New(folder.output, Instances) /\ New(folder.assignment, Instances) /\ New(folder.commitment, Instances)
<1>1. \/ phase[1] = COMMITMENT /\ pc[1] \in {"p_idle", "p_phase"}
      \/ phase[1] \in {DEDUCE_QUERIES, PCP}
  BY DEF SessionInv, Dialogue, Revealed, Waits, Told, Engaged
<1>2. Between \/ HandedOut(PCP) \/ AllAnswered \/ Over
  <2>1. ~Before /\ ~HandedOut(COMMITMENT)
    BY <1>1, PhaseNumbers DEF Before, HandedOut
  <2> QED
    BY <2>1, Epochs DEF SessionInv
<1>3. ASSUME NEW d \in Slaves
      PROVE  \/ phase[d] = COMMITMENT /\ pc[d] \notin {"p_request", "p_compute", "p_commit"}
             \/ phase[d] \in {DEDUCE_QUERIES, PCP}
  <2>i. SlaveLine(d) /\ Dialogue
    BY DEF SessionInv
  <2>1. CASE Between
    BY <2>1, <2>i DEF SlaveLine, Reported
  <2>2. CASE HandedOut(PCP)
    BY <2>2, <2>i, LineByEpoch DEF LastPhase, Reported
  <2>3. CASE AllAnswered
    BY <2>3, <2>i DEF SlaveLine, Reported
  <2>4. CASE Over
    BY <2>4, <2>i, LineByEpoch
  <2> QED
    BY <1>2, <2>1, <2>2, <2>3, <2>4
<1>4. ASSUME NEW r \in Working
      PROVE  /\ New(folder.output, ShareStart(r) .. ShareEnd(r))
             /\ New(folder.assignment, ShareStart(r) .. ShareEnd(r))
             /\ New(folder.commitment, ShareStart(r) .. ShareEnd(r))
  <2>1. \/ phase[r] = COMMITMENT /\ pc[r] \notin {"p_request", "p_compute", "p_commit"}
        \/ phase[r] \in {DEDUCE_QUERIES, PCP}
    BY <1>1, <1>3, RankFacts
  <2> QED
    BY <2>1 DEF SessionInv, ShareFiles
<1> QED
  BY <1>4, SharesCover DEF New

\* ... and once it has heard of the answers, its answers.
LEMMA AllAnswers ==
    ASSUME SessionInv, pc[0] \in {"v_test", "done"}
    PROVE  New(folder.answers, Instances)
<1>1. phase[1] = PCP /\ pc[1] \in {"p_idle", "done"}
  BY DEF SessionInv, Dialogue, Waits
<1>2. AllAnswered \/ Over
  BY <1>1 DEF AllAnswered, Over
<1>3. ASSUME NEW d \in Slaves PROVE phase[d] = PCP /\ pc[d] \in {"p_report", "p_idle", "done"}
  <2>i. SlaveLine(d) /\ Dialogue
    BY DEF SessionInv
  <2>3. CASE AllAnswered
    BY <2>3, <2>i DEF SlaveLine, Reported
  <2>4. CASE Over
    BY <2>4, <2>i, LineByEpoch
  <2> QED
    BY <1>2, <2>3, <2>4
<1>4. ASSUME NEW r \in Working PROVE New(folder.answers, ShareStart(r) .. ShareEnd(r))
  <2>1. phase[r] = PCP /\ pc[r] \in {"p_report", "p_idle", "done"}
    BY <1>1, <1>3, RankFacts
  <2> QED
    BY <2>1 DEF SessionInv, ShareFiles
<1> QED
  BY <1>4, SharesCover DEF New

\* What the verifier's sends do to the dialogue.
LEMMA VerifierSends ==
    ASSUME TypeInv, NEW msgs, net' = Put(0, 1, msgs), NEW l, pc' = [pc EXCEPT ![0] = l]
    PROVE  /\ pc'[0] = l /\ pc'[1] = pc[1] /\ \A r \in Ranks \ {0} : pc'[r] = pc[r]
           /\ net'[0][1] = net[0][1] \o msgs /\ net'[1][0] = net[1][0]
           /\ \A a, b \in Ranks : <<a, b>> \notin {<<0, 1>>, <<1, 0>>} => net'[a][b] = net[a][b]
<1>1. 0 \in Ranks /\ 1 \in Ranks
  BY RankFacts
<1>2. net \in Nets /\ pc \in [Ranks -> VerifierPC \cup ProverPC]
  BY DEF TypeInv, TypeOK, Nets
<1>3. \A a, b \in Ranks : net'[a][b] = IF a = 0 /\ b = 1 THEN net[0][1] \o msgs ELSE net[a][b]
  BY <1>1, <1>2, PutAt
<1>4. \A r \in Ranks : pc'[r] = IF r = 0 THEN l ELSE pc[r]
  BY <1>1, <1>2
<1>5. \A a, b \in Ranks : <<a, b>> \notin {<<0, 1>>, <<1, 0>>} => ~(a = 0 /\ b = 1)
  OBVIOUS
<1>6. net'[0][1] = net[0][1] \o msgs /\ net'[1][0] = net[1][0]
  <2>1. ASSUME NEW a \in Ranks, NEW b \in Ranks
        PROVE  /\ a = 0 /\ b = 1 => net'[a][b] = net[0][1] \o msgs
               /\ a # 0 => net'[a][b] = net[a][b]
    BY <1>3
  <2> QED
    BY <1>1, <2>1
<1>7. \A a, b \in Ranks : <<a, b>> \notin {<<0, 1>>, <<1, 0>>} => net'[a][b] = net[a][b]
  BY <1>3, <1>5
<1> QED
  BY <1>1, <1>4, <1>6, <1>7

\* Queues that grow.
LEMMA JoinsTwo ==
    ASSUME NEW a, NEW b, NEW c, NEW d
    PROVE  << a, b >> \o << c, d >> = << a, b, c, d >>
<1> DEFINE S == {a, b, c, d}
<1>1. << a, b >> \o << c, d >> \in Seq(S) /\ << a, b, c, d >> \in Seq(S)
  OBVIOUS
<1>2. Len(<< a, b >> \o << c, d >>) = 4 /\ Len(<< a, b, c, d >>) = 4
  OBVIOUS
<1>3. \A i \in 1 .. 4 : (<< a, b >> \o << c, d >>)[i] = << a, b, c, d >>[i]
  OBVIOUS
<1> HIDE DEF S
<1> QED
  BY <1>1, <1>2, <1>3, SeqEqual

LEMMA JoinsOne == ASSUME NEW a, NEW c, NEW d PROVE << a >> \o << c, d >> = << a, c, d >>
<1> DEFINE S == {a, c, d}
<1>1. << a >> \o << c, d >> \in Seq(S) /\ << a, c, d >> \in Seq(S)
  OBVIOUS
<1>2. Len(<< a >> \o << c, d >>) = 3 /\ Len(<< a, c, d >>) = 3
  OBVIOUS
<1>3. \A i \in 1 .. 3 : (<< a >> \o << c, d >>)[i] = << a, c, d >>[i]
  OBVIOUS
<1> HIDE DEF S
<1> QED
  BY <1>1, <1>2, <1>3, SeqEqual

LEMMA StepSendParams == ASSUME TypeInv, SessionInv, SendParams PROVE SessionInv'
<1>1. /\ pc[0] = "v_params" /\ net' = Put(0, 1, << PARAM(BatchSize) >>)
      /\ pc' = [pc EXCEPT ![0] = "v_setup"] /\ folder' = folder /\ result' = result
      /\ phase' = phase /\ batch_size' = batch_size /\ batch_start' = batch_start
      /\ batch_end' = batch_end /\ cur' = cur /\ num' = num
  BY DEF SendParams, vProverVars, MPI_COORD_RANK, PARAM
<1>2. /\ pc'[0] = "v_setup" /\ pc'[1] = pc[1] /\ \A r \in Ranks \ {0} : pc'[r] = pc[r]
      /\ net'[0][1] = net[0][1] \o << PARAM(BatchSize) >> /\ net'[1][0] = net[1][0]
      /\ \A a, b \in Ranks : <<a, b>> \notin {<<0, 1>>, <<1, 0>>} => net'[a][b] = net[a][b]
  BY <1>1, VerifierSends
<1>3. VerifierFrame
  BY <1>1, <1>2 DEF VerifierFrame
<1>4. /\ pc[1] = "p_batch" /\ phase[1] = 0 /\ net[0][1] = << >> /\ net[1][0] = << >>
  BY <1>1 DEF SessionInv, Dialogue
<1>5. net'[0][1] = << PARAM(BatchSize) >>
  <2>1. \A m : << >> \o << m >> = << m >>
    OBVIOUS
  <2> QED
    BY <1>2, <1>4, <2>1
<1>6. Dialogue'
  BY <1>1, <1>2, <1>4, <1>5 DEF Dialogue, VerifierPC
<1>7. Files'
  BY <1>1, <1>2 DEF SessionInv, Files, Revealed
<1> QED
  BY <1>3, <1>6, <1>7, VerifierCombine

LEMMA StepSetup == ASSUME TypeInv, SessionInv, Setup PROVE SessionInv'
<1>t. folder \in Folder
  BY DEF TypeInv, TypeOK
<1>1. /\ pc[0] = "v_setup" /\ net' = Put(0, 1, << INVOKE, PARAM(COMMITMENT) >>)
      /\ pc' = [pc EXCEPT ![0] = "v_wait1"] /\ result' = result
      /\ phase' = phase /\ batch_size' = batch_size /\ batch_start' = batch_start
      /\ batch_end' = batch_end /\ cur' = cur /\ num' = num
      /\ folder' = [folder EXCEPT !.commitment_query = "new", !.input = [i \in Instances |-> "new"]]
  BY DEF Setup, vProverVars, MPI_COORD_RANK, PARAM, INVOKE, Invoke
<1>f. /\ folder'.output = folder.output /\ folder'.assignment = folder.assignment
      /\ folder'.commitment = folder.commitment /\ folder'.answers = folder.answers
      /\ folder'.seed = folder.seed /\ folder'.queries = folder.queries
      /\ folder'.consistency = folder.consistency
      /\ folder'.commitment_query = "new" /\ New(folder'.input, Instances)
  BY <1>1, <1>t DEF Folder, New
<1>2. /\ pc'[0] = "v_wait1" /\ pc'[1] = pc[1] /\ \A r \in Ranks \ {0} : pc'[r] = pc[r]
      /\ net'[0][1] = net[0][1] \o << INVOKE, PARAM(COMMITMENT) >> /\ net'[1][0] = net[1][0]
      /\ \A a, b \in Ranks : <<a, b>> \notin {<<0, 1>>, <<1, 0>>} => net'[a][b] = net[a][b]
  BY <1>1, VerifierSends
<1>3. VerifierFrame
  BY <1>1, <1>2, <1>f DEF VerifierFrame
<1>4. \/ pc[1] = "p_batch" /\ phase[1] = 0 /\ net[0][1] = << PARAM(BatchSize) >> /\ net[1][0] = << >>
      \/ Waits(0, << >>, << >>)
  BY <1>1 DEF SessionInv, Dialogue
<1>6. Dialogue'
  <2>1. \/ /\ pc'[1] = "p_batch" /\ phase'[1] = 0 /\ net'[1][0] = << >>
           /\ net'[0][1] = << PARAM(BatchSize), INVOKE, PARAM(COMMITMENT) >>
        \/ Waits(0, << INVOKE, PARAM(COMMITMENT) >>, << >>)'
    <3>1. /\ << >> \o << INVOKE, PARAM(COMMITMENT) >> = << INVOKE, PARAM(COMMITMENT) >>
          /\ << PARAM(BatchSize) >> \o << INVOKE, PARAM(COMMITMENT) >>
               = << PARAM(BatchSize), INVOKE, PARAM(COMMITMENT) >>
      BY JoinsOne
    <3>2. CASE pc[1] = "p_batch" /\ phase[1] = 0 /\ net[0][1] = << PARAM(BatchSize) >> /\ net[1][0] = << >>
      BY <1>1, <1>2, <3>1, <3>2
    <3>3. CASE Waits(0, << >>, << >>)
      BY <1>1, <1>2, <3>1, <3>3 DEF Waits
    <3> QED
      BY <1>4, <3>2, <3>3
  <2>2. pc'[1] = "p_batch" \/ batch_size'[1] = BatchSize
    BY <1>1, <1>2 DEF SessionInv, Dialogue
  <2> QED
    BY <1>2, <2>1, <2>2 DEF Dialogue, VerifierPC
<1>7. Files'
  BY <1>1, <1>2, <1>f DEF SessionInv, Files, Revealed
<1> QED
  BY <1>3, <1>6, <1>7, VerifierCombine

LEMMA StepRevealSeed == ASSUME TypeInv, SessionInv, RevealSeed PROVE SessionInv'
<1>t. folder \in Folder
  BY DEF TypeInv, TypeOK
<1>1. /\ pc[0] = "v_reveal" /\ net' = Put(0, 1, << INVOKE, PARAM(DEDUCE_QUERIES) >>)
      /\ pc' = [pc EXCEPT ![0] = "v_plain"] /\ result' = result
      /\ phase' = phase /\ batch_size' = batch_size /\ batch_start' = batch_start
      /\ batch_end' = batch_end /\ cur' = cur /\ num' = num
      /\ folder' = [folder EXCEPT !.seed = "new"]
  BY DEF RevealSeed, vProverVars, MPI_COORD_RANK, PARAM, INVOKE, Invoke
<1>f. /\ folder'.output = folder.output /\ folder'.assignment = folder.assignment
      /\ folder'.commitment = folder.commitment /\ folder'.answers = folder.answers
      /\ folder'.queries = folder.queries /\ folder'.input = folder.input
      /\ folder'.commitment_query = folder.commitment_query /\ folder'.seed = "new"
  BY <1>1, <1>t DEF Folder
<1>2. /\ pc'[0] = "v_plain" /\ pc'[1] = pc[1] /\ \A r \in Ranks \ {0} : pc'[r] = pc[r]
      /\ net'[0][1] = net[0][1] \o << INVOKE, PARAM(DEDUCE_QUERIES) >> /\ net'[1][0] = net[1][0]
      /\ \A a, b \in Ranks : <<a, b>> \notin {<<0, 1>>, <<1, 0>>} => net'[a][b] = net[a][b]
  BY <1>1, VerifierSends
<1>3. VerifierFrame
  BY <1>1, <1>2, <1>f DEF VerifierFrame
<1>4. Waits(COMMITMENT, << >>, << >>)
  BY <1>1 DEF SessionInv, Dialogue
<1>6. Dialogue'
  <2>1. Waits(COMMITMENT, << INVOKE, PARAM(DEDUCE_QUERIES) >>, << >>)'
    <3>1. << >> \o << INVOKE, PARAM(DEDUCE_QUERIES) >> = << INVOKE, PARAM(DEDUCE_QUERIES) >>
      OBVIOUS
    <3> QED
      BY <1>1, <1>2, <1>4, <3>1 DEF Waits
  <2>2. pc'[1] = "p_batch" \/ batch_size'[1] = BatchSize
    BY <1>1, <1>2 DEF SessionInv, Dialogue
  <2> QED
    BY <1>2, <2>1, <2>2 DEF Dialogue, VerifierPC
<1>7. Files'
  BY <1>1, <1>2, <1>f DEF SessionInv, Files, Revealed
<1> QED
  BY <1>3, <1>6, <1>7, VerifierCombine

LEMMA StepCreatePlainQueries == ASSUME TypeInv, SessionInv, CreatePlainQueries PROVE SessionInv'
<1>t. folder \in Folder
  BY DEF TypeInv, TypeOK
<1>1. /\ pc[0] = "v_plain" /\ net' = Put(0, 1, << INVOKE, PARAM(PCP) >>)
      /\ pc' = [pc EXCEPT ![0] = "v_wait3"] /\ result' = result
      /\ phase' = phase /\ batch_size' = batch_size /\ batch_start' = batch_start
      /\ batch_end' = batch_end /\ cur' = cur /\ num' = num
      /\ folder' = [folder EXCEPT !.consistency = "new"]
  BY DEF CreatePlainQueries, vProverVars, MPI_COORD_RANK, PARAM, INVOKE, Invoke
<1>f. /\ folder'.output = folder.output /\ folder'.assignment = folder.assignment
      /\ folder'.commitment = folder.commitment /\ folder'.answers = folder.answers
      /\ folder'.queries = folder.queries /\ folder'.input = folder.input
      /\ folder'.commitment_query = folder.commitment_query /\ folder'.seed = folder.seed
      /\ folder'.consistency = "new"
  BY <1>1, <1>t DEF Folder
<1>2. /\ pc'[0] = "v_wait3" /\ pc'[1] = pc[1] /\ \A r \in Ranks \ {0} : pc'[r] = pc[r]
      /\ net'[0][1] = net[0][1] \o << INVOKE, PARAM(PCP) >> /\ net'[1][0] = net[1][0]
      /\ \A a, b \in Ranks : <<a, b>> \notin {<<0, 1>>, <<1, 0>>} => net'[a][b] = net[a][b]
  BY <1>1, VerifierSends
<1>3. VerifierFrame
  BY <1>1, <1>2, <1>f DEF VerifierFrame
<1>4. \/ Waits(COMMITMENT, << INVOKE, PARAM(DEDUCE_QUERIES) >>, << >>)
      \/ Told(COMMITMENT, << PARAM(DEDUCE_QUERIES) >>)
      \/ pc[1] = "p_deduce" /\ phase[1] = DEDUCE_QUERIES /\ net[0][1] = << >> /\ net[1][0] = << >>
      \/ Waits(DEDUCE_QUERIES, << >>, << >>)
  BY <1>1 DEF SessionInv, Dialogue
<1>6. Dialogue'
  <2>1. /\ << >> \o << INVOKE, PARAM(PCP) >> = << INVOKE, PARAM(PCP) >>
        /\ << PARAM(DEDUCE_QUERIES) >> \o << INVOKE, PARAM(PCP) >>
             = << PARAM(DEDUCE_QUERIES), INVOKE, PARAM(PCP) >>
        /\ << INVOKE, PARAM(DEDUCE_QUERIES) >> \o << INVOKE, PARAM(PCP) >>
             = << INVOKE, PARAM(DEDUCE_QUERIES), INVOKE, PARAM(PCP) >>
    <3>1. << >> \o << INVOKE, PARAM(PCP) >> = << INVOKE, PARAM(PCP) >>
      OBVIOUS
    <3>2. << PARAM(DEDUCE_QUERIES) >> \o << INVOKE, PARAM(PCP) >>
            = << PARAM(DEDUCE_QUERIES), INVOKE, PARAM(PCP) >>
      BY JoinsOne
    <3>3. << INVOKE, PARAM(DEDUCE_QUERIES) >> \o << INVOKE, PARAM(PCP) >>
            = << INVOKE, PARAM(DEDUCE_QUERIES), INVOKE, PARAM(PCP) >>
      BY JoinsTwo
    <3> QED
      BY <3>1, <3>2, <3>3
  <2>2. pc'[1] = "p_batch" \/ batch_size'[1] = BatchSize
    BY <1>1, <1>2 DEF SessionInv, Dialogue
  <2> DEFINE D == \/ Waits(COMMITMENT, << INVOKE, PARAM(DEDUCE_QUERIES), INVOKE, PARAM(PCP) >>, << >>)'
                  \/ Told(COMMITMENT, << PARAM(DEDUCE_QUERIES), INVOKE, PARAM(PCP) >>)'
                  \/ /\ pc'[1] = "p_deduce" /\ phase'[1] = DEDUCE_QUERIES
                     /\ net'[0][1] = << INVOKE, PARAM(PCP) >> /\ net'[1][0] = << >>
                  \/ Waits(DEDUCE_QUERIES, << INVOKE, PARAM(PCP) >>, << >>)'
  <2>3. D
    <3>1. CASE Waits(COMMITMENT, << INVOKE, PARAM(DEDUCE_QUERIES) >>, << >>)
      BY <1>1, <1>2, <2>1, <3>1 DEF Waits
    <3>2. CASE Told(COMMITMENT, << PARAM(DEDUCE_QUERIES) >>)
      BY <1>1, <1>2, <2>1, <3>2 DEF Told
    <3>3. CASE pc[1] = "p_deduce" /\ phase[1] = DEDUCE_QUERIES /\ net[0][1] = << >> /\ net[1][0] = << >>
      BY <1>1, <1>2, <2>1, <3>3
    <3>4. CASE Waits(DEDUCE_QUERIES, << >>, << >>)
      BY <1>1, <1>2, <2>1, <3>4 DEF Waits
    <3> QED
      BY <1>4, <3>1, <3>2, <3>3, <3>4
  <2> QED
    BY <1>2, <2>2, <2>3 DEF Dialogue, VerifierPC
<1>7. Files'
  BY <1>1, <1>2, <1>f DEF SessionInv, Files, Revealed
<1> QED
  BY <1>3, <1>6, <1>7, VerifierCombine

\* The verifier's receives: rank 1's report, which ends the phase.
LEMMA StepRecvFinished ==
    ASSUME TypeInv, SessionInv, RecvCommitments \/ RecvAnswers
    PROVE  SessionInv'
<1>0. 0 \in Ranks /\ 1 \in Ranks
  BY RankFacts
<1>t. net \in Nets /\ pc \in [Ranks -> VerifierPC \cup ProverPC]
  BY DEF TypeInv, TypeOK, Nets
<1>1. PICK i \in 1 .. Len(net[1][0]) : FirstMatch(1, 0, {"PROVER_FINISHED"}, i) /\ net' = Taken(1, 0, i)
  BY DEF RecvCommitments, RecvAnswers, RecvFinished, VerifierSource, MPI_COORD_RANK
<1>2. /\ folder' = folder /\ result' = result
      /\ phase' = phase /\ batch_size' = batch_size /\ batch_start' = batch_start
      /\ batch_end' = batch_end /\ cur' = cur /\ num' = num
      /\ \/ pc[0] = "v_wait1" /\ pc' = [pc EXCEPT ![0] = "v_reveal"]
         \/ pc[0] = "v_wait3" /\ pc' = [pc EXCEPT ![0] = "v_test"]
  BY DEF RecvCommitments, RecvAnswers, RecvFinished, vProverVars
<1>3. net[1][0] # << >>
  BY <1>1, NoMatch
<1>4. \/ pc[0] = "v_wait1" /\ pc' = [pc EXCEPT ![0] = "v_reveal"] /\ Waits(COMMITMENT, << >>, << FINISH >>)
      \/ pc[0] = "v_wait3" /\ pc' = [pc EXCEPT ![0] = "v_test"] /\ Waits(PCP, << >>, << FINISH >>)
  <2>1. CASE pc[0] = "v_wait1" /\ pc' = [pc EXCEPT ![0] = "v_reveal"]
    BY <1>3, <2>1 DEF SessionInv, Dialogue, Waits, Told, Engaged
  <2>2. CASE pc[0] = "v_wait3" /\ pc' = [pc EXCEPT ![0] = "v_test"]
    BY <1>3, <2>2 DEF SessionInv, Dialogue, Waits, Told, Engaged
  <2> QED
    BY <1>2, <2>1, <2>2
<1>5. net[1][0] = << FINISH >> /\ net[0][1] = << >>
  BY <1>4 DEF Waits
<1>6. Head(net[1][0]).tag \in {"PROVER_FINISHED"} /\ Tail(net[1][0]) = << >>
  BY <1>5, Queues, MessageFacts
<1>7. net' = [net EXCEPT ![1][0] = << >>]
  <2>1. Taken(1, 0, i) = [net EXCEPT ![1][0] = Tail(net[1][0])]
    BY <1>0, <1>t, <1>1, <1>6, TakesHead
  <2> QED
    BY <1>1, <1>6, <2>1
<1>8. \A a, b \in Ranks : net'[a][b] = IF a = 1 /\ b = 0 THEN << >> ELSE net[a][b]
  BY <1>0, <1>t, <1>7, ChannelAt
<1>9. net'[1][0] = << >> /\ net'[0][1] = net[0][1]
  BY <1>0, <1>8
<1>10. \A a, b \in Ranks : <<a, b>> \notin {<<0, 1>>, <<1, 0>>} => net'[a][b] = net[a][b]
  <2>1. \A a, b \in Ranks : <<a, b>> \notin {<<0, 1>>, <<1, 0>>} => ~(a = 1 /\ b = 0)
    OBVIOUS
  <2> QED
    BY <1>8, <2>1
<1>11. /\ \A r \in Ranks \ {0} : pc'[r] = pc[r]
       /\ pc'[1] = pc[1]
       /\ pc[0] = "v_wait1" => pc'[0] = "v_reveal"
       /\ pc[0] = "v_wait3" => pc'[0] = "v_test"
       /\ pc[0] \in {"v_wait1", "v_wait3"}
  BY <1>0, <1>t, <1>2
<1>12. VerifierFrame
  BY <1>2, <1>10, <1>11 DEF VerifierFrame
<1>13. Dialogue'
  <2>1. pc'[1] = "p_batch" \/ batch_size'[1] = BatchSize
    BY <1>2, <1>11 DEF SessionInv, Dialogue
  <2>2. CASE pc[0] = "v_wait1"
    <3>1. Waits(COMMITMENT, << >>, << >>)'
      BY <1>2, <1>4, <1>9, <1>11, <2>2 DEF Waits
    <3> QED
      BY <1>11, <2>1, <2>2, <3>1 DEF Dialogue, VerifierPC
  <2>3. CASE pc[0] = "v_wait3"
    <3>1. Waits(PCP, << >>, << >>)'
      BY <1>2, <1>4, <1>9, <1>11, <2>3 DEF Waits
    <3> QED
      BY <1>11, <2>1, <2>3, <3>1 DEF Dialogue, VerifierPC
  <2> QED
    BY <1>11, <2>2, <2>3
<1>14. Files'
  BY <1>2, <1>11 DEF SessionInv, Files, Revealed
<1> QED
  BY <1>12, <1>13, <1>14, VerifierCombine

LEMMA StepRunTests == ASSUME TypeInv, SessionInv, RunTests PROVE SessionInv' /\ pc' = pc
<1>0. 0 \in Ranks /\ 1 \in Ranks
  BY RankFacts
<1>1. pc[0] = "v_test" /\ beta \in Instances
  BY SessionAssumption DEF RunTests, TypeInv, TypeOK, Instances
<1>2. folder.answers[beta] = "new"
  BY <1>1, AllAnswers DEF New
<1>3. folder.commitment[beta] = "new" /\ folder.output[beta] = "new"
  BY <1>1, AllCommitted DEF New, Revealed
<1>4. folder.input[beta] = "new" /\ result
  BY <1>1 DEF SessionInv, Files, New
<1>5. From({folder.answers[beta], folder.commitment[beta], folder.input[beta], folder.output[beta]}) = "new"
  BY <1>2, <1>3, <1>4 DEF From
<1>6. /\ pc' = pc /\ net' = net /\ folder' = folder
      /\ phase' = phase /\ batch_size' = batch_size /\ batch_start' = batch_start
      /\ batch_end' = batch_end /\ cur' = cur /\ num' = num
  BY <1>2 DEF RunTests, vProverVars
<1>7. result'
  BY <1>2, <1>4, <1>5 DEF RunTests
<1>8. VerifierFrame
  BY <1>6 DEF VerifierFrame
<1>9. Dialogue'
  BY <1>6, DialogueKept DEF SessionInv
<1>10. Files'
  BY <1>6, <1>7 DEF SessionInv, Files
<1> QED
  BY <1>6, <1>8, <1>9, <1>10, VerifierCombine

LEMMA StepTerminate == ASSUME TypeInv, SessionInv, Terminate PROVE SessionInv'
<1>1. /\ pc[0] = "v_test" /\ net' = Put(0, 1, << TERM >>)
      /\ pc' = [pc EXCEPT ![0] = "done"] /\ folder' = folder /\ result' = result
      /\ phase' = phase /\ batch_size' = batch_size /\ batch_start' = batch_start
      /\ batch_end' = batch_end /\ cur' = cur /\ num' = num
  BY DEF Terminate, vProverVars, MPI_COORD_RANK, TERM
<1>2. /\ pc'[0] = "done" /\ pc'[1] = pc[1] /\ \A r \in Ranks \ {0} : pc'[r] = pc[r]
      /\ net'[0][1] = net[0][1] \o << TERM >> /\ net'[1][0] = net[1][0]
      /\ \A a, b \in Ranks : <<a, b>> \notin {<<0, 1>>, <<1, 0>>} => net'[a][b] = net[a][b]
  BY <1>1, VerifierSends
<1>3. VerifierFrame
  BY <1>1, <1>2 DEF VerifierFrame
<1>4. Waits(PCP, << >>, << >>)
  BY <1>1 DEF SessionInv, Dialogue
<1>5. Dialogue'
  <2>1. Waits(PCP, << TERM >>, << >>)'
    <3>1. << >> \o << TERM >> = << TERM >>
      OBVIOUS
    <3> QED
      BY <1>1, <1>2, <1>4, <3>1 DEF Waits
  <2>2. pc'[1] = "p_batch" \/ batch_size'[1] = BatchSize
    BY <1>1, <1>2 DEF SessionInv, Dialogue
  <2> QED
    BY <1>2, <2>1, <2>2 DEF Dialogue, VerifierPC
<1>6. Files'
  BY <1>1, <1>2 DEF SessionInv, Files, Revealed
<1> QED
  BY <1>3, <1>5, <1>6, VerifierCombine

LEMMA VerifierStep == ASSUME TypeInv, SessionInv, Verifier PROVE SessionInv'
  BY StepSendParams, StepSetup, StepRecvFinished, StepRevealSeed, StepCreatePlainQueries,
     StepRunTests, StepTerminate DEF Verifier

-----------------------------------------------------------------------------
(* The steps of the coordinator. *)

\* It leaves the verifier and the slaves where they are.
CoordFrame ==
    /\ \A r \in Ranks \ {1} : pc'[r] = pc[r]
    /\ \A r \in Provers \ {1} : /\ phase'[r] = phase[r] /\ batch_start'[r] = batch_start[r]
                                /\ batch_end'[r] = batch_end[r] /\ cur'[r] = cur[r]
    /\ result' = result /\ Grows

\* Nothing passes between the coordinator and the slaves, and the epoch stays.
CoordAlone ==
    /\ \A e \in Slaves : net'[1][e] = net[1][e] /\ net'[e][1] = net[e][1]
    /\ num' = num
    /\ Before' => Before
    /\ \A ph \in {COMMITMENT, PCP} : HandedOut(ph)' => HandedOut(ph)
    /\ Between' => Between
    /\ AllAnswered' => AllAnswered
    /\ Over' => Over

LEMMA CoordFrameFacts ==
    ASSUME CoordFrame, NEW e \in Slaves
    PROVE  /\ pc'[e] = pc[e] /\ phase'[e] = phase[e] /\ batch_start'[e] = batch_start[e]
           /\ batch_end'[e] = batch_end[e] /\ cur'[e] = cur[e]
           /\ (SessionInv => ShareFiles(e)')
<1>1. e \in Ranks /\ e \in Provers /\ e # 1 /\ e \in Working
  BY RankFacts
<1>2. /\ pc'[e] = pc[e] /\ phase'[e] = phase[e] /\ batch_start'[e] = batch_start[e]
      /\ batch_end'[e] = batch_end[e] /\ cur'[e] = cur[e] /\ Grows
  BY <1>1 DEF CoordFrame
<1> QED
  BY <1>1, <1>2, ShareFilesKept DEF SessionInv

LEMMA SlaveLineStays ==
    ASSUME CoordFrame, CoordAlone, NEW e \in Slaves, SlaveLine(e)
    PROVE  SlaveLine(e)'
<1>1. /\ pc'[e] = pc[e] /\ phase'[e] = phase[e]
      /\ batch_start'[e] = batch_start[e] /\ batch_end'[e] = batch_end[e]
  BY CoordFrameFacts
<1>2. /\ net'[1][e] = net[1][e] /\ net'[e][1] = net[e][1]
      /\ Before' => Before
      /\ HandedOut(COMMITMENT)' => HandedOut(COMMITMENT)
      /\ HandedOut(PCP)' => HandedOut(PCP)
      /\ Between' => Between
      /\ AllAnswered' => AllAnswered
      /\ Over' => Over
  BY DEF CoordAlone
<1> QED
  BY <1>1, <1>2 DEF SlaveLine, FirstPhase, LastPhase, Reported, Ranged

LEMMA CoordCombine ==
    ASSUME SessionInv, CoordFrame, CoordAlone, Dialogue', Files', ShareFiles(1)', Channels',
           pc'[1] = "p_wait" => num <= NumSlaves,
           pc'[1] \in {"p_compute", "p_commit", "p_answer"} =>
               pc[1] \in {"p_compute", "p_commit", "p_answer"}
    PROVE  SessionInv'
<1>1. \A e \in Slaves : SlaveLine(e)'
  BY SlaveLineStays DEF SessionInv
<1>2. ASSUME NEW r \in Working PROVE ShareFiles(r)'
  <2>1. r = 1 \/ r \in Slaves
    BY RankFacts
  <2> QED
    BY <2>1, CoordFrameFacts
<1>3. Count'
  <2> SUFFICES ASSUME NEW ph \in {COMMITMENT, PCP}, HandedOut(ph)'
               PROVE  /\ num' = 2 + Cardinality(Counted(ph)')
                      /\ pc'[1] = "p_wait" => num' <= NumSlaves
                      /\ pc'[1] \in {"p_compute", "p_commit", "p_answer"} => num' = 2
    BY DEF Count
  <2>1. HandedOut(ph) /\ num' = num
    BY DEF CoordAlone
  <2>2. \A e \in Slaves : pc'[e] = pc[e] /\ phase'[e] = phase[e] /\ net'[e][1] = net[e][1]
    BY CoordFrameFacts DEF CoordAlone
  <2>3. Counted(ph)' = Counted(ph)
    BY <2>2 DEF Counted, Reported
  <2>4. /\ num = 2 + Cardinality(Counted(ph))
        /\ pc[1] \in {"p_compute", "p_commit", "p_answer"} => num = 2
    BY <2>1 DEF SessionInv, Count
  <2> QED
    BY <2>1, <2>3, <2>4
<1> QED
  BY <1>1, <1>2, <1>3 DEF SessionInv

\* Where the coordinator is, the verifier is.
CoordPlace ==
    /\ pc[1] = "p_batch" =>
         /\ phase[1] = 0 /\ net[1][0] = << >>
         /\ \/ pc[0] = "v_params" /\ net[0][1] = << >>
            \/ pc[0] = "v_setup" /\ net[0][1] = << PARAM(BatchSize) >>
            \/ pc[0] = "v_wait1" /\ net[0][1] = << PARAM(BatchSize), INVOKE, PARAM(COMMITMENT) >>
    /\ pc[1] = "p_idle" =>
         \/ net[0][1] = << >>
         \/ pc[0] = "v_wait1" /\ phase[1] = 0 /\ net[0][1] = << INVOKE, PARAM(COMMITMENT) >> /\ net[1][0] = << >>
         \/ /\ pc[0] = "v_plain" /\ phase[1] = COMMITMENT /\ net[1][0] = << >>
            /\ net[0][1] = << INVOKE, PARAM(DEDUCE_QUERIES) >>
         \/ /\ pc[0] = "v_wait3" /\ phase[1] = COMMITMENT /\ net[1][0] = << >>
            /\ net[0][1] = << INVOKE, PARAM(DEDUCE_QUERIES), INVOKE, PARAM(PCP) >>
         \/ pc[0] = "v_wait3" /\ phase[1] = DEDUCE_QUERIES /\ net[0][1] = << INVOKE, PARAM(PCP) >> /\ net[1][0] = << >>
         \/ pc[0] = "done" /\ phase[1] = PCP /\ net[0][1] = << TERM >> /\ net[1][0] = << >>
    /\ pc[1] = "p_phase" =>
         /\ net[1][0] = << >>
         /\ \/ pc[0] = "v_wait1" /\ phase[1] = 0 /\ net[0][1] = << PARAM(COMMITMENT) >>
            \/ pc[0] = "v_plain" /\ phase[1] = COMMITMENT /\ net[0][1] = << PARAM(DEDUCE_QUERIES) >>
            \/ /\ pc[0] = "v_wait3" /\ phase[1] = COMMITMENT
               /\ net[0][1] = << PARAM(DEDUCE_QUERIES), INVOKE, PARAM(PCP) >>
            \/ pc[0] = "v_wait3" /\ phase[1] = DEDUCE_QUERIES /\ net[0][1] = << PARAM(PCP) >>
    /\ pc[1] = "p_deduce" =>
         /\ phase[1] = DEDUCE_QUERIES /\ net[1][0] = << >>
         /\ \/ pc[0] = "v_plain" /\ net[0][1] = << >>
            \/ pc[0] = "v_wait3" /\ net[0][1] = << INVOKE, PARAM(PCP) >>
    /\ pc[1] \in {"p_request", "p_finish", "p_wait", "p_done_files", "p_report",
                  "p_compute", "p_commit", "p_answer"} =>
         \/ pc[0] = "v_wait1" /\ Engaged(COMMITMENT)
         \/ pc[0] = "v_wait3" /\ Engaged(PCP)

LEMMA CoordWhere == ASSUME Dialogue PROVE CoordPlace
<1>1. pc[0] \in {"v_params", "v_setup", "v_wait1", "v_reveal", "v_plain", "v_wait3", "v_test", "done"}
  BY DEF Dialogue, VerifierPC
<1>2. CASE pc[0] \in {"v_params", "v_setup"}
  BY <1>2 DEF Dialogue, CoordPlace, Waits
<1>3. CASE pc[0] = "v_wait1"
  <2>1. CASE Engaged(COMMITMENT)
    BY <1>3, <2>1 DEF Engaged, CoordPlace
  <2> QED
    BY <1>3, <2>1 DEF Dialogue, CoordPlace, Waits, Told
<1>4. CASE pc[0] \in {"v_reveal", "v_plain"}
  BY <1>4 DEF Dialogue, CoordPlace, Waits, Told
<1>5. CASE pc[0] = "v_wait3"
  <2>1. CASE Engaged(PCP)
    BY <1>5, <2>1, PhaseNumbers DEF Engaged, CoordPlace
  <2> QED
    BY <1>5, <2>1 DEF Dialogue, CoordPlace, Waits, Told
<1>6. CASE pc[0] \in {"v_test", "done"}
  BY <1>6 DEF Dialogue, CoordPlace, Waits
<1> QED
  BY <1>1, <1>2, <1>3, <1>4, <1>5, <1>6

\* Between the phases only the verifier speaks to the coordinator.
LEMMA CoordHears ==
    ASSUME TypeInv, SessionInv, pc[1] \in {"p_batch", "p_idle", "p_phase"},
           NEW s \in Ranks, NEW i \in 1 .. Len(net[s][1])
    PROVE  s = 0
<1>1. ~HandedOut(COMMITMENT) /\ ~HandedOut(PCP) /\ ~Over
  BY DEF HandedOut, Over
<1>2. Before \/ Between \/ AllAnswered
  BY <1>1, Epochs DEF SessionInv
<1>3. \A e \in Slaves : net[e][1] = << >>
  BY <1>2 DEF SessionInv, SlaveLine
<1>4. net[s][1] # << >>
  BY NoMatch
<1> QED
  BY <1>3, <1>4, RankFacts DEF SessionInv, Channels

LEMMA CoordTakes ==
    ASSUME TypeInv, Channels, NEW tags, NEW i \in 1 .. Len(net[0][1]),
           FirstMatch(0, 1, tags, i), Head(net[0][1]).tag \in tags, net' = Taken(0, 1, i),
           NEW l, pc' = [pc EXCEPT ![1] = l]
    PROVE  /\ net[0][1][i] = Head(net[0][1]) /\ net'[0][1] = Tail(net[0][1])
           /\ net'[1][0] = net[1][0]
           /\ \A e \in Slaves : net'[1][e] = net[1][e] /\ net'[e][1] = net[e][1]
           /\ pc'[1] = l /\ pc'[0] = pc[0] /\ \A r \in Ranks \ {1} : pc'[r] = pc[r]
           /\ Channels'
<1>1. net \in Nets /\ pc \in [Ranks -> VerifierPC \cup ProverPC]
  BY DEF TypeInv, TypeOK, Nets
<1>2. 0 \in Ranks /\ 1 \in Ranks
  BY RankFacts
<1>3. /\ net[0][1][i] = Head(net[0][1])
      /\ net' = [net EXCEPT ![0][1] = Tail(net[0][1])]
  BY <1>1, <1>2, TakesHead
<1>4. PICK q : q = Tail(net[0][1])
  OBVIOUS
<1>5. \A a, b \in Ranks : net'[a][b] = IF a = 0 /\ b = 1 THEN q ELSE net[a][b]
  <2>1. net' = [net EXCEPT ![0][1] = q]
    BY <1>3, <1>4
  <2>2. \A a, b \in Ranks : [net EXCEPT ![0][1] = q][a][b] = IF a = 0 /\ b = 1 THEN q ELSE net[a][b]
    BY <1>1, <1>2, ChannelAt
  <2> QED
    BY <2>1, <2>2
<1>6. pc'[1] = l /\ \A r \in Ranks \ {1} : pc'[r] = pc[r]
  BY <1>1, <1>2
<1>7. Channels'
  <2>1. \A r \in Slaves : pc[r] = "done" => pc'[r] = "done"
    BY <1>6, RankFacts
  <2> QED
    BY <1>5, <2>1, ChannelsStep
<1>8. \A e \in Slaves : net'[1][e] = net[1][e] /\ net'[e][1] = net[e][1]
  BY <1>2, <1>5, RankFacts
<1>9. net'[0][1] = q /\ net'[1][0] = net[1][0] /\ pc'[0] = pc[0]
  BY <1>2, <1>5, <1>6
<1> QED
  BY <1>3, <1>4, <1>6, <1>7, <1>8, <1>9

LEMMA CoordRecvParams ==
    ASSUME TypeInv, SessionInv, RecvParams(1)
    PROVE  SessionInv'
<1> USE DEF Goto, vVerifierVars
<1>0. pc[1] = "p_batch" /\ 1 \in Ranks /\ 1 \in Provers /\ 0 \in Ranks /\ 1 \in Working
  BY RankFacts DEF RecvParams
<1>a. PICK s \in Ranks : \E i \in 1 .. Len(net[s][1]) :
         /\ FirstMatch(s, 1, {"PARAMS"}, i) /\ net' = Taken(s, 1, i)
         /\ batch_size' = [batch_size EXCEPT ![1] = net[s][1][i].val]
  BY DEF RecvParams, Recv
<1>1. PICK i \in 1 .. Len(net[s][1]) :
         /\ FirstMatch(s, 1, {"PARAMS"}, i) /\ net' = Taken(s, 1, i)
         /\ batch_size' = [batch_size EXCEPT ![1] = net[s][1][i].val]
  BY <1>a
<1>2. s = 0
  BY <1>0, <1>1, CoordHears
<1>3. net[0][1] # << >>
  BY <1>1, <1>2, NoMatch
<1>4. /\ phase[1] = 0 /\ net[1][0] = << >>
      /\ \/ pc[0] = "v_setup" /\ net[0][1] = << PARAM(BatchSize) >>
         \/ pc[0] = "v_wait1" /\ net[0][1] = << PARAM(BatchSize), INVOKE, PARAM(COMMITMENT) >>
  BY <1>0, <1>3, CoordWhere DEF SessionInv, CoordPlace
<1>5. /\ Head(net[0][1]) = PARAM(BatchSize)
      /\ \/ pc[0] = "v_setup" /\ Tail(net[0][1]) = << >>
         \/ pc[0] = "v_wait1" /\ Tail(net[0][1]) = << INVOKE, PARAM(COMMITMENT) >>
  <2>1. CASE pc[0] = "v_setup" /\ net[0][1] = << PARAM(BatchSize) >>
    BY <2>1
  <2>2. CASE pc[0] = "v_wait1" /\ net[0][1] = << PARAM(BatchSize), INVOKE, PARAM(COMMITMENT) >>
    BY <2>2
  <2> QED
    BY <1>4, <2>1, <2>2
<1>6. pc' = [pc EXCEPT ![1] = "p_idle"]
  BY DEF RecvParams, isMaster, MPI_COORD_RANK
<1>7. Head(net[0][1]).tag \in {"PARAMS"} /\ Head(net[0][1]).val = BatchSize
  BY <1>5, MessageFacts
<1>8. /\ net[0][1][i] = Head(net[0][1]) /\ net'[0][1] = Tail(net[0][1])
      /\ net'[1][0] = net[1][0]
      /\ \A e \in Slaves : net'[1][e] = net[1][e] /\ net'[e][1] = net[e][1]
      /\ pc'[1] = "p_idle" /\ pc'[0] = pc[0] /\ \A r \in Ranks \ {1} : pc'[r] = pc[r]
      /\ Channels'
  BY <1>1, <1>2, <1>6, <1>7, CoordTakes DEF SessionInv
<1>9. /\ phase' = phase /\ batch_start' = batch_start /\ batch_end' = batch_end /\ cur' = cur
      /\ num' = num /\ folder' = folder /\ result' = result /\ batch_size'[1] = BatchSize
  <2>1. batch_size \in [Provers -> Int]
    BY DEF TypeInv, TypeOK
  <2> QED
    BY <1>0, <1>1, <1>2, <1>7, <1>8, <2>1 DEF RecvParams
<1>10. CoordFrame
  BY <1>8, <1>9 DEF CoordFrame, Grows
<1>11. CoordAlone
  BY <1>0, <1>4, <1>8, <1>9, PhaseNumbers DEF CoordAlone, Before, HandedOut, Between, AllAnswered, Over
<1>12. Dialogue'
  BY <1>4, <1>5, <1>8, <1>9 DEF Dialogue, Waits, VerifierPC
<1>13. Files'
  BY <1>4, <1>8, <1>9, PhaseNumbers DEF SessionInv, Files
<1>14. ShareFiles(1)'
  BY <1>0, <1>4, <1>8, <1>9, NoFilesYet
<1> QED
  BY <1>8, <1>10, <1>11, <1>12, <1>13, <1>14, CoordCombine

LEMMA CoordInvoked ==
    ASSUME TypeInv, SessionInv, pc[1] = "p_idle", NEW i \in 1 .. Len(net[0][1]),
           FirstMatch(0, 1, Tags, i), net[0][1] # << TERM >>,
           net[0][1][i].tag # "TERMINATE" =>
               /\ net' = Taken(0, 1, i)
               /\ pc' = [pc EXCEPT ![1] = IF net[0][1][i].tag = "INVOKE_PROVER" THEN "p_phase" ELSE "p_idle"],
           UNCHANGED <<vVerifierVars, vProverVars, folder>>
    PROVE  SessionInv'
<1> USE DEF vVerifierVars, vProverVars
<1>0. 1 \in Ranks /\ 1 \in Provers /\ 0 \in Ranks /\ 1 \in Working
  BY RankFacts
<1>t. net \in Nets
  BY DEF TypeInv, TypeOK, Nets
<1>3. net[0][1] # << >>
  BY NoMatch
<1>4. /\ net[1][0] = << >>
      /\ \/ pc[0] = "v_wait1" /\ phase[1] = 0 /\ net[0][1] = << INVOKE, PARAM(COMMITMENT) >>
         \/ pc[0] = "v_plain" /\ phase[1] = COMMITMENT /\ net[0][1] = << INVOKE, PARAM(DEDUCE_QUERIES) >>
         \/ /\ pc[0] = "v_wait3" /\ phase[1] = COMMITMENT
            /\ net[0][1] = << INVOKE, PARAM(DEDUCE_QUERIES), INVOKE, PARAM(PCP) >>
         \/ pc[0] = "v_wait3" /\ phase[1] = DEDUCE_QUERIES /\ net[0][1] = << INVOKE, PARAM(PCP) >>
  BY <1>3, CoordWhere DEF SessionInv, CoordPlace
<1>5. /\ Head(net[0][1]) = INVOKE
      /\ \/ pc[0] = "v_wait1" /\ phase[1] = 0 /\ Tail(net[0][1]) = << PARAM(COMMITMENT) >>
         \/ pc[0] = "v_plain" /\ phase[1] = COMMITMENT /\ Tail(net[0][1]) = << PARAM(DEDUCE_QUERIES) >>
         \/ /\ pc[0] = "v_wait3" /\ phase[1] = COMMITMENT
            /\ Tail(net[0][1]) = << PARAM(DEDUCE_QUERIES), INVOKE, PARAM(PCP) >>
         \/ pc[0] = "v_wait3" /\ phase[1] = DEDUCE_QUERIES /\ Tail(net[0][1]) = << PARAM(PCP) >>
  <2>1. CASE pc[0] = "v_wait1" /\ phase[1] = 0 /\ net[0][1] = << INVOKE, PARAM(COMMITMENT) >>
    BY <2>1
  <2>2. CASE pc[0] = "v_plain" /\ phase[1] = COMMITMENT /\ net[0][1] = << INVOKE, PARAM(DEDUCE_QUERIES) >>
    BY <2>2
  <2>3. CASE /\ pc[0] = "v_wait3" /\ phase[1] = COMMITMENT
             /\ net[0][1] = << INVOKE, PARAM(DEDUCE_QUERIES), INVOKE, PARAM(PCP) >>
    BY <2>3
  <2>4. CASE pc[0] = "v_wait3" /\ phase[1] = DEDUCE_QUERIES /\ net[0][1] = << INVOKE, PARAM(PCP) >>
    BY <2>4
  <2> QED
    BY <1>4, <2>1, <2>2, <2>3, <2>4
<1>6. INVOKE.tag = "INVOKE_PROVER" /\ INVOKE.tag \in Tags
  BY MessageFacts DEF Tags
<1>7. net[0][1][i] = INVOKE
  BY <1>0, <1>t, <1>5, <1>6, TakesHead
<1>8. net' = Taken(0, 1, i) /\ pc' = [pc EXCEPT ![1] = "p_phase"]
  BY <1>6, <1>7
<1>9. /\ net'[0][1] = Tail(net[0][1])
      /\ net'[1][0] = net[1][0]
      /\ \A e \in Slaves : net'[1][e] = net[1][e] /\ net'[e][1] = net[e][1]
      /\ pc'[1] = "p_phase" /\ pc'[0] = pc[0] /\ \A r \in Ranks \ {1} : pc'[r] = pc[r]
      /\ Channels'
  BY <1>5, <1>6, <1>8, CoordTakes DEF SessionInv
<1>10. CoordFrame
  BY <1>9 DEF CoordFrame, Grows
<1>11. CoordAlone
  BY <1>4, <1>9, PhaseNumbers DEF CoordAlone, Before, HandedOut, Between, AllAnswered, Over
<1>12. Dialogue'
  <2>1. batch_size[1] = BatchSize
    BY DEF SessionInv, Dialogue
  <2> QED
    BY <1>4, <1>5, <1>9, <2>1 DEF Dialogue, Told, VerifierPC
<1>13. Files'
  BY <1>4, <1>9, PhaseNumbers DEF SessionInv, Files
<1>14. ShareFiles(1)'
  BY <1>0, <1>4, <1>9, PhaseNumbers DEF SessionInv, ShareFiles
<1> QED
  BY <1>9, <1>10, <1>11, <1>12, <1>13, <1>14, CoordCombine

LEMMA CoordRecvPhase ==
    ASSUME TypeInv, SessionInv, RecvPhase(1)
    PROVE  SessionInv'
<1> USE DEF Goto, vVerifierVars
<1>0. pc[1] = "p_phase" /\ 1 \in Ranks /\ 1 \in Provers /\ 0 \in Ranks /\ 1 \in Working
  BY RankFacts DEF RecvPhase
<1>t. net \in Nets /\ phase \in [Provers -> Int]
  BY DEF TypeInv, TypeOK, Nets
<1>a. PICK s \in Ranks : \E i \in 1 .. Len(net[s][1]) :
         /\ FirstMatch(s, 1, {"PARAMS"}, i) /\ net' = Taken(s, 1, i)
         /\ phase' = [phase EXCEPT ![1] = net[s][1][i].val]
         /\ pc' = [pc EXCEPT ![1] = IF net[s][1][i].val = DEDUCE_QUERIES
                                    THEN "p_deduce" ELSE "p_request"]
  BY DEF RecvPhase, Recv
<1>b. PICK i \in 1 .. Len(net[s][1]) :
         /\ FirstMatch(s, 1, {"PARAMS"}, i) /\ net' = Taken(s, 1, i)
         /\ phase' = [phase EXCEPT ![1] = net[s][1][i].val]
         /\ pc' = [pc EXCEPT ![1] = IF net[s][1][i].val = DEDUCE_QUERIES
                                    THEN "p_deduce" ELSE "p_request"]
  BY <1>a
<1>2. s = 0
  BY <1>0, <1>b, CoordHears
<1>1. /\ i \in 1 .. Len(net[0][1])
      /\ FirstMatch(0, 1, {"PARAMS"}, i) /\ net' = Taken(0, 1, i)
      /\ phase' = [phase EXCEPT ![1] = net[0][1][i].val]
      /\ pc' = [pc EXCEPT ![1] = IF net[0][1][i].val = DEDUCE_QUERIES
                                 THEN "p_deduce" ELSE "p_request"]
  BY <1>b, <1>2
<1>4. /\ net[1][0] = << >>
      /\ \/ pc[0] = "v_wait1" /\ phase[1] = 0 /\ net[0][1] = << PARAM(COMMITMENT) >>
         \/ pc[0] = "v_plain" /\ phase[1] = COMMITMENT /\ net[0][1] = << PARAM(DEDUCE_QUERIES) >>
         \/ /\ pc[0] = "v_wait3" /\ phase[1] = COMMITMENT
            /\ net[0][1] = << PARAM(DEDUCE_QUERIES), INVOKE, PARAM(PCP) >>
         \/ pc[0] = "v_wait3" /\ phase[1] = DEDUCE_QUERIES /\ net[0][1] = << PARAM(PCP) >>
  BY <1>0, CoordWhere DEF SessionInv, CoordPlace
<1>5. \/ /\ pc[0] = "v_wait1" /\ phase[1] = 0
         /\ Head(net[0][1]) = PARAM(COMMITMENT) /\ Tail(net[0][1]) = << >>
      \/ /\ pc[0] = "v_plain" /\ phase[1] = COMMITMENT
         /\ Head(net[0][1]) = PARAM(DEDUCE_QUERIES) /\ Tail(net[0][1]) = << >>
      \/ /\ pc[0] = "v_wait3" /\ phase[1] = COMMITMENT
         /\ Head(net[0][1]) = PARAM(DEDUCE_QUERIES) /\ Tail(net[0][1]) = << INVOKE, PARAM(PCP) >>
      \/ /\ pc[0] = "v_wait3" /\ phase[1] = DEDUCE_QUERIES
         /\ Head(net[0][1]) = PARAM(PCP) /\ Tail(net[0][1]) = << >>
  <2>1. CASE pc[0] = "v_wait1" /\ phase[1] = 0 /\ net[0][1] = << PARAM(COMMITMENT) >>
    BY <2>1
  <2>2. CASE pc[0] = "v_plain" /\ phase[1] = COMMITMENT /\ net[0][1] = << PARAM(DEDUCE_QUERIES) >>
    BY <2>2
  <2>3. CASE /\ pc[0] = "v_wait3" /\ phase[1] = COMMITMENT
             /\ net[0][1] = << PARAM(DEDUCE_QUERIES), INVOKE, PARAM(PCP) >>
    BY <2>3
  <2>4. CASE pc[0] = "v_wait3" /\ phase[1] = DEDUCE_QUERIES /\ net[0][1] = << PARAM(PCP) >>
    BY <2>4
  <2> QED
    BY <1>4, <2>1, <2>2, <2>3, <2>4
<1>6. Head(net[0][1]).tag \in {"PARAMS"}
  BY <1>5, MessageFacts
<1>7. net[0][1][i] = Head(net[0][1])
  BY <1>0, <1>t, <1>1, <1>6, TakesHead
<1>8. \/ /\ pc[0] = "v_wait1" /\ phase[1] = 0
         /\ net[0][1][i].val = COMMITMENT /\ Tail(net[0][1]) = << >>
      \/ /\ pc[0] = "v_plain" /\ phase[1] = COMMITMENT
         /\ net[0][1][i].val = DEDUCE_QUERIES /\ Tail(net[0][1]) = << >>
      \/ /\ pc[0] = "v_wait3" /\ phase[1] = COMMITMENT
         /\ net[0][1][i].val = DEDUCE_QUERIES /\ Tail(net[0][1]) = << INVOKE, PARAM(PCP) >>
      \/ /\ pc[0] = "v_wait3" /\ phase[1] = DEDUCE_QUERIES
         /\ net[0][1][i].val = PCP /\ Tail(net[0][1]) = << >>
  <2>1. \A v : PARAM(v).val = v
    BY MessageFacts
  <2> QED
    BY <1>5, <1>7, <2>1
<1>l. PICK l : l = IF net[0][1][i].val = DEDUCE_QUERIES THEN "p_deduce" ELSE "p_request"
  OBVIOUS
<1>9. /\ net'[0][1] = Tail(net[0][1])
      /\ net'[1][0] = net[1][0]
      /\ \A e \in Slaves : net'[1][e] = net[1][e] /\ net'[e][1] = net[e][1]
      /\ pc'[1] = l /\ pc'[0] = pc[0] /\ \A r \in Ranks \ {1} : pc'[r] = pc[r]
      /\ Channels'
  <2>1. pc' = [pc EXCEPT ![1] = l]
    BY <1>1, <1>l
  <2> QED
    BY <1>1, <1>6, <2>1, CoordTakes DEF SessionInv
<1>10. /\ batch_size' = batch_size /\ batch_start' = batch_start /\ batch_end' = batch_end
       /\ cur' = cur /\ num' = num /\ folder' = folder /\ result' = result
       /\ phase'[1] = net[0][1][i].val /\ \A r \in Provers \ {1} : phase'[r] = phase[r]
  BY <1>0, <1>t, <1>1 DEF RecvPhase
<1>11. \/ /\ pc[0] = "v_wait1" /\ phase[1] = 0
          /\ phase'[1] = COMMITMENT /\ pc'[1] = "p_request" /\ net'[0][1] = << >>
       \/ /\ pc[0] = "v_plain" /\ phase[1] = COMMITMENT
          /\ phase'[1] = DEDUCE_QUERIES /\ pc'[1] = "p_deduce" /\ net'[0][1] = << >>
       \/ /\ pc[0] = "v_wait3" /\ phase[1] = COMMITMENT
          /\ phase'[1] = DEDUCE_QUERIES /\ pc'[1] = "p_deduce" /\ net'[0][1] = << INVOKE, PARAM(PCP) >>
       \/ /\ pc[0] = "v_wait3" /\ phase[1] = DEDUCE_QUERIES
          /\ phase'[1] = PCP /\ pc'[1] = "p_request" /\ net'[0][1] = << >>
  BY <1>8, <1>l, <1>9, <1>10, PhaseNumbers
<1>12. CoordFrame
  BY <1>9, <1>10 DEF CoordFrame, Grows
<1>13. CoordAlone
  BY <1>0, <1>9, <1>10, <1>11, PhaseNumbers DEF CoordAlone, Before, HandedOut, Between, AllAnswered, Over
<1>14. Dialogue'
  <2>1. batch_size'[1] = BatchSize /\ net'[1][0] = << >>
    BY <1>0, <1>4, <1>9, <1>10 DEF SessionInv, Dialogue
  <2> QED
    BY <1>9, <1>11, <2>1 DEF Dialogue, Engaged, VerifierPC
<1>15. Files'
  BY <1>0, <1>9, <1>10, <1>11, PhaseNumbers DEF SessionInv, Files
<1>16. ShareFiles(1)'
  <2>1. CASE phase'[1] = COMMITMENT
    BY <1>0, <1>11, <2>1, PhaseNumbers, NoFilesYet
  <2>2. CASE phase'[1] # COMMITMENT
    <3>1. phase[1] \in {COMMITMENT, DEDUCE_QUERIES}
      BY <1>11, <2>2
    <3>2. /\ New(folder.output, ShareStart(1) .. ShareEnd(1))
          /\ New(folder.assignment, ShareStart(1) .. ShareEnd(1))
          /\ New(folder.commitment, ShareStart(1) .. ShareEnd(1))
      BY <1>0, <3>1 DEF SessionInv, ShareFiles
    <3> QED
      BY <1>10, <1>11, <2>2, <3>2, PhaseNumbers DEF ShareFiles
  <2> QED
    BY <2>1, <2>2
<1>17. pc'[1] \in {"p_request", "p_deduce"}
  BY <1>11
<1> QED
  BY <1>9, <1>12, <1>13, <1>14, <1>15, <1>16, <1>17, CoordCombine

LEMMA CoordDeduce ==
    ASSUME TypeInv, SessionInv, DeduceQueries(1)
    PROVE  SessionInv'
<1> USE DEF Goto, vVerifierVars, vProverVars
<1>0. pc[1] = "p_deduce" /\ 1 \in Ranks /\ 1 \in Provers /\ 0 \in Ranks /\ 1 \in Working
  BY RankFacts DEF DeduceQueries
<1>t. folder \in Folder /\ pc \in [Ranks -> VerifierPC \cup ProverPC]
  BY DEF TypeInv, TypeOK
<1>1. /\ phase[1] = DEDUCE_QUERIES /\ net[1][0] = << >>
      /\ \/ pc[0] = "v_plain" /\ net[0][1] = << >>
         \/ pc[0] = "v_wait3" /\ net[0][1] = << INVOKE, PARAM(PCP) >>
  BY <1>0, CoordWhere DEF SessionInv, CoordPlace
<1>2. folder.seed = "new"
  BY <1>1 DEF SessionInv, Files, Revealed
<1>3. From({folder.seed}) = "new"
  BY <1>2 DEF From
<1>4. /\ folder' = [folder EXCEPT !.queries = "new"] /\ net' = net
      /\ phase' = phase /\ batch_size' = batch_size /\ batch_start' = batch_start
      /\ batch_end' = batch_end /\ cur' = cur /\ num' = num /\ result' = result
      /\ pc'[1] = "p_idle" /\ \A r \in Ranks \ {1} : pc'[r] = pc[r]
      /\ pc'[0] = pc[0]
  BY <1>0, <1>t, <1>3 DEF DeduceQueries
<1>5. /\ folder'.output = folder.output /\ folder'.assignment = folder.assignment
      /\ folder'.commitment = folder.commitment /\ folder'.answers = folder.answers
      /\ folder'.input = folder.input /\ folder'.consistency = folder.consistency
      /\ folder'.commitment_query = folder.commitment_query /\ folder'.seed = folder.seed
      /\ folder'.queries = "new"
  BY <1>t, <1>4 DEF Folder
<1>6. CoordFrame
  BY <1>4, <1>5 DEF CoordFrame, Grows
<1>7. CoordAlone
  BY <1>0, <1>1, <1>4, PhaseNumbers DEF CoordAlone, Before, HandedOut, Between, AllAnswered, Over
<1>8. Dialogue'
  <2>1. batch_size'[1] = BatchSize
    BY <1>0, <1>4 DEF SessionInv, Dialogue
  <2> QED
    BY <1>1, <1>4, <2>1 DEF Dialogue, Waits, VerifierPC
<1>9. Files'
  BY <1>4, <1>5 DEF SessionInv, Files
<1>10. ShareFiles(1)'
  BY <1>0, <1>1, <1>4, <1>5, PhaseNumbers DEF SessionInv, ShareFiles
<1>11. Channels'
  <2>1. \A r \in Slaves : pc[r] = "done" => pc'[r] = "done"
    BY <1>4, RankFacts
  <2> QED
    BY <1>4, <2>1, ChannelsStep DEF SessionInv
<1> QED
  BY <1>4, <1>6, <1>7, <1>8, <1>9, <1>10, <1>11, CoordCombine

\* A step of the coordinator that sends and receives nothing.
LEMMA CoordLocal ==
    ASSUME SessionInv, net' = net, \A r \in Ranks \ {1} : pc'[r] = pc[r]
    PROVE  Channels' /\ pc'[0] = pc[0]
<1>1. \A r \in Slaves : pc[r] = "done" => pc'[r] = "done"
  BY RankFacts
<1> QED
  BY <1>1, ChannelsStep, RankFacts DEF SessionInv

LEMMA CoordLoops ==
    ASSUME TypeInv, SessionInv, Compute(1) \/ Commit(1) \/ Answer(1)
    PROVE  SessionInv'
<1>0. 1 \in Ranks /\ 1 \in Provers /\ 0 \in Ranks /\ 1 \in Working
  BY RankFacts
<1>1. /\ \A q \in Ranks \ {1} : pc'[q] = pc[q]
      /\ \A q \in Provers \ {1} : cur'[q] = cur[q]
      /\ net' = net /\ num' = num /\ phase' = phase /\ batch_size' = batch_size
      /\ batch_start' = batch_start /\ batch_end' = batch_end
      /\ beta' = beta /\ result' = result
      /\ Compute(1) => pc[1] = "p_compute" /\ pc'[1] \in {"p_compute", "p_commit"}
      /\ Commit(1) => pc[1] = "p_commit" /\ pc'[1] \in {"p_commit", "p_finish"}
      /\ Answer(1) => pc[1] = "p_answer" /\ pc'[1] \in {"p_answer", "p_finish"}
  BY <1>0, LoopFrame
<1>2. Channels' /\ pc'[0] = pc[0]
  BY <1>1, CoordLocal
<1>i. Files /\ ShareFiles(1) /\ Dialogue /\ CoordPlace
  BY <1>0, CoordWhere DEF SessionInv
<1>3. \/ Engaged(COMMITMENT) /\ pc[0] = "v_wait1" /\ (Compute(1) \/ Commit(1))
      \/ Engaged(PCP) /\ pc[0] = "v_wait3" /\ Answer(1)
  <2>1. \/ pc[0] = "v_wait1" /\ Engaged(COMMITMENT)
        \/ pc[0] = "v_wait3" /\ Engaged(PCP)
    BY <1>1, <1>i DEF CoordPlace
  <2> QED
    BY <1>1, <2>1, PhaseNumbers DEF Engaged
<1>4. Grows /\ KeepsOthers /\ ShareFiles(1)'
  <2>1. CASE Engaged(COMMITMENT) /\ pc[0] = "v_wait1" /\ (Compute(1) \/ Commit(1))
    <3>1. phase[1] = COMMITMENT
      BY <2>1 DEF Engaged
    <3> QED
      BY <1>0, <1>i, <2>1, <3>1, ComputeFiles, CommitFiles
  <2>2. CASE Engaged(PCP) /\ pc[0] = "v_wait3" /\ Answer(1)
    <3>1. phase[1] = PCP
      BY <2>2 DEF Engaged
    <3> QED
      BY <1>0, <1>i, <2>2, <3>1, AnswerFiles
  <2> QED
    BY <1>3, <2>1, <2>2
<1>5. CoordFrame
  BY <1>1, <1>4 DEF CoordFrame
<1>6. /\ pc[1] \in {"p_compute", "p_commit", "p_answer"}
      /\ pc'[1] \in {"p_compute", "p_commit", "p_answer", "p_finish"}
  BY <1>1
<1>7. CoordAlone
  <2>1. /\ Before' => Before
        /\ \A ph \in {COMMITMENT, PCP} : HandedOut(ph)' => HandedOut(ph)
        /\ Between' => Between
        /\ AllAnswered' => AllAnswered
        /\ Over' => Over
    BY <1>1, <1>6 DEF Before, HandedOut, Between, AllAnswered, Over
  <2> QED
    BY <1>1, <2>1 DEF CoordAlone
<1>8. Dialogue'
  <2>1. batch_size'[1] = BatchSize
    BY <1>1, <1>6 DEF SessionInv, Dialogue
  <2>2. \/ Engaged(COMMITMENT)' /\ pc'[0] = "v_wait1"
        \/ Engaged(PCP)' /\ pc'[0] = "v_wait3"
    BY <1>1, <1>2, <1>3, PhaseNumbers DEF Engaged
  <2> QED
    BY <2>1, <2>2 DEF Dialogue, VerifierPC
<1>9. Files'
  <2>1. pc[1] # "p_deduce" /\ pc'[1] # "p_deduce"
    BY <1>6
  <2> QED
    BY <1>1, <1>2, <1>4, <1>i, <2>1 DEF Files, KeepsOthers
<1> QED
  BY <1>2, <1>4, <1>5, <1>6, <1>7, <1>8, <1>9, CoordCombine

LEMMA CoordPolls ==
    ASSUME TypeInv, SessionInv, PollDoneFiles(1)
    PROVE  SessionInv'
<1> USE DEF Goto, vVerifierVars, vProverVars
<1>0. pc[1] = "p_done_files" /\ 1 \in Ranks /\ 1 \in Working
  BY RankFacts DEF PollDoneFiles
<1>t. pc \in [Ranks -> VerifierPC \cup ProverPC]
  BY DEF TypeInv, TypeOK
<1>1. /\ net' = net /\ folder' = folder
      /\ phase' = phase /\ batch_size' = batch_size /\ batch_start' = batch_start
      /\ batch_end' = batch_end /\ cur' = cur /\ num' = num /\ result' = result
      /\ pc'[1] = "p_report" /\ \A r \in Ranks \ {1} : pc'[r] = pc[r]
  BY <1>0, <1>t DEF PollDoneFiles
<1>2. Channels' /\ pc'[0] = pc[0]
  BY <1>1, CoordLocal
<1>3. \/ pc[0] = "v_wait1" /\ Engaged(COMMITMENT)
      \/ pc[0] = "v_wait3" /\ Engaged(PCP)
  BY <1>0, CoordWhere DEF SessionInv, CoordPlace
<1>4. CoordFrame
  BY <1>1 DEF CoordFrame, Grows
<1>5. CoordAlone
  BY <1>0, <1>1 DEF CoordAlone, Before, HandedOut, Between, AllAnswered, Over
<1>6. Dialogue'
  <2>1. batch_size'[1] = BatchSize
    BY <1>0, <1>1 DEF SessionInv, Dialogue
  <2>2. \/ Engaged(COMMITMENT)' /\ pc'[0] = "v_wait1"
        \/ Engaged(PCP)' /\ pc'[0] = "v_wait3"
    BY <1>1, <1>2, <1>3 DEF Engaged
  <2> QED
    BY <2>1, <2>2 DEF Dialogue, VerifierPC
<1>7. Files'
  BY <1>0, <1>1, <1>2 DEF SessionInv, Files
<1>8. ShareFiles(1)'
  BY <1>0, <1>1 DEF SessionInv, ShareFiles
<1> QED
  BY <1>1, <1>2, <1>4, <1>5, <1>6, <1>7, <1>8, CoordCombine

LEMMA CoordReports ==
    ASSUME TypeInv, SessionInv, Report(1)
    PROVE  SessionInv'
<1> USE DEF Goto, vVerifierVars, vProverVars
<1>0. pc[1] = "p_report" /\ 1 \in Ranks /\ 0 \in Ranks /\ 1 \in Working
  BY RankFacts DEF Report
<1>t. pc \in [Ranks -> VerifierPC \cup ProverPC] /\ net \in Nets
  BY DEF TypeInv, TypeOK, Nets
<1>1. /\ folder' = folder
      /\ phase' = phase /\ batch_size' = batch_size /\ batch_start' = batch_start
      /\ batch_end' = batch_end /\ cur' = cur /\ num' = num /\ result' = result
      /\ pc'[1] = "p_idle" /\ pc'[0] = pc[0] /\ \A r \in Ranks \ {1} : pc'[r] = pc[r]
  BY <1>0, <1>t DEF Report
<1>2. \A a, b \in Ranks : net'[a][b] = IF a = 1 /\ b = 0 THEN net[1][0] \o << FINISH >> ELSE net[a][b]
  BY <1>0, <1>t, PutAt DEF Report, FINISH
<1>3. \/ pc[0] = "v_wait1" /\ Engaged(COMMITMENT)
      \/ pc[0] = "v_wait3" /\ Engaged(PCP)
  BY <1>0, CoordWhere DEF SessionInv, CoordPlace
<1>4. net[1][0] = << >> /\ net[0][1] = << >> /\ phase[1] \in {COMMITMENT, PCP}
  BY <1>3 DEF Engaged
<1>5. net'[1][0] = << FINISH >> /\ net'[0][1] = << >>
  <2>1. << >> \o << FINISH >> = << FINISH >>
    OBVIOUS
  <2>2. ASSUME NEW a \in Ranks, NEW b \in Ranks
        PROVE  /\ a = 1 /\ b = 0 => net'[a][b] = net[1][0] \o << FINISH >>
               /\ a # 1 => net'[a][b] = net[a][b]
    BY <1>2
  <2> QED
    BY <1>0, <1>4, <2>1, <2>2
<1>6. \A e \in Slaves : net'[1][e] = net[1][e] /\ net'[e][1] = net[e][1]
  BY <1>0, <1>2, RankFacts
<1>7. Channels'
  <2>1. \A r \in Slaves : pc[r] = "done" => pc'[r] = "done"
    BY <1>1, RankFacts
  <2> QED
    BY <1>2, <2>1, ChannelsStep DEF SessionInv
<1>8. CoordFrame
  BY <1>1 DEF CoordFrame, Grows
<1>9. CoordAlone
  BY <1>0, <1>1, <1>4, <1>6, PhaseNumbers DEF CoordAlone, Before, HandedOut, Between, AllAnswered, Over
<1>10. Dialogue'
  <2>1. batch_size'[1] = BatchSize
    BY <1>0, <1>1 DEF SessionInv, Dialogue
  <2>2. \/ Waits(COMMITMENT, << >>, << FINISH >>)' /\ pc'[0] = "v_wait1"
        \/ Waits(PCP, << >>, << FINISH >>)' /\ pc'[0] = "v_wait3"
    BY <1>1, <1>3, <1>5 DEF Engaged, Waits
  <2> QED
    BY <2>1, <2>2 DEF Dialogue, VerifierPC
<1>11. Files'
  BY <1>0, <1>1 DEF SessionInv, Files
<1>12. ShareFiles(1)'
  BY <1>0, <1>1 DEF SessionInv, ShareFiles
<1> QED
  BY <1>1, <1>7, <1>8, <1>9, <1>10, <1>11, <1>12, CoordCombine

-----------------------------------------------------------------------------
(* The end of a phase: everyone has been counted. *)

LEMMA SlaveCount ==
    /\ IsFiniteSet(Slaves) /\ Cardinality(Slaves) = NumSlaves - 1
    /\ \A C \in SUBSET Slaves : /\ IsFiniteSet(C) /\ Cardinality(C) \in Nat
                                /\ 2 + Cardinality(C) > NumSlaves => C = Slaves
<1>1. NumSlaves \in Int /\ NumSlaves >= 1
  BY Ranked
<1>2. IsFiniteSet(Slaves) /\ Cardinality(Slaves) = NumSlaves - 1
  <2>1. /\ IsFiniteSet(2 .. NumSlaves)
        /\ Cardinality(2 .. NumSlaves) = IF 2 > NumSlaves THEN 0 ELSE NumSlaves - 2 + 1
    BY <1>1, FS_Interval
  <2> QED
    BY <1>1, <2>1 DEF Slaves
<1>3. ASSUME NEW C \in SUBSET Slaves
      PROVE  /\ IsFiniteSet(C) /\ Cardinality(C) \in Nat
             /\ 2 + Cardinality(C) > NumSlaves => C = Slaves
  <2>1. /\ IsFiniteSet(C) /\ Cardinality(C) <= Cardinality(Slaves)
        /\ Cardinality(Slaves) = Cardinality(C) => Slaves = C
    BY <1>2, FS_Subset
  <2>2. Cardinality(C) \in Nat
    BY <2>1, FS_CardinalityType
  <2>3. 2 + Cardinality(C) > NumSlaves => Cardinality(C) = Cardinality(Slaves)
    BY <1>1, <1>2, <2>1, <2>2
  <2> QED
    BY <2>1, <2>2, <2>3
<1> QED
  BY <1>2, <1>3

\* The parts of the invariant that a step of the coordinator can disturb.
LEMMA CoordAll ==
    ASSUME SessionInv, CoordFrame, Dialogue', Files', ShareFiles(1)', Channels', Count',
           \A e \in Slaves : SlaveLine(e)'
    PROVE  SessionInv'
<1>1. ASSUME NEW r \in Working PROVE ShareFiles(r)'
  <2>1. r = 1 \/ r \in Slaves
    BY RankFacts
  <2> QED
    BY <2>1, CoordFrameFacts
<1> QED
  BY <1>1 DEF SessionInv

LEMMA EpochEnds ==
    ASSUME SessionInv, CoordFrame, NEW ph \in {COMMITMENT, PCP}, HandedOut(ph),
           pc'[1] = "p_done_files", phase'[1] = ph,
           \A e \in Slaves : Reported(e, ph) /\ net'[1][e] = net[1][e] /\ net'[e][1] = << >>,
           Dialogue', Files', ShareFiles(1)', Channels'
    PROVE  SessionInv'
<1>1. Count'
  BY DEF Count, HandedOut
<1>2. ASSUME NEW e \in Slaves PROVE SlaveLine(e)'
  <2>1. SlaveLine(e) /\ Dialogue /\ Reported(e, ph)
    BY DEF SessionInv
  <2>2. Ranged(e) /\ net[1][e] = << >>
    <3>1. CASE ph = COMMITMENT
      BY <2>1, <3>1, LineByEpoch, PhaseNumbers DEF FirstPhase, Reported
    <3>2. CASE ph = PCP
      BY <2>1, <3>2, LineByEpoch, PhaseNumbers DEF LastPhase, Reported
    <3> QED
      BY <3>1, <3>2
  <2>3. /\ pc'[e] = pc[e] /\ phase'[e] = phase[e]
        /\ batch_start'[e] = batch_start[e] /\ batch_end'[e] = batch_end[e]
    BY CoordFrameFacts
  <2>4. Reported(e, ph)' /\ Ranged(e)' /\ net'[1][e] = << >> /\ net'[e][1] = << >>
    BY <2>1, <2>2, <2>3 DEF Reported, Ranged
  <2>5. ~Before' /\ ~HandedOut(COMMITMENT)' /\ ~HandedOut(PCP)' /\ ~Over'
    BY PhaseNumbers DEF Before, HandedOut, Over
  <2>6. /\ ph = COMMITMENT => ~AllAnswered'
        /\ ph = PCP => ~Between'
    BY PhaseNumbers DEF AllAnswered, Between
  <2> QED
    BY <2>4, <2>5, <2>6 DEF SlaveLine
<1> QED
  BY <1>1, <1>2, CoordAll

LEMMA CoordFinishes ==
    ASSUME TypeInv, SessionInv, CoordFinished(1)
    PROVE  SessionInv'
<1> USE DEF Goto, vVerifierVars, vProverVars
<1>0. pc[1] = "p_finish" /\ 1 \in Ranks /\ 1 \in Working
  BY RankFacts DEF CoordFinished
<1>t. pc \in [Ranks -> VerifierPC \cup ProverPC] /\ num \in Int
  BY DEF TypeInv, TypeOK
<1>1. /\ net' = net /\ folder' = folder
      /\ phase' = phase /\ batch_size' = batch_size /\ batch_start' = batch_start
      /\ batch_end' = batch_end /\ cur' = cur /\ num' = num /\ result' = result
      /\ pc'[1] = (IF num <= NumSlaves THEN "p_wait" ELSE "p_done_files")
      /\ \A r \in Ranks \ {1} : pc'[r] = pc[r]
  BY <1>0, <1>t DEF CoordFinished
<1>2. Channels' /\ pc'[0] = pc[0]
  BY <1>1, CoordLocal
<1>a. \/ pc[0] = "v_wait1" /\ Engaged(COMMITMENT)
      \/ pc[0] = "v_wait3" /\ Engaged(PCP)
  BY <1>0, CoordWhere DEF SessionInv, CoordPlace
<1>3. PICK ph \in {COMMITMENT, PCP} : HandedOut(ph)
  BY <1>0, <1>a DEF Engaged, HandedOut
<1>4. CoordFrame
  BY <1>1 DEF CoordFrame, Grows
<1>6. Dialogue'
  <2>1. batch_size'[1] = BatchSize
    BY <1>0, <1>1 DEF SessionInv, Dialogue
  <2>2. \/ Engaged(COMMITMENT)' /\ pc'[0] = "v_wait1"
        \/ Engaged(PCP)' /\ pc'[0] = "v_wait3"
    BY <1>1, <1>2, <1>a DEF Engaged
  <2> QED
    BY <2>1, <2>2 DEF Dialogue, VerifierPC
<1>7. Files'
  BY <1>0, <1>1, <1>2 DEF SessionInv, Files
<1>8. ShareFiles(1)'
  BY <1>0, <1>1 DEF SessionInv, ShareFiles
<1>9. CASE num <= NumSlaves
  <2>1. pc'[1] = "p_wait"
    BY <1>1, <1>9
  <2>2. CoordAlone
    BY <1>0, <1>1, <2>1 DEF CoordAlone, Before, HandedOut, Between, AllAnswered, Over
  <2> QED
    BY <1>2, <1>4, <1>6, <1>7, <1>8, <1>9, <2>1, <2>2, CoordCombine
<1>10. CASE ~(num <= NumSlaves)
  <2>1. pc'[1] = "p_done_files" /\ phase'[1] = ph
    BY <1>1, <1>3, <1>10 DEF HandedOut
  <2>2. Counted(ph) \in SUBSET Slaves /\ num = 2 + Cardinality(Counted(ph))
    BY <1>3 DEF SessionInv, Count, Counted
  <2>3. num > NumSlaves
    BY <1>t, <1>10, Ranked
  <2>4. Counted(ph) = Slaves
    BY <2>2, <2>3, SlaveCount
  <2>5. \A e \in Slaves : Reported(e, ph) /\ net'[1][e] = net[1][e] /\ net'[e][1] = << >>
    BY <1>1, <2>4 DEF Counted
  <2> QED
    BY <1>2, <1>3, <1>4, <1>6, <1>7, <1>8, <2>1, <2>5, EpochEnds
<1> QED
  BY <1>9, <1>10

\* While it waits the coordinator hears only from slaves that have finished the
\* phase, and from each of them once.
LEMMA CoordHearsFinished ==
    ASSUME TypeInv, SessionInv, pc[1] = "p_wait", NEW s \in Ranks, net[s][1] # << >>
    PROVE  /\ s \in Slaves /\ net[s][1] = << FINISH >>
           /\ \E ph \in {COMMITMENT, PCP} : HandedOut(ph) /\ Reported(s, ph)
<1>1. \/ pc[0] = "v_wait1" /\ Engaged(COMMITMENT)
      \/ pc[0] = "v_wait3" /\ Engaged(PCP)
  BY CoordWhere DEF SessionInv, CoordPlace
<1>2. net[0][1] = << >>
  BY <1>1 DEF Engaged
<1>3. s \in Slaves
  BY <1>2, RankFacts DEF SessionInv, Channels
<1>i. SlaveLine(s) /\ Dialogue
  BY <1>3 DEF SessionInv
<1>4. CASE Engaged(COMMITMENT)
  <2>1. HandedOut(COMMITMENT)
    BY <1>4 DEF Engaged, HandedOut
  <2> QED
    BY <1>3, <1>i, <2>1, LineByEpoch
<1>5. CASE Engaged(PCP)
  <2>1. HandedOut(PCP)
    BY <1>5 DEF Engaged, HandedOut
  <2> QED
    BY <1>3, <1>i, <2>1, LineByEpoch
<1> QED
  BY <1>1, <1>4, <1>5

LEMMA CoordCounts ==
    ASSUME TypeInv, SessionInv, CountFinished(1)
    PROVE  SessionInv'
<1> USE DEF Goto, vVerifierVars
<1>0. pc[1] = "p_wait" /\ 1 \in Ranks /\ 0 \in Ranks /\ 1 \in Working
  BY RankFacts DEF CountFinished
<1>t. pc \in [Ranks -> VerifierPC \cup ProverPC] /\ num \in Int /\ net \in Nets
  BY DEF TypeInv, TypeOK, Nets
<1>a. PICK s \in Ranks : \E i \in 1 .. Len(net[s][1]) :
         /\ FirstMatch(s, 1, Tags, i) /\ net' = Taken(s, 1, i)
         /\ num' = IF net[s][1][i].tag = "PROVER_FINISHED" THEN num + 1 ELSE num
         /\ pc' = [pc EXCEPT ![1] =
                     IF (IF net[s][1][i].tag = "PROVER_FINISHED" THEN num + 1 ELSE num) <= NumSlaves
                     THEN "p_wait" ELSE "p_done_files"]
  BY DEF CountFinished, Recv
<1>b. PICK i \in 1 .. Len(net[s][1]) :
         /\ FirstMatch(s, 1, Tags, i) /\ net' = Taken(s, 1, i)
         /\ num' = IF net[s][1][i].tag = "PROVER_FINISHED" THEN num + 1 ELSE num
         /\ pc' = [pc EXCEPT ![1] =
                     IF (IF net[s][1][i].tag = "PROVER_FINISHED" THEN num + 1 ELSE num) <= NumSlaves
                     THEN "p_wait" ELSE "p_done_files"]
  BY <1>a
<1>1. s \in Slaves /\ s # 0 /\ s # 1 /\ net[s][1] = << FINISH >>
  BY <1>0, <1>b, NoMatch, CoordHearsFinished, RankFacts
<1>2. PICK ph \in {COMMITMENT, PCP} : HandedOut(ph) /\ Reported(s, ph)
  BY <1>0, <1>b, NoMatch, CoordHearsFinished
<1>3. Head(net[s][1]) = FINISH /\ Tail(net[s][1]) = << >>
  BY <1>1
<1>4. FINISH.tag = "PROVER_FINISHED" /\ FINISH.tag \in Tags
  BY MessageFacts DEF Tags
<1>5. net[s][1][i] = FINISH /\ net' = [net EXCEPT ![s][1] = << >>]
  <2>1. Head(net[s][1]).tag \in Tags
    BY <1>3, <1>4
  <2>2. /\ net[s][1][i] = Head(net[s][1])
        /\ Taken(s, 1, i) = [net EXCEPT ![s][1] = Tail(net[s][1])]
    BY <1>0, <1>t, <1>b, <2>1, TakesHead
  <2> QED
    BY <1>b, <1>3, <2>2
<1>6. \A a, b \in Ranks : net'[a][b] = IF a = s /\ b = 1 THEN << >> ELSE net[a][b]
  BY <1>0, <1>t, <1>5, ChannelAt
<1>7. /\ num' = num + 1
      /\ pc'[1] = (IF num + 1 <= NumSlaves THEN "p_wait" ELSE "p_done_files")
      /\ \A r \in Ranks \ {1} : pc'[r] = pc[r]
  BY <1>0, <1>t, <1>b, <1>4, <1>5
<1>8. /\ phase' = phase /\ batch_size' = batch_size /\ batch_start' = batch_start
      /\ batch_end' = batch_end /\ cur' = cur /\ folder' = folder /\ result' = result
  BY DEF CountFinished
<1>9. /\ net'[0][1] = net[0][1] /\ net'[1][0] = net[1][0]
      /\ net'[s][1] = << >>
      /\ \A e \in Slaves : net'[1][e] = net[1][e] /\ (e # s => net'[e][1] = net[e][1])
  BY <1>0, <1>1, <1>6, RankFacts
<1>10. Channels'
  <2>1. \A r \in Slaves : pc[r] = "done" => pc'[r] = "done"
    BY <1>7, RankFacts
  <2> QED
    BY <1>6, <2>1, ChannelsStep DEF SessionInv
<1>11. CoordFrame
  BY <1>7, <1>8 DEF CoordFrame, Grows
<1>12. pc'[0] = pc[0]
  BY <1>0, <1>7
<1>13. Dialogue'
  <2>1. batch_size'[1] = BatchSize
    BY <1>0, <1>8 DEF SessionInv, Dialogue
  <2>a. \/ pc[0] = "v_wait1" /\ Engaged(COMMITMENT)
        \/ pc[0] = "v_wait3" /\ Engaged(PCP)
    BY <1>0, CoordWhere DEF SessionInv, CoordPlace
  <2>2. \/ Engaged(COMMITMENT)' /\ pc'[0] = "v_wait1"
        \/ Engaged(PCP)' /\ pc'[0] = "v_wait3"
    BY <1>7, <1>8, <1>9, <1>12, <2>a DEF Engaged
  <2> QED
    BY <2>1, <2>2 DEF Dialogue, VerifierPC
<1>14. Files'
  BY <1>0, <1>7, <1>8, <1>12 DEF SessionInv, Files
<1>15. ShareFiles(1)'
  BY <1>0, <1>7, <1>8 DEF SessionInv, ShareFiles
<1>16. PICK C : C = Counted(ph)
  OBVIOUS
<1>17. C \in SUBSET Slaves /\ s \notin C /\ num = 2 + Cardinality(C)
  <2>1. num = 2 + Cardinality(Counted(ph))
    BY <1>2 DEF SessionInv, Count
  <2>2. Counted(ph) \in SUBSET Slaves
    BY DEF Counted
  <2>3. s \notin Counted(ph)
    <3>1. << FINISH >> # << >>
      OBVIOUS
    <3> QED
      BY <1>1, <3>1 DEF Counted
  <2> QED
    BY <1>16, <2>1, <2>2, <2>3
<1>18. /\ C \cup {s} \in SUBSET Slaves
       /\ Cardinality(C \cup {s}) = Cardinality(C) + 1 /\ Cardinality(C) \in Nat
  <2>1. IsFiniteSet(C) /\ Cardinality(C) \in Nat
    BY <1>17, SlaveCount
  <2> QED
    BY <1>1, <1>17, <2>1, FS_AddElement
<1>19. num' = 2 + Cardinality(C \cup {s})
  BY <1>7, <1>17, <1>18
<1>20. \A e \in Slaves : pc'[e] = pc[e] /\ phase'[e] = phase[e]
  BY <1>11, CoordFrameFacts
<1>21. ASSUME NEW e \in Slaves
       PROVE  (Reported(e, ph)' /\ net'[e][1] = << >>) <=> e \in C \cup {s}
  <2>1. CASE e = s
    BY <1>2, <1>9, <1>20, <2>1 DEF Reported
  <2>2. CASE e # s
    BY <1>9, <1>16, <1>20, <2>2 DEF Reported, Counted
  <2> QED
    BY <2>1, <2>2
<1>22. CASE num + 1 <= NumSlaves
  <2>1. pc'[1] = "p_wait" /\ pc'[1] = pc[1] /\ phase'[1] = phase[1]
    BY <1>0, <1>7, <1>8, <1>22
  <2>2. Count'
    <3> SUFFICES ASSUME NEW qh \in {COMMITMENT, PCP}, HandedOut(qh)'
                 PROVE  num' = 2 + Cardinality(Counted(qh)') /\ num' <= NumSlaves
      BY <2>1 DEF Count
    <3>1. qh = ph
      BY <1>2, <2>1 DEF HandedOut
    <3>2. Counted(ph)' = C \cup {s}
      BY <1>18, <1>21 DEF Counted
    <3> QED
      BY <1>7, <1>19, <1>22, <3>1, <3>2
  <2>3. ASSUME NEW e \in Slaves PROVE SlaveLine(e)'
    <3>1. SlaveLine(e) /\ Dialogue
      BY DEF SessionInv
    <3>2. CASE e # s
      BY <1>8, <1>9, <1>20, <2>1, <3>1, <3>2, SlaveLineKept
    <3>3. CASE e = s
      <4>1. Ranged(s) /\ net[1][s] = << >>
        <5>1. CASE ph = COMMITMENT
          BY <1>1, <1>2, <3>1, <3>3, <5>1, LineByEpoch, PhaseNumbers DEF FirstPhase, Reported
        <5>2. CASE ph = PCP
          BY <1>1, <1>2, <3>1, <3>3, <5>2, LineByEpoch, PhaseNumbers DEF LastPhase, Reported
        <5> QED
          BY <5>1, <5>2
      <4>2. Reported(s, ph)' /\ Ranged(s)' /\ net'[1][s] = << >> /\ net'[s][1] = << >>
        BY <1>1, <1>2, <1>8, <1>9, <1>20, <4>1 DEF Reported, Ranged
      <4> QED
        BY <1>1, <1>2, <2>1, <3>1, <3>3, <4>2, LineNext
    <3> QED
      BY <3>2, <3>3
  <2> QED
    BY <1>10, <1>11, <1>13, <1>14, <1>15, <2>2, <2>3, CoordAll
<1>23. CASE ~(num + 1 <= NumSlaves)
  <2>1. pc'[1] = "p_done_files" /\ phase'[1] = ph
    BY <1>2, <1>7, <1>8, <1>23 DEF HandedOut
  <2>2. 2 + Cardinality(C \cup {s}) > NumSlaves
    BY <1>t, <1>7, <1>19, <1>23, Ranked
  <2>3. C \cup {s} = Slaves
    BY <1>18, <2>2, SlaveCount
  <2>4. \A e \in Slaves : Reported(e, ph) /\ net'[1][e] = net[1][e] /\ net'[e][1] = << >>
    BY <1>9, <1>20, <1>21, <2>3 DEF Reported
  <2> QED
    BY <1>2, <1>10, <1>11, <1>13, <1>14, <1>15, <2>1, <2>4, EpochEnds
<1> QED
  BY <1>22, <1>23

-----------------------------------------------------------------------------
(* The beginning of a phase. *)

LEMMA JoinsThree ==
    ASSUME NEW a, NEW b, NEW c, NEW d, NEW e
    PROVE  << a, b, c >> \o << d, e >> = << a, b, c, d, e >>
<1> DEFINE S == {a, b, c, d, e}
<1>1. << a, b, c >> \o << d, e >> \in Seq(S) /\ << a, b, c, d, e >> \in Seq(S)
  OBVIOUS
<1>2. Len(<< a, b, c >> \o << d, e >>) = 5 /\ Len(<< a, b, c, d, e >>) = 5
  OBVIOUS
<1>3. \A i \in 1 .. 5 : (<< a, b, c >> \o << d, e >>)[i] = << a, b, c, d, e >>[i]
  OBVIOUS
<1> HIDE DEF S
<1> QED
  BY <1>1, <1>2, <1>3, SeqEqual

LEMMA JoinsLast == ASSUME NEW a, NEW b, NEW c PROVE << a, b >> \o << c >> = << a, b, c >>
<1> DEFINE S == {a, b, c}
<1>1. << a, b >> \o << c >> \in Seq(S) /\ << a, b, c >> \in Seq(S)
  OBVIOUS
<1>2. Len(<< a, b >> \o << c >>) = 3 /\ Len(<< a, b, c >>) = 3
  OBVIOUS
<1>3. \A i \in 1 .. 3 : (<< a, b >> \o << c >>)[i] = << a, b, c >>[i]
  OBVIOUS
<1> HIDE DEF S
<1> QED
  BY <1>1, <1>2, <1>3, SeqEqual

LEMMA JoinsNone ==
    ASSUME NEW S, NEW q \in Seq(S)
    PROVE  << >> \o q = q /\ q \o << >> = q
  BY ConcatEmptySeq

\* What a slave finds in its channel.
LEMMA Handed ==
    ASSUME NEW d \in Slaves
    PROVE  /\ Distribution(COMMITMENT, BatchSize, d) =
                << PARAM(BatchSize), PARAM(ShareStart(d)), PARAM(ShareEnd(d)), INVOKE, PARAM(COMMITMENT) >>
           /\ Distribution(PCP, BatchSize, d) = << INVOKE, PARAM(PCP), CREATED >>
<1>1. PICK a, b, c : /\ a = PARAM(BatchSize) /\ b = PARAM(ShareStart(d)) /\ c = PARAM(ShareEnd(d))
  OBVIOUS
<1>2. PICK x, y, z, u : x = INVOKE /\ y = PARAM(COMMITMENT) /\ z = PARAM(PCP) /\ u = CREATED
  OBVIOUS
<1>3. Distribution(COMMITMENT, BatchSize, d) = (<< a, b, c >> \o << x, y >>) \o << >>
  BY <1>1, <1>2, PhaseNumbers DEF Distribution, Invoke, PARAM, INVOKE, ShareStart, ShareEnd
<1>4. Distribution(PCP, BatchSize, d) = (<< >> \o << x, z >>) \o << u >>
  BY <1>1, <1>2, PhaseNumbers DEF Distribution, Invoke, PARAM, INVOKE, CREATED
<1>5. << a, b, c >> \o << x, y >> = << a, b, c, x, y >>
  BY JoinsThree
<1>6. << a, b, c, x, y >> \o << >> = << a, b, c, x, y >>
  <2>1. << a, b, c, x, y >> \in Seq({a, b, c, x, y})
    OBVIOUS
  <2> QED
    BY <2>1, JoinsNone
<1>7. << >> \o << x, z >> = << x, z >>
  <2>1. << x, z >> \in Seq({x, z})
    OBVIOUS
  <2> QED
    BY <2>1, JoinsNone
<1>8. << x, z >> \o << u >> = << x, z, u >>
  BY JoinsLast
<1>9. Distribution(COMMITMENT, BatchSize, d) = << a, b, c, x, y >>
  BY <1>3, <1>5, <1>6
<1>10. Distribution(PCP, BatchSize, d) = << x, z, u >>
  BY <1>4, <1>7, <1>8
<1> QED
  BY <1>1, <1>2, <1>9, <1>10

LEMMA CoordDistributes ==
    ASSUME TypeInv, SessionInv, Distribute(1)
    PROVE  SessionInv'
<1> USE DEF Goto, vVerifierVars
<1>0. pc[1] = "p_request" /\ 1 \in Ranks /\ 0 \in Ranks /\ 1 \in Working /\ 1 \in Provers
  BY RankFacts DEF Distribute
<1>t. /\ pc \in [Ranks -> VerifierPC \cup ProverPC] /\ net \in Nets
      /\ batch_start \in [Provers -> Int] /\ batch_end \in [Provers -> Int] /\ cur \in [Provers -> Int]
  BY DEF TypeInv, TypeOK, Nets
<1>a. \/ pc[0] = "v_wait1" /\ Engaged(COMMITMENT)
      \/ pc[0] = "v_wait3" /\ Engaged(PCP)
  BY <1>0, CoordWhere DEF SessionInv, CoordPlace
<1>b. batch_size[1] = BatchSize
  BY <1>0 DEF SessionInv, Dialogue
<1>1. PICK ph \in {COMMITMENT, PCP} : phase[1] = ph
  BY <1>a DEF Engaged
<1>2. PICK l : l = Work(ph)
  OBVIOUS
<1>3. /\ folder' = folder /\ result' = result /\ phase' = phase /\ batch_size' = batch_size
      /\ num' = 2 /\ pc' = [pc EXCEPT ![1] = l]
      /\ batch_start' = [batch_start EXCEPT ![1] = ShareStart(1)]
      /\ batch_end' = [batch_end EXCEPT ![1] = ShareEnd(1)]
      /\ cur' = [cur EXCEPT ![1] = ShareStart(1)]
  BY <1>b, <1>1, <1>2 DEF Distribute, ShareStart, ShareEnd
<1>4. /\ pc'[1] = l /\ pc'[0] = pc[0] /\ \A r \in Ranks \ {1} : pc'[r] = pc[r]
      /\ batch_start'[1] = ShareStart(1) /\ batch_end'[1] = ShareEnd(1) /\ cur'[1] = ShareStart(1)
      /\ \A r \in Provers \ {1} : /\ batch_start'[r] = batch_start[r] /\ batch_end'[r] = batch_end[r]
                                  /\ cur'[r] = cur[r]
  BY <1>0, <1>t, <1>3
<1>5. /\ ph = COMMITMENT => l = "p_compute"
      /\ ph = PCP => l = "p_answer"
  BY <1>2, PhaseNumbers DEF Work
<1>6. \A a, b \in Ranks :
         net'[a][b] = IF a = 1 /\ b \in Slaves THEN net[1][b] \o Distribution(ph, BatchSize, b)
                      ELSE net[a][b]
  <2>1. PICK U : U = [b \in Ranks |-> IF b \in Slaves THEN net[1][b] \o Distribution(ph, BatchSize, b)
                                      ELSE net[1][b]]
    OBVIOUS
  <2>2. net' = [net EXCEPT ![1] = U]
    <3>1. net' = [net EXCEPT ![1] = [b \in Ranks |-> IF b \in Slaves
                                                     THEN @[b] \o Distribution(phase[1], batch_size[1], b)
                                                     ELSE @[b]]]
      BY DEF Distribute, PutAll
    <3> QED
      BY <1>0, <1>b, <1>1, <2>1, <3>1
  <2>3. \A b \in Ranks : U[b] = IF b \in Slaves THEN net[1][b] \o Distribution(ph, BatchSize, b)
                                ELSE net[1][b]
    BY <2>1
  <2>4. \A a, b \in Ranks : net'[a][b] = IF a = 1 THEN U[b] ELSE net[a][b]
    BY <1>0, <1>t, <2>2, RowAt DEF Nets
  <2> QED
    BY <2>3, <2>4
<1>7. /\ net'[0][1] = net[0][1] /\ net'[1][0] = net[1][0]
      /\ \A e \in Slaves : net'[e][1] = net[e][1]
      /\ \A e \in Slaves : net'[1][e] = net[1][e] \o Distribution(ph, BatchSize, e)
  BY <1>0, <1>6, RankFacts
<1>8. /\ ph = COMMITMENT => Before
      /\ ph = PCP => Between
  BY <1>0, <1>1 DEF Before, Between
<1>9. ASSUME NEW e \in Slaves
      PROVE  /\ net[1][e] = << >> /\ net[e][1] = << >>
             /\ ph = COMMITMENT => pc[e] = "p_batch" /\ phase[e] = 0
             /\ ph = PCP => Reported(e, COMMITMENT) /\ Ranged(e)
  BY <1>8 DEF SessionInv, SlaveLine
<1>10. ASSUME NEW e \in Slaves
       PROVE  /\ ph = COMMITMENT =>
                   net'[1][e] = << PARAM(BatchSize), PARAM(ShareStart(e)), PARAM(ShareEnd(e)),
                                   INVOKE, PARAM(COMMITMENT) >>
              /\ ph = PCP => net'[1][e] = << INVOKE, PARAM(PCP), CREATED >>
              /\ net'[e][1] = << >>
  <2>1. PICK q : q = Distribution(ph, BatchSize, e)
    OBVIOUS
  <2>2. q \in Seq(Msg)
    BY <2>1, SessionAssumption, PhaseNumbers, DistributionType, <1>1 DEF Slaves
  <2>3. << >> \o q = q
    BY <2>2, JoinsNone
  <2>4. net'[1][e] = q
    BY <1>7, <1>9, <2>1, <2>3
  <2> QED
    BY <1>7, <1>9, <2>1, <2>4, Handed
<1>11. CoordFrame
  BY <1>3, <1>4 DEF CoordFrame, Grows
<1>12. Channels'
  <2>1. \A r \in Slaves : pc[r] = "done" => pc'[r] = "done"
    BY <1>4, RankFacts
  <2> QED
    BY <1>6, <2>1, ChannelsStep DEF SessionInv
<1>13. Dialogue'
  <2>1. batch_size'[1] = BatchSize
    BY <1>b, <1>3
  <2>2. \/ Engaged(COMMITMENT)' /\ pc'[0] = "v_wait1"
        \/ Engaged(PCP)' /\ pc'[0] = "v_wait3"
    BY <1>a, <1>1, <1>3, <1>4, <1>5, <1>7, PhaseNumbers DEF Engaged
  <2> QED
    BY <2>1, <2>2 DEF Dialogue, VerifierPC
<1>14. Files'
  <2>1. pc'[1] # "p_deduce"
    BY <1>4, <1>5
  <2> QED
    BY <1>0, <1>3, <1>4, <2>1 DEF SessionInv, Files
<1>15. ShareFiles(1)'
  <2>1. PICK a, b : a = ShareStart(1) /\ b = ShareEnd(1)
    OBVIOUS
  <2>2. a \in Int /\ b \in Int /\ a <= b + 1
    BY <1>0, <2>1, Shares
  <2>3. a \in a .. b + 1 /\ a .. a - 1 = {}
    BY <2>2
  <2>4. Ranged(1)' /\ cur'[1] = ShareStart(1) /\ phase'[1] = ph
    BY <1>1, <1>3, <1>4 DEF Ranged
  <2>5. /\ ShareStart(1) \in ShareStart(1) .. ShareEnd(1) + 1
        /\ \A f : New(f, ShareStart(1) .. ShareStart(1) - 1)
    BY <2>1, <2>3 DEF New
  <2>6. CASE ph = COMMITMENT
    BY <1>4, <1>5, <2>4, <2>5, <2>6, PhaseNumbers DEF ShareFiles
  <2>7. CASE ph = PCP
    <3>1. /\ New(folder.output, ShareStart(1) .. ShareEnd(1))
          /\ New(folder.assignment, ShareStart(1) .. ShareEnd(1))
          /\ New(folder.commitment, ShareStart(1) .. ShareEnd(1))
      BY <1>0, <1>1, <2>7 DEF SessionInv, ShareFiles
    <3> QED
      BY <1>3, <1>4, <1>5, <2>4, <2>5, <2>7, <3>1, PhaseNumbers DEF ShareFiles
  <2> QED
    BY <2>6, <2>7
<1>16. ASSUME NEW e \in Slaves
       PROVE  pc'[e] = pc[e] /\ phase'[e] = phase[e] /\ ~Reported(e, ph)'
  <2>1. pc'[e] = pc[e] /\ phase'[e] = phase[e]
    BY <1>11, CoordFrameFacts
  <2> QED
    BY <1>9, <2>1, PhaseNumbers DEF Reported
<1>17. Count'
  <2> SUFFICES ASSUME NEW qh \in {COMMITMENT, PCP}, HandedOut(qh)'
               PROVE  /\ num' = 2 + Cardinality(Counted(qh)')
                      /\ pc'[1] = "p_wait" => num' <= NumSlaves
                      /\ pc'[1] \in {"p_compute", "p_commit", "p_answer"} => num' = 2
    BY DEF Count
  <2>1. qh = ph
    BY <1>1, <1>3 DEF HandedOut
  <2>2. Counted(qh)' = {}
    BY <1>16, <2>1 DEF Counted
  <2>3. pc'[1] # "p_wait"
    BY <1>4, <1>5
  <2> QED
    BY <1>3, <2>2, <2>3, FS_EmptySet
<1>18. ASSUME NEW e \in Slaves PROVE SlaveLine(e)'
  <2>1. CASE ph = COMMITMENT
    <3>1. ~Before' /\ ~Between' /\ ~HandedOut(PCP)' /\ ~AllAnswered' /\ ~Over'
      BY <1>1, <1>3, <1>4, <1>5, <2>1, PhaseNumbers DEF Before, HandedOut, Between, AllAnswered, Over
    <3>2. FirstPhase(e)' /\ net'[e][1] = << >>
      BY <1>9, <1>10, <1>16, <2>1 DEF FirstPhase
    <3> QED
      BY <3>1, <3>2 DEF SlaveLine
  <2>2. CASE ph = PCP
    <3>1. ~Before' /\ ~Between' /\ ~HandedOut(COMMITMENT)' /\ ~AllAnswered' /\ ~Over'
      BY <1>1, <1>3, <1>4, <1>5, <2>2, PhaseNumbers DEF Before, HandedOut, Between, AllAnswered, Over
    <3>2. Ranged(e)'
      BY <1>9, <1>11, <2>2, CoordFrameFacts DEF Ranged
    <3>3. LastPhase(e)' /\ net'[e][1] = << >>
      BY <1>9, <1>10, <1>16, <2>2 DEF LastPhase, Reported
    <3> QED
      BY <3>1, <3>2, <3>3 DEF SlaveLine
  <2> QED
    BY <2>1, <2>2
<1> QED
  BY <1>11, <1>12, <1>13, <1>14, <1>15, <1>17, <1>18, CoordAll

-----------------------------------------------------------------------------
(* The end of the session. *)

LEMMA CoordStops ==
    ASSUME TypeInv, SessionInv, pc[1] = "p_idle", pc[0] = "done", net[0][1] # << >>,
           \A b \in Slaves : net'[1][b] = net[1][b] \o << TERM >>, net'[0][1] = << >>,
           \A a, b \in Ranks : \/ a = 1 /\ b \in Slaves
                               \/ a = 0 /\ b = 1
                               \/ net'[a][b] = net[a][b],
           pc' = [pc EXCEPT ![1] = "done"], UNCHANGED <<vVerifierVars, vProverVars, folder>>
    PROVE  SessionInv'
<1> USE DEF vVerifierVars, vProverVars
<1>0. 1 \in Ranks /\ 0 \in Ranks /\ 1 \in Working /\ 1 \in Provers
  BY RankFacts
<1>t. pc \in [Ranks -> VerifierPC \cup ProverPC]
  BY DEF TypeInv, TypeOK
<1>5. pc'[1] = "done" /\ pc'[0] = pc[0] /\ \A r \in Ranks \ {1} : pc'[r] = pc[r]
  BY <1>0, <1>t
<1>6. phase[1] = PCP /\ net[1][0] = << >>
  BY CoordWhere DEF SessionInv, CoordPlace
<1>7. AllAnswered
  BY <1>6 DEF AllAnswered
<1>8. ASSUME NEW e \in Slaves
      PROVE  Reported(e, PCP) /\ Ranged(e) /\ net[1][e] = << >> /\ net[e][1] = << >>
  BY <1>7 DEF SessionInv, SlaveLine
<1>9. ASSUME NEW e \in Slaves PROVE net'[1][e] = << TERM >> /\ net'[e][1] = << >>
  <2>1. << >> \o << TERM >> = << TERM >>
    OBVIOUS
  <2>2. net'[1][e] = net[1][e] \o << TERM >> /\ net'[e][1] = net[e][1]
    BY <1>0, RankFacts
  <2> QED
    BY <1>8, <2>1, <2>2
<1>10. net'[0][1] = << >> /\ net'[1][0] = net[1][0]
  BY <1>0, RankFacts
<1>11. CoordFrame
  BY <1>5 DEF CoordFrame, Grows
<1>12. Channels'
  <2>1. \A r \in Slaves : pc[r] = "done" => pc'[r] = "done"
    BY <1>5, RankFacts
  <2> QED
    BY <2>1, ChannelsStep DEF SessionInv
<1>13. Dialogue'
  <2>1. batch_size'[1] = BatchSize
    BY DEF SessionInv, Dialogue
  <2> QED
    BY <1>5, <1>6, <1>10, <2>1 DEF Dialogue, VerifierPC
<1>14. Files'
  BY <1>5, <1>6 DEF SessionInv, Files
<1>15. ShareFiles(1)'
  BY <1>0, <1>5, <1>6 DEF SessionInv, ShareFiles
<1>16. Count'
  BY <1>5 DEF Count, HandedOut
<1>17. ASSUME NEW e \in Slaves PROVE SlaveLine(e)'
  <2>1. ~Before' /\ ~HandedOut(COMMITMENT)' /\ ~HandedOut(PCP)' /\ ~Between' /\ ~AllAnswered'
    BY <1>5, <1>6, PhaseNumbers DEF Before, HandedOut, Between, AllAnswered
  <2>2. /\ pc'[e] = pc[e] /\ phase'[e] = phase[e] /\ Ranged(e)'
    BY <1>8, <1>11, CoordFrameFacts DEF Ranged
  <2> QED
    BY <1>8, <1>9, <2>1, <2>2 DEF SlaveLine, Reported
<1> QED
  BY <1>11, <1>12, <1>13, <1>14, <1>15, <1>16, <1>17, CoordAll

LEMMA CoordRecvRequest ==
    ASSUME TypeInv, SessionInv, RecvRequest(1)
    PROVE  SessionInv'
<1> USE DEF Goto
<1>0. pc[1] = "p_idle"
  BY DEF RecvRequest
<1>r. 0 \in Ranks /\ 1 \in Ranks /\ TerminateTargets = Slaves
  BY RankFacts
<1>t. net \in Nets
  BY DEF TypeInv, TypeOK, Nets
<1>a. PICK s \in Ranks : \E i \in 1 .. Len(net[s][1]) :
         /\ FirstMatch(s, 1, Tags, i)
         /\ \/ /\ net[s][1][i].tag = "TERMINATE"
               /\ net' = [Taken(s, 1, i) EXCEPT
                            ![1] = [e \in Ranks |-> IF e \in TerminateTargets
                                                    THEN @[e] \o << TERM >> ELSE @[e]]]
               /\ pc' = [pc EXCEPT ![1] = "done"]
            \/ /\ net[s][1][i].tag # "TERMINATE"
               /\ net' = Taken(s, 1, i)
               /\ pc' = [pc EXCEPT ![1] = IF net[s][1][i].tag = "INVOKE_PROVER" THEN "p_phase" ELSE "p_idle"]
  BY DEF RecvRequest, PutAll, TERM
<1>b. s = 0
  BY <1>0, <1>a, CoordHears
<1>1. PICK i \in 1 .. Len(net[0][1]) :
         /\ FirstMatch(0, 1, Tags, i)
         /\ \/ /\ net[0][1][i].tag = "TERMINATE"
               /\ net' = [Taken(0, 1, i) EXCEPT
                            ![1] = [e \in Ranks |-> IF e \in TerminateTargets
                                                    THEN @[e] \o << TERM >> ELSE @[e]]]
               /\ pc' = [pc EXCEPT ![1] = "done"]
            \/ /\ net[0][1][i].tag # "TERMINATE"
               /\ net' = Taken(0, 1, i)
               /\ pc' = [pc EXCEPT ![1] = IF net[0][1][i].tag = "INVOKE_PROVER" THEN "p_phase" ELSE "p_idle"]
  BY <1>a, <1>b
<1>2. UNCHANGED <<vVerifierVars, vProverVars, folder>>
  BY DEF RecvRequest
<1>3. CASE net[0][1] = << TERM >>
  <2>1. << TERM >>[i] = TERM
    <3>1. \A m : Len(<< m >>) = 1 /\ << m >>[1] = m
      OBVIOUS
    <3>2. i \in 1 .. Len(<< TERM >>)
      BY <1>1, <1>3
    <3> QED
      BY <3>1, <3>2
  <2>2. net[0][1][i].tag = "TERMINATE"
    BY <1>3, <2>1, MessageFacts
  <2>3. pc[0] = "done"
    <3>1. /\ << TERM >> # << >>
          /\ \A a, b : << TERM >> # << a, b >>
          /\ \A a, b, c, d : << TERM >> # << a, b, c, d >>
      OBVIOUS
    <3> QED
      BY <1>0, <1>3, <3>1, CoordWhere DEF SessionInv, CoordPlace
  <2>4. Head(net[0][1]) = TERM /\ Tail(net[0][1]) = << >> /\ net[0][1] # << >>
    BY <1>3
  <2>5. PICK q : q = Tail(net[0][1])
    OBVIOUS
  <2>6. Taken(0, 1, i) = [net EXCEPT ![0][1] = q]
    <3>1. Head(net[0][1]).tag \in Tags
      BY <2>4, MessageFacts DEF Tags
    <3> QED
      BY <1>r, <1>t, <1>1, <2>5, <3>1, TakesHead
  <2>7. /\ \A b \in Slaves : net'[1][b] = net[1][b] \o << TERM >>
        /\ net'[0][1] = << >> /\ net[0][1] # << >>
        /\ \A a, b \in Ranks : \/ a = 1 /\ b \in Slaves
                               \/ a = 0 /\ b = 1
                               \/ net'[a][b] = net[a][b]
    <3>1. PICK T : T = [net EXCEPT ![0][1] = q]
      OBVIOUS
    <3>2. T \in [Ranks -> [Ranks -> Seq(Msg) \cup {q}]]
      BY <1>t, <3>1 DEF Nets
    <3>3. \A a, b \in Ranks : T[a][b] = IF a = 0 /\ b = 1 THEN q ELSE net[a][b]
      BY <1>r, <1>t, <3>1 DEF Nets
    <3>4. PICK U : U = [e \in Ranks |-> IF e \in Slaves THEN T[1][e] \o << TERM >> ELSE T[1][e]]
      OBVIOUS
    <3>5. net' = [T EXCEPT ![1] = U]
      BY <1>r, <1>1, <2>2, <2>6, <3>1, <3>2, <3>4
    <3>6. \A b \in Ranks : U[b] = IF b \in Slaves THEN T[1][b] \o << TERM >> ELSE T[1][b]
      BY <3>4
    <3>7. \A a, b \in Ranks : net'[a][b] = IF a = 1 THEN U[b] ELSE T[a][b]
      BY <1>r, <3>2, <3>5, RowAt
    <3>8. ASSUME NEW a \in Ranks, NEW b \in Ranks
          PROVE  /\ a = 1 /\ b \in Slaves => net'[a][b] = net[1][b] \o << TERM >>
                 /\ a = 0 /\ b = 1 => net'[a][b] = q
                 /\ ~(a = 1 /\ b \in Slaves) /\ ~(a = 0 /\ b = 1) => net'[a][b] = net[a][b]
      <4>1. CASE a = 1
        <5>1. net'[a][b] = U[b] /\ T[1][b] = net[1][b]
          BY <1>r, <3>3, <3>7, <4>1
        <5>2. U[b] = IF b \in Slaves THEN T[1][b] \o << TERM >> ELSE T[1][b]
          BY <3>6
        <5> QED
          BY <4>1, <5>1, <5>2
      <4>2. CASE a # 1
        <5>1. net'[a][b] = T[a][b]
          BY <3>7, <4>2
        <5>2. T[a][b] = IF a = 0 /\ b = 1 THEN q ELSE net[a][b]
          BY <3>3
        <5> QED
          BY <4>2, <5>1, <5>2
      <4> QED
        BY <4>1, <4>2
    <3> QED
      BY <1>r, <2>4, <2>5, <3>8, RankFacts
  <2> QED
    BY <1>0, <1>1, <1>2, <1>3, <2>2, <2>3, <2>7, CoordStops
<1>4. CASE net[0][1] # << TERM >>
  BY <1>0, <1>1, <1>2, <1>4, CoordInvoked
<1> QED
  BY <1>3, <1>4

LEMMA CoordStep ==
    ASSUME TypeInv, SessionInv, Prover(1)
    PROVE  SessionInv'
<1>1. pc[1] \notin {"p_start", "p_end", "p_queries"}
  BY DEF SessionInv, Dialogue, VerifierPC, Waits, Told, Engaged
<1>2. isMaster(1)
  BY DEF isMaster, MPI_COORD_RANK
<1>3. ~RecvBatchStart(1) /\ ~RecvBatchEnd(1) /\ ~StartPhase(1) /\ ~RecvQueryCreated(1) /\ ~SlaveFinished(1)
  BY <1>1, <1>2 DEF RecvBatchStart, RecvBatchEnd, StartPhase, RecvQueryCreated, SlaveFinished
<1>4. \/ RecvParams(1) \/ RecvRequest(1) \/ RecvPhase(1) \/ DeduceQueries(1) \/ Distribute(1)
      \/ Compute(1) \/ Commit(1) \/ Answer(1) \/ CoordFinished(1) \/ CountFinished(1)
      \/ PollDoneFiles(1) \/ Report(1)
  BY <1>3 DEF Prover
<1> QED
  BY <1>4, CoordRecvParams, CoordRecvRequest, CoordRecvPhase, CoordDeduce, CoordDistributes,
     CoordLoops, CoordFinishes, CoordCounts, CoordPolls, CoordReports

-----------------------------------------------------------------------------
(* The whole session. *)

LEMMA ExcessIdle ==
    ASSUME ExcessRanksParked, NEW r \in Excess, Prover(r)
    PROVE  FALSE
<1>1. pc[r] = "p_batch" /\ \A s \in Ranks : net[s][r] = << >>
  BY DEF ExcessRanksParked, Excess
<1>2. RecvParams(r)
  <2>a. /\ RecvBatchStart(r) => pc[r] = "p_start"
        /\ RecvBatchEnd(r) => pc[r] = "p_end"
        /\ RecvRequest(r) => pc[r] = "p_idle"
        /\ RecvPhase(r) => pc[r] = "p_phase"
        /\ RecvQueryCreated(r) => pc[r] = "p_queries"
        /\ CountFinished(r) => pc[r] = "p_wait"
    BY DEF RecvBatchStart, RecvBatchEnd, RecvRequest, RecvPhase, RecvQueryCreated, CountFinished
  <2>b. /\ DeduceQueries(r) => pc[r] = "p_deduce"
        /\ Distribute(r) \/ StartPhase(r) => pc[r] = "p_request"
        /\ Compute(r) => pc[r] = "p_compute"
        /\ Commit(r) => pc[r] = "p_commit"
        /\ Answer(r) => pc[r] = "p_answer"
        /\ SlaveFinished(r) \/ CoordFinished(r) => pc[r] = "p_finish"
        /\ PollDoneFiles(r) => pc[r] = "p_done_files"
        /\ Report(r) => pc[r] = "p_report"
    BY DEF DeduceQueries, Distribute, StartPhase, Compute, Commit, Answer, Loop, SlaveFinished,
           CoordFinished, PollDoneFiles, Report
  <2> QED
    BY <1>1, <2>a, <2>b DEF Prover
<1>3. \E s \in Ranks : \E i \in 1 .. Len(net[s][r]) : TRUE
  BY <1>2 DEF RecvParams, Recv
<1> QED
  BY <1>1, <1>3, NoMatch

LEMMA ProverStep ==
    ASSUME TypeInv, ExcessRanksParked, SessionInv, NEW r \in Provers, Prover(r)
    PROVE  SessionInv' /\ r \in Working
<1>1. r \in Working
  BY RankFacts, ExcessIdle
<1>2. r = 1 \/ r \in Slaves
  BY <1>1, RankFacts
<1> QED
  BY <1>1, <1>2, CoordStep, SlaveStep

LEMMA StutterStep == ASSUME SessionInv, UNCHANGED vars PROVE SessionInv'
<1> USE DEF vars
<1>1. Dialogue'
  BY DialogueKept DEF SessionInv
<1>2. Channels' /\ Count' /\ Files'
  BY DEF SessionInv, Channels, Count, Counted, Reported, HandedOut, Files
<1>3. \A d \in Slaves : SlaveLine(d)'
  BY SlaveLineKept DEF SessionInv
<1>4. \A r \in Working : ShareFiles(r)'
  BY DEF SessionInv, ShareFiles, Ranged
<1> QED
  BY <1>1, <1>2, <1>3, <1>4 DEF SessionInv

LEMMA InitSession == ASSUME Init PROVE SessionInv
<1>0. 0 \in Ranks /\ 1 \in Ranks /\ 1 \in Provers
  BY RankFacts
<1>1. /\ pc[0] = "v_params" /\ pc[1] = "p_batch" /\ phase[1] = 0
      /\ \A s, d \in Ranks : net[s][d] = << >>
      /\ \A r \in Provers : pc[r] = "p_batch" /\ phase[r] = 0
      /\ result = TRUE
  BY <1>0, RankFacts, Ranked DEF Init
<1>2. folder.seed # "new"
  BY DEF Init
<1>3. Dialogue
  BY <1>0, <1>1 DEF Dialogue, VerifierPC
<1>4. Channels
  BY <1>1 DEF Channels
<1>5. Count
  BY <1>1 DEF Count, HandedOut
<1>6. Files
  BY <1>1, <1>2, PhaseNumbers DEF Files, Revealed
<1>7. ASSUME NEW d \in Slaves PROVE SlaveLine(d)
  <2>1. d \in Provers /\ d \in Ranks /\ 1 \in Ranks
    BY RankFacts
  <2>2. pc[d] = "p_batch" /\ phase[d] = 0 /\ net[1][d] = << >> /\ net[d][1] = << >>
    BY <1>1, <2>1
  <2>3. ~HandedOut(COMMITMENT) /\ ~HandedOut(PCP) /\ ~Between /\ ~AllAnswered /\ ~Over
    BY <1>1, PhaseNumbers DEF HandedOut, Between, AllAnswered, Over
  <2> QED
    BY <2>2, <2>3 DEF SlaveLine
<1>8. ASSUME NEW r \in Working PROVE ShareFiles(r)
  <2>1. pc[r] = "p_batch" /\ phase[r] = 0
    BY <1>1, RankFacts
  <2> QED
    BY <2>1, PhaseNumbers DEF ShareFiles
<1> QED
  BY <1>3, <1>4, <1>5, <1>6, <1>7, <1>8 DEF SessionInv

LEMMA SessionInvAlways == Spec => []SessionInv
<1>1. Init => SessionInv
  BY InitSession
<1>2. TypeInv /\ ExcessRanksParked /\ SessionInv /\ [Next]_vars => SessionInv'
  <2> SUFFICES ASSUME TypeInv, ExcessRanksParked, SessionInv, [Next]_vars PROVE SessionInv'
    OBVIOUS
  <2>1. CASE Verifier
    BY <2>1, VerifierStep
  <2>2. CASE \E r \in Provers : Prover(r)
    BY <2>2, ProverStep
  <2>3. CASE UNCHANGED vars
    BY <2>3, StutterStep
  <2> QED
    BY <2>1, <2>2, <2>3 DEF Next, Finished
<1> QED
  BY <1>1, <1>2, TypeInvAlways, ExcessRanksParkedAlways, PTL DEF Spec

\* The commitment binds: once dump_seed_decommit_queries has written the seed of
\* this session, the output, the assignment and the commitment answer of every
\* instance are this session's, whichever prover's batch loop computed them.
THEOREM CommitBeforeRevealAlways == Spec => []CommitBeforeReveal
<1>1. SessionInv => CommitBeforeReveal
  <2> SUFFICES ASSUME SessionInv, folder.seed = "new"
               PROVE  \A i \in Instances : /\ folder.output[i] = "new"
                                           /\ folder.assignment[i] = "new"
                                           /\ folder.commitment[i] = "new"
    BY DEF CommitBeforeReveal
  <2>1. pc[0] \in Revealed
    BY DEF SessionInv, Files
  <2> QED
    BY <2>1, AllCommitted DEF New
<1> QED
  BY <1>1, SessionInvAlways, PTL

\* A session of honest provers is accepted: run_tests passes on every instance,
\* also when the state folder still holds the files of an earlier session.
THEOREM HonestBatchAcceptedAlways == Spec => []HonestBatchAccepted
<1>1. SessionInv => HonestBatchAccepted
  BY DEF SessionInv, Files, HonestBatchAccepted
<1> QED
  BY <1>1, SessionInvAlways, PTL

\* When the coordinator reports a phase to the verifier, no slave is still in the
\* batch loops of handle_terminal_request for it.
THEOREM PhaseBarrierAlways == Spec => []PhaseBarrier
<1>1. SessionInv => PhaseBarrier
  <2> SUFFICES ASSUME SessionInv, pc[1] \in {"p_report", "p_idle"}, phase[1] \in {COMMITMENT, PCP},
                      NEW r \in Slaves
               PROVE  phase[r] = phase[1] /\ ~Busy(r)
    BY DEF PhaseBarrier
  <2>1. SlaveLine(r)
    BY DEF SessionInv
  <2>2. CASE phase[1] = COMMITMENT
    BY <2>1, <2>2 DEF SlaveLine, Between, Reported, Busy
  <2>3. CASE phase[1] = PCP
    BY <2>1, <2>3 DEF SlaveLine, AllAnswered, Reported, Busy
  <2> QED
    BY <2>2, <2>3
<1> QED
  BY <1>1, SessionInvAlways, PTL

\* What a session leaves unreceived: the slaves' reports to rank 0 and TERMINATE
\* messages between provers that have stopped; nothing that anybody waits for.
THEOREM OnlyOrphansAlways == Spec => []OnlyOrphans
<1>1. SessionInv => OnlyOrphans
  <2> SUFFICES ASSUME SessionInv, AllDone, NEW s \in Ranks, NEW d \in Ranks,
                      NEW i \in 1 .. Len(net[s][d])
               PROVE  \/ s \in Slaves /\ d = 0 /\ net[s][d][i].tag = "PROVER_FINISHED"
                      \/ s \in Working /\ d \in Slaves /\ net[s][d][i].tag = "TERMINATE"
    BY DEF OnlyOrphans
  <2>1. net[s][d] # << >>
    BY NoMatch
  <2>2. Over
    BY RankFacts DEF AllDone, Over
  <2>3. net[0][1] = << >> /\ net[1][0] = << >>
    BY <2>2, DialogueFacts DEF SessionInv
  <2>4. \A e \in Slaves : net[e][1] = << >> /\ net[1][e] \in {<< >>, << TERM >>}
    BY <2>2, LineByEpoch DEF SessionInv
  <2>5. \/ s = 1 /\ d \in Slaves
        \/ s \in Slaves /\ d = 0 /\ Only(net[s][d], FINISH)
        \/ s \in Slaves /\ d \in Slaves /\ Only(net[s][d], TERM)
    BY <2>1, <2>3, <2>4 DEF SessionInv, Channels
  <2>6. CASE s = 1 /\ d \in Slaves
    <3>1. net[s][d] = << TERM >>
      BY <2>1, <2>4, <2>6
    <3>2. << TERM >>[i] = TERM
      <4>1. \A m : Len(<< m >>) = 1 /\ << m >>[1] = m
        OBVIOUS
      <4>2. i \in 1 .. Len(<< TERM >>)
        BY <3>1
      <4> QED
        BY <4>1, <4>2
    <3> QED
      BY <2>6, <3>1, <3>2, MessageFacts, RankFacts
  <2>7. CASE s \in Slaves /\ d = 0 /\ Only(net[s][d], FINISH)
    BY <2>7, MessageFacts DEF Only
  <2>8. CASE s \in Slaves /\ d \in Slaves /\ Only(net[s][d], TERM)
    BY <2>8, MessageFacts, RankFacts DEF Only
  <2> QED
    BY <2>5, <2>6, <2>7, <2>8
<1> QED
  BY <1>1, SessionInvAlways, PTL

-----------------------------------------------------------------------------
(* The session implements the abstract argument. *)

\* Where a prover is in a batch loop, the verifier waits for that phase.
LEMMA LoopWhere ==
    ASSUME SessionInv, NEW r \in Working
    PROVE  /\ pc[r] \in {"p_compute", "p_commit"} => pc[0] = "v_wait1" /\ phase[r] = COMMITMENT
           /\ pc[r] = "p_answer" => pc[0] = "v_wait3" /\ phase[r] = PCP /\ phase[1] = PCP
<1>1. CASE r = 1
  <2>1. CoordPlace
    BY CoordWhere DEF SessionInv
  <2> QED
    BY <1>1, <2>1 DEF CoordPlace, Engaged, COMMITMENT, PCP
<1>2. CASE r \in Slaves
  <2>1. SlaveLine(r) /\ Dialogue
    BY <1>2 DEF SessionInv
  <2>2. pc[r] \in {"p_compute", "p_commit"} => pc[0] = "v_wait1" /\ phase[r] = COMMITMENT
    <3> SUFFICES ASSUME pc[r] \in {"p_compute", "p_commit"}
                 PROVE  pc[0] = "v_wait1" /\ phase[r] = COMMITMENT
      OBVIOUS
    <3>1. HandedOut(COMMITMENT)
      BY <1>2, <2>1, SlaveWhere
    <3> QED
      BY <1>2, <2>1, <3>1, LineByEpoch, DialogueFacts DEF FirstPhase, Reported
  <2>3. pc[r] = "p_answer" => pc[0] = "v_wait3" /\ phase[r] = PCP /\ phase[1] = PCP
    <3> SUFFICES ASSUME pc[r] = "p_answer"
                 PROVE  pc[0] = "v_wait3" /\ phase[r] = PCP /\ phase[1] = PCP
      OBVIOUS
    <3>1. HandedOut(PCP)
      BY <1>2, <2>1, SlaveWhere
    <3> QED
      BY <1>2, <2>1, <3>1, LineByEpoch, DialogueFacts DEF LastPhase, Reported, HandedOut
  <2> QED
    BY <2>2, <2>3
<1> QED
  BY <1>1, <1>2, RankFacts

\* A prover's step leaves the verifier alone; outside the batch loops it changes
\* neither commitments nor answers nor the seed.
LEMMA ProverKeeps ==
    ASSUME TypeInv, NEW r \in Provers, Prover(r)
    PROVE  /\ pc'[0] = pc[0] /\ result' = result
           /\ \/ Compute(r) \/ Commit(r) \/ Answer(r)
              \/ /\ folder'.commitment = folder.commitment /\ folder'.answers = folder.answers
                 /\ folder'.seed = folder.seed
<1>0. r # 0 /\ 0 \in Ranks /\ r \in Ranks
  BY Ranked
<1>t. pc \in [Ranks -> VerifierPC \cup ProverPC] /\ folder \in Folder
  BY DEF TypeInv, TypeOK
<1>1. \A l : [pc EXCEPT ![r] = l][0] = pc[0]
  BY <1>0, <1>t
<1>2. CASE RecvParams(r) \/ RecvBatchStart(r) \/ RecvBatchEnd(r) \/ RecvQueryCreated(r)
  BY <1>1, <1>2 DEF RecvParams, RecvBatchStart, RecvBatchEnd, RecvQueryCreated, Goto, vVerifierVars
<1>3. CASE RecvRequest(r)
  BY <1>1, <1>3 DEF RecvRequest, Goto, vVerifierVars
<1>4. CASE RecvPhase(r) \/ CountFinished(r)
  BY <1>1, <1>4 DEF RecvPhase, CountFinished, Recv, Goto, vVerifierVars
<1>5. CASE DeduceQueries(r)
  <2>1. folder' = [folder EXCEPT !.queries = From({folder.seed})]
    BY <1>5 DEF DeduceQueries
  <2> QED
    BY <1>t, <1>1, <1>5, <2>1 DEF DeduceQueries, Goto, vVerifierVars, Folder
<1>6. CASE Distribute(r) \/ StartPhase(r) \/ CoordFinished(r) \/ PollDoneFiles(r) \/ Report(r)
  BY <1>1, <1>6 DEF Distribute, StartPhase, CoordFinished, PollDoneFiles, Report, Goto, vVerifierVars
<1>7. CASE SlaveFinished(r)
  <2>1. folder' = [folder EXCEPT !.done = @ \cup {<<phase[r], batch_start[r]>>}]
    BY <1>7 DEF SlaveFinished
  <2> QED
    BY <1>t, <1>1, <1>7, <2>1 DEF SlaveFinished, Goto, vVerifierVars, Folder
<1>8. CASE Compute(r) \/ Commit(r) \/ Answer(r)
  BY <1>1, <1>8 DEF Compute, Commit, Answer, Loop, Goto, vVerifierVars
<1> QED
  BY <1>2, <1>3, <1>4, <1>5, <1>6, <1>7, <1>8 DEF Prover

\* A step that keeps these keeps the abstract state.
LEMMA ArgumentKept ==
    ASSUME folder'.commitment = folder.commitment, folder'.answers = folder.answers,
           folder'.seed = folder.seed, pc'[0] = "done" <=> pc[0] = "done",
           pc[0] = "done" => result' = result
    PROVE  UNCHANGED Argument!absVars
  BY DEF Argument!absVars

\* One more instance is this session's.
LEMMA OneMore ==
    ASSUME NEW f \in [Instances -> Stamp], NEW i \in Instances
    PROVE  {j \in Instances : [f EXCEPT ![i] = "new"][j] = "new"} = {j \in Instances : f[j] = "new"} \cup {i}
  OBVIOUS

\* prover_interactive and prover_answer_queries are the argument's steps.
LEMMA ProverArgues ==
    ASSUME TypeInv, ExcessRanksParked, SessionInv, NEW r \in Provers, Prover(r)
    PROVE  Argument!AbsNext \/ UNCHANGED Argument!absVars
<1>1. r \in Working /\ pc'[0] = pc[0] /\ result' = result
  BY ProverStep, ProverKeeps
<1>i. Files /\ ShareFiles(r)
  BY <1>1 DEF SessionInv
<1>t. folder.commitment \in [Instances -> Stamp] /\ folder.answers \in [Instances -> Stamp]
  BY DEF TypeInv, TypeOK, Folder
<1>2. CASE ~Compute(r) /\ ~Commit(r) /\ ~Answer(r)
  BY <1>1, <1>2, ProverKeeps, ArgumentKept
<1>3. CASE Compute(r)
  <2>1. pc[0] = "v_wait1" /\ phase[r] = COMMITMENT
    BY <1>1, <1>3, LoopFrame, LoopWhere
  <2>2. /\ folder'.commitment = folder.commitment /\ folder'.answers = folder.answers
        /\ folder'.seed = folder.seed
    BY <1>1, <1>3, <1>i, <2>1, ComputeFiles DEF KeepsOthers
  <2> QED
    BY <1>1, <2>2, ArgumentKept
<1>4. CASE Commit(r)
  <2>1. pc[0] = "v_wait1" /\ phase[r] = COMMITMENT
    BY <1>1, <1>4, LoopFrame, LoopWhere
  <2>2. /\ KeepsOthers
        /\ \/ folder' = folder
           \/ /\ \E i \in Instances : folder'.commitment = [folder.commitment EXCEPT ![i] = "new"]
              /\ folder'.answers = folder.answers
    BY <1>1, <1>4, <1>i, <2>1, CommitFiles
  <2>3. CASE folder' = folder
    BY <1>1, <2>3, ArgumentKept
  <2>4. CASE /\ \E i \in Instances : folder'.commitment = [folder.commitment EXCEPT ![i] = "new"]
             /\ folder'.answers = folder.answers
    <3>1. PICK i \in Instances : folder'.commitment = [folder.commitment EXCEPT ![i] = "new"]
      BY <2>4
    <3>2. {j \in Instances : folder'.commitment[j] = "new"} = {j \in Instances : folder.commitment[j] = "new"} \cup {i}
      BY <1>t, <3>1, OneMore
    <3>3. folder.seed # "new" /\ folder'.seed = folder.seed
      BY <1>i, <2>1, <2>2 DEF Files, Revealed, KeepsOthers
    <3>4. Argument!CommitTo(i)
      BY <1>1, <2>1, <2>4, <3>2, <3>3 DEF Argument!CommitTo
    <3> QED
      BY <3>4 DEF Argument!AbsNext
  <2> QED
    BY <2>2, <2>3, <2>4
<1>5. CASE Answer(r)
  <2>1. pc[0] = "v_wait3" /\ phase[r] = PCP /\ phase[1] = PCP
    BY <1>1, <1>5, LoopFrame, LoopWhere
  <2>2. /\ KeepsOthers
        /\ \/ folder' = folder
           \/ /\ \E i \in Instances : folder'.answers = [folder.answers EXCEPT ![i] = "new"]
              /\ folder'.commitment = folder.commitment
    BY <1>1, <1>5, <1>i, <2>1, AnswerFiles
  <2>3. CASE folder' = folder
    BY <1>1, <2>3, ArgumentKept
  <2>4. CASE /\ \E i \in Instances : folder'.answers = [folder.answers EXCEPT ![i] = "new"]
             /\ folder'.commitment = folder.commitment
    <3>1. PICK i \in Instances : folder'.answers = [folder.answers EXCEPT ![i] = "new"]
      BY <2>4
    <3>2. {j \in Instances : folder'.answers[j] = "new"} = {j \in Instances : folder.answers[j] = "new"} \cup {i}
      BY <1>t, <3>1, OneMore
    <3>3. folder.seed = "new" /\ folder'.seed = folder.seed
      BY <1>i, <2>1, <2>2 DEF Files, Revealed, KeepsOthers
    <3>4. Argument!AnswerFor(i)
      BY <1>1, <2>1, <2>4, <3>2, <3>3 DEF Argument!AnswerFor
    <3> QED
      BY <3>4 DEF Argument!AbsNext
  <2> QED
    BY <2>2, <2>3, <2>4
<1> QED
  BY <1>2, <1>3, <1>4, <1>5

\* The verifier reveals when everything is committed to, and accepts when
\* everything is answered.
LEMMA VerifierArgues ==
    ASSUME TypeInv, SessionInv, Verifier
    PROVE  Argument!AbsNext \/ UNCHANGED Argument!absVars
<1>0. 0 \in Ranks /\ 1 \in Ranks
  BY RankFacts
<1>t. folder \in Folder /\ pc \in [Ranks -> VerifierPC \cup ProverPC]
  BY DEF TypeInv, TypeOK
<1>p. \A l : [pc EXCEPT ![0] = l][0] = l
  BY <1>0, <1>t
<1>i. Files
  BY DEF SessionInv
<1>1. CASE SendParams \/ RecvCommitments \/ RecvAnswers
  <2>1. folder' = folder /\ pc[0] # "done" /\ pc'[0] # "done"
    BY <1>1, <1>p DEF SendParams, RecvCommitments, RecvAnswers, RecvFinished
  <2> QED
    BY <2>1, ArgumentKept
<1>2. CASE Setup
  <2>1. /\ folder' = [folder EXCEPT !.commitment_query = "new", !.input = [i \in Instances |-> "new"]]
        /\ pc[0] # "done" /\ pc'[0] # "done"
    BY <1>2, <1>p DEF Setup
  <2>2. /\ folder'.commitment = folder.commitment /\ folder'.answers = folder.answers
        /\ folder'.seed = folder.seed
    BY <1>t, <2>1 DEF Folder
  <2> QED
    BY <2>1, <2>2, ArgumentKept
<1>3. CASE CreatePlainQueries
  <2>1. /\ folder' = [folder EXCEPT !.consistency = "new"]
        /\ pc[0] # "done" /\ pc'[0] # "done"
    BY <1>3, <1>p DEF CreatePlainQueries
  <2>2. /\ folder'.commitment = folder.commitment /\ folder'.answers = folder.answers
        /\ folder'.seed = folder.seed
    BY <1>t, <2>1 DEF Folder
  <2> QED
    BY <2>1, <2>2, ArgumentKept
<1>4. CASE RunTests
  <2>1. folder' = folder /\ pc[0] # "done" /\ pc' = pc
    BY <1>4, StepRunTests DEF RunTests
  <2> QED
    BY <2>1, ArgumentKept
<1>5. CASE RevealSeed
  <2>1. /\ folder' = [folder EXCEPT !.seed = "new"]
        /\ pc[0] = "v_reveal" /\ pc'[0] = "v_plain"
    BY <1>5, <1>p DEF RevealSeed
  <2>2. /\ folder'.commitment = folder.commitment /\ folder'.answers = folder.answers
        /\ folder'.seed = "new"
    BY <1>t, <2>1 DEF Folder
  <2>3. folder.seed # "new"
    BY <1>i, <2>1 DEF Files, Revealed
  <2>4. {i \in Instances : folder.commitment[i] = "new"} = Instances
    BY <2>1, AllCommitted DEF New
  <2>5. Argument!Reveal
    BY <2>1, <2>2, <2>3, <2>4 DEF Argument!Reveal
  <2> QED
    BY <2>5 DEF Argument!AbsNext
<1>6. CASE Terminate
  <2>1. folder' = folder /\ result' = result /\ pc[0] = "v_test" /\ pc'[0] = "done"
    BY <1>6, <1>p DEF Terminate
  <2>2. {i \in Instances : folder.answers[i] = "new"} = Instances
    BY <2>1, AllAnswers DEF New
  <2>3. result
    BY <1>i DEF Files
  <2>4. Argument!Accept
    BY <2>1, <2>2, <2>3 DEF Argument!Accept
  <2> QED
    BY <2>4 DEF Argument!AbsNext
<1> QED
  BY <1>1, <1>2, <1>3, <1>4, <1>5, <1>6 DEF Verifier

\* A session, however its ranks interleave, is a run of the abstract argument: no
\* commitment after the seed is revealed, no answer before, and the verdict when
\* every instance of the batch is answered.
THEOREM SessionImplementsArgument == Spec => ImplementsArgument
<1>1. Init => Argument!AbsInit
  <2> SUFFICES ASSUME Init PROVE Argument!AbsInit
    OBVIOUS
  <2>1. /\ folder.seed # "new"
        /\ \A i \in Instances : folder.commitment[i] # "new" /\ folder.answers[i] # "new"
    BY DEF Init
  <2>2. pc[0] # "done"
    BY RankFacts DEF Init
  <2> QED
    BY <2>1, <2>2 DEF Argument!AbsInit
<1>2. TypeInv /\ ExcessRanksParked /\ SessionInv /\ [Next]_vars => [Argument!AbsNext]_(Argument!absVars)
  <2> SUFFICES ASSUME TypeInv, ExcessRanksParked, SessionInv, [Next]_vars
               PROVE  Argument!AbsNext \/ UNCHANGED Argument!absVars
    OBVIOUS
  <2>1. CASE Verifier
    BY <2>1, VerifierArgues
  <2>2. CASE \E r \in Provers : Prover(r)
    BY <2>2, ProverArgues
  <2>3. CASE UNCHANGED vars
    BY <2>3, ArgumentKept DEF vars
  <2> QED
    BY <2>1, <2>2, <2>3 DEF Next, Finished
<1> QED
  BY <1>1, <1>2, TypeInvAlways, ExcessRanksParkedAlways, SessionInvAlways, PTL
     DEF Spec, ImplementsArgument, Argument!AbsSpec

=============================================================================
