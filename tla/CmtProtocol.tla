------------------------------ MODULE CmtProtocol ------------------------------
(***************************************************************************)
(* The CMT-batching protocol over MPI: one verifier drives every prover    *)
(* through the layers of the arithmetic circuit.                           *)
(*                                                                         *)
(*   verifier  CMTCircuitVerifier::compute, CMTSumCheckVerifier::run       *)
(*   prover    CMTCircuitProver::run, CMTSumCheckProver::run, doMiniIP     *)
(*                                                                         *)
(* A broadcast is one step: the verifier's sends are buffered and go to    *)
(* queues that only their own prover reads, so the order of the sends of   *)
(* one broadcast cannot be observed.  A gather is one step per receive,    *)
(* since the verifier blocks on one prover at a time.                      *)
(*                                                                         *)
(* Field elements are abstracted to the outcome of the check they enter:   *)
(* an answer is "ok" when the verifier's check of it succeeds.  A prover   *)
(* in Faulty may compute values that fail; it still runs the code.         *)
(***************************************************************************)
EXTENDS Integers, Sequences, BatchPartition

CONSTANTS
    NumProvers,  \* nets.size(): every rank but the verifier's
    BatchSize,   \* instances in the batch
    Depth,       \* layers of the circuit, output layer first
    LogSize,     \* LogSize[l]: logSize() of layer l
    MagicSizes,  \* getMagicSize() of the circuits checked: auxiliary inputs of an instance
    Faulty       \* provers whose values may be wrong

Pids   == 0 .. NumProvers - 1
Layers == 0 .. Depth - 1

ASSUME CmtAssumption ==
    /\ NumProvers \in Nat \ {0}
    /\ BatchSize \in Nat \ {0}
    /\ Depth \in Nat \ {0}
    /\ LogSize \in [Layers -> Nat \ {0}]   \* log2i is at least 1
    /\ MagicSizes \subseteq Nat
    /\ Faulty \subseteq Pids

VARIABLES
    magicSize, \* getMagicSize() of the circuit both sides build
    vpc,      \* what the verifier is gathering
    at,       \* the prover the gather has reached
    layer,    \* the verifier's layer and sumcheck round
    round,
    got,      \* got[p]: the last answer taken from p
    verdict,  \* what compute returns
    toP,      \* toP[p]: messages sent to p and not yet received
    toV,      \* toV[p]: messages sent by p and not yet received
    ppc,      \* the loop each prover is in
    plevel,   \* plevel[p]: level of the prover's current layer
    pround,   \* pround[p]: the prover's own count of sumcheck rounds
    pbatch,   \* pbatch[p]: batchSize() of the configuration the prover holds
    circuits, \* circuits[p]: circuits the prover has built
    passed    \* history: the answers that passed their check

vvars == <<vpc, at, layer, round, got, verdict, passed>>
pvars == <<ppc, plevel, pround, pbatch, circuits>>
vars  == <<magicSize, vvars, pvars, toP, toV>>

-----------------------------------------------------------------------------
(* Requests, answers. *)

Requests == {"CONFIGURE", "BEGIN_CMT", "REQ_OUTPUTS", "NOTIFY_Z0", "BEGIN_LAYER",
             "REQ_SC_POLY", "REQ_VS", "REQ_LPOLY", "NOTIFY_LPOLY_EXTRAP_PT",
             "END_LAYER", "END_CMT"}
Asked    == {"REQ_OUTPUTS", "REQ_SC_POLY", "REQ_VS", "REQ_LPOLY"}

\* The body that matters: the range size of CONFIGURE, the level of BEGIN_LAYER.
Req(h, val) == [header |-> h, val |-> val]

\* An answer carries the header of its request, and says what it really holds:
\* the prover's level and round, and for REQ_OUTPUTS outputs or magics.
Answer == [header : Asked, what : {"outputs", "magics", "poly", "vs", "lpoly"},
           level : Nat, round : Nat, ok : BOOLEAN]

NumRounds(l) == LogSize[l] + 2 * LogSize[l + 1]

Instances(p) == EndInstance(BatchSize, NumProvers, p) - StartInstance(BatchSize, NumProvers, p)

\* The provers the verifier gathers from.
Workers == {p \in Pids : Instances(p) > 0}

Broadcast(msgs) == [p \in Pids |-> toP[p] \o msgs]

-----------------------------------------------------------------------------
(* main: a rank beyond the batch returns at once (rank is pid + 1).  The        *)
(* verifier still holds a client for it.                                        *)

Starts(p) == BatchSize >= p + 1

NoAnswer == [header |-> "REQ_OUTPUTS", what |-> "outputs", level |-> 0, round |-> 0, ok |-> TRUE]

Init ==
    /\ magicSize \in MagicSizes
    /\ vpc = "start" /\ at = 0 /\ layer = 0 /\ round = 0
    /\ got = [p \in Pids |-> NoAnswer]
    /\ verdict = "none"
    /\ toP = [p \in Pids |-> <<>>]
    /\ toV = [p \in Pids |-> <<>>]
    /\ ppc = [p \in Pids |-> IF Starts(p) THEN "run" ELSE "left"]
    /\ plevel = [p \in Pids |-> 0]
    /\ pround = [p \in Pids |-> 0]
    /\ pbatch = [p \in Pids |-> 0]
    /\ circuits = [p \in Pids |-> 0]
    /\ passed = {}

-----------------------------------------------------------------------------
(* The verifier. *)

\* What each gather waits for, and the header it waits under.
Header == [outputs |-> "REQ_OUTPUTS", magics |-> "REQ_OUTPUTS",
           poly |-> "REQ_SC_POLY", vs |-> "REQ_VS", lpoly |-> "REQ_LPOLY"]
Gathering == DOMAIN Header

\* compute, up to the distribution of the inputs: CONFIGURE, BEGIN_CMT,
\* REQ_OUTPUTS to every prover, whether it has instances or not.
Begin ==
    /\ vpc = "start"
    /\ toP' = [p \in Pids |-> toP[p] \o << Req("CONFIGURE", Instances(p)),
                                           Req("BEGIN_CMT", 0), Req("REQ_OUTPUTS", 0) >>]
    /\ vpc' = "outputs" /\ at' = 0
    /\ UNCHANGED <<layer, round, got, verdict, passed, toV, pvars>>

\* gather, one prover: skipped when it has no instances.
Skip ==
    /\ vpc \in Gathering /\ at \in Pids \ Workers
    /\ at' = at + 1
    /\ UNCHANGED <<vpc, layer, round, got, verdict, passed, toP, toV, pvars>>

\* Mutant: the first message is taken whatever its header.
MutTake ==
    /\ vpc \in Gathering /\ at \in Workers
    /\ toV[at] # <<>>
    /\ toV' = [toV EXCEPT ![at] = Tail(@)]
    /\ got' = [got EXCEPT ![at] = Head(toV[at])] /\ at' = at + 1
    /\ UNCHANGED <<vpc, layer, round, verdict, passed, toP, pvars>>

\* gather, one prover: waitForResponse drops messages until one carries the
\* header asked for.
Take ==
    /\ vpc \in Gathering /\ at \in Workers
    /\ toV[at] # <<>>
    /\ toV' = [toV EXCEPT ![at] = Tail(@)]
    /\ IF Head(toV[at]).header = Header[vpc]
         THEN got' = [got EXCEPT ![at] = Head(toV[at])] /\ at' = at + 1
         ELSE UNCHANGED <<got, at>>
    /\ UNCHANGED <<vpc, layer, round, verdict, passed, toP, pvars>>

Gathered(stage) == vpc = stage /\ at = NumProvers

\* Mutant: only the last prover's instances decide.
MutAllOk == LET last == CHOOSE p \in Workers : \A q \in Workers : q <= p IN got[last].ok

\* The loops over the instances stop at the first that fails.
AllOk == \A p \in Workers : got[p].ok

Record == passed' = passed \cup
              {<<got[p].what, got[p].level, got[p].round, p>> : p \in {q \in Workers : got[q].ok}}

\* Asks for round r of layer l, or for V1 and V2 after the last: the messages
\* and the stage in which their answers are gathered.
Ask(l, r) == IF r < NumRounds(l) THEN "poly" ELSE "vs"
AskMsgs(l, r) == << Req(Header[Ask(l, r)], 0) >>

\* The gather of the outputs is followed by that of the magics, under the same
\* header, unless there are none to gather.
OutputsIn ==
    /\ Gathered("outputs")
    /\ vpc' = "magics"
    /\ at' = IF magicSize = 0 THEN NumProvers ELSE 0
    /\ UNCHANGED <<layer, round, got, verdict, passed, toP, toV, pvars>>

\* Starts layer l, with its first request, after the messages msgs.
BeginLayer(l, msgs) ==
    /\ toP' = Broadcast(msgs \o << Req("BEGIN_LAYER", l) >> \o AskMsgs(l, 0))
    /\ vpc' = Ask(l, 0)
    /\ layer' = l /\ round' = 0 /\ at' = 0
    /\ UNCHANGED verdict

\* checkFinal: the last claims against the inputs; END_CMT in any case.
CheckFinal(msgs) ==
    /\ toP' = Broadcast(msgs \o << Req("END_CMT", 0) >>)
    /\ \E bad \in SUBSET (Faulty \cap Workers) :
         verdict' = IF bad = {} THEN "accept" ELSE "reject"
    /\ vpc' = "done"
    /\ UNCHANGED <<layer, round, at>>

\* initializeProtocol, then the first layer, if there is one.
MagicsIn ==
    /\ Gathered("magics")
    /\ IF Depth > 1 THEN BeginLayer(0, << Req("NOTIFY_Z0", 0) >>)
                    ELSE CheckFinal(<< Req("NOTIFY_Z0", 0) >>)
    /\ UNCHANGED <<got, passed, toV, pvars>>

\* Mutant: the protocol is ended without ending the layer.
MutReject ==
    /\ toP' = Broadcast(<< Req("END_CMT", 0) >>)
    /\ vpc' = "done" /\ verdict' = "reject"
    /\ UNCHANGED <<at, layer, round>>

\* A check failed: checkLevel ends the layer, compute ends the protocol.
Reject ==
    /\ toP' = Broadcast(<< Req("END_LAYER", 0), Req("END_CMT", 0) >>)
    /\ vpc' = "done" /\ verdict' = "reject"
    /\ UNCHANGED <<at, layer, round>>

\* Mutant: the last round is not asked for.
MutNextRound ==
    LET r == IF round + 2 >= NumRounds(layer) THEN NumRounds(layer) ELSE round + 1
    IN  /\ toP' = Broadcast(AskMsgs(layer, r))
        /\ vpc' = Ask(layer, r) /\ round' = r /\ at' = 0
        /\ UNCHANGED <<layer, verdict>>

NextRound ==
    /\ toP' = Broadcast(AskMsgs(layer, round + 1))
    /\ vpc' = Ask(layer, round + 1) /\ round' = round + 1 /\ at' = 0
    /\ UNCHANGED <<layer, verdict>>

\* CMTSumCheckVerifier::doRound after its gather.
PolyIn ==
    /\ Gathered("poly")
    /\ Record
    /\ IF AllOk THEN NextRound ELSE Reject
    /\ UNCHANGED <<got, toV, pvars>>

AskLpoly ==
    /\ toP' = Broadcast(<< Req("REQ_LPOLY", 0) >>)
    /\ vpc' = "lpoly" /\ at' = 0
    /\ UNCHANGED <<layer, round, verdict>>

\* CMTSumCheckVerifier::doFinalCheck after its gather.
VsIn ==
    /\ Gathered("vs")
    /\ Record
    /\ IF AllOk THEN AskLpoly ELSE Reject
    /\ UNCHANGED <<got, toV, pvars>>

\* The end of checkLevel, and what compute does next.
LpolyIn ==
    /\ Gathered("lpoly")
    /\ Record
    /\ LET notify == << Req("NOTIFY_LPOLY_EXTRAP_PT", 0) >>
       IN  IF ~AllOk THEN Reject
           ELSE IF layer + 1 < Depth - 1 THEN BeginLayer(layer + 1, notify)
           ELSE CheckFinal(notify)
    /\ UNCHANGED <<got, toV, pvars>>

Verifier ==
    /\ Begin \/ Skip \/ Take \/ OutputsIn \/ MagicsIn \/ PolyIn \/ VsIn \/ LpolyIn
    /\ UNCHANGED magicSize

-----------------------------------------------------------------------------
(* The provers. *)

Receives(p, h) == toP[p] # <<>> /\ Head(toP[p]).header = h

Consume(p) == toP' = [toP EXCEPT ![p] = Tail(@)]

\* A prover in Faulty may compute anything.
Sends(p, whats) ==
    \E ok \in (IF p \in Faulty THEN BOOLEAN ELSE {TRUE}) :
       toV' = [toV EXCEPT ![p] = @ \o
                 [i \in DOMAIN whats |-> [header |-> Header[whats[i]], what |-> whats[i],
                                          level |-> plevel[p], round |-> pround[p], ok |-> ok]]]

Goto(p, where) == ppc' = [ppc EXCEPT ![p] = where]

\* CMTCircuitProver::run, the outer loop, by header.
EndCmt(p) ==
    /\ ppc[p] = "run" /\ Receives(p, "END_CMT") /\ Consume(p)
    /\ Goto(p, "exit")
    /\ UNCHANGED <<plevel, pround, pbatch, circuits, toV, vvars>>

Configure(p) ==
    /\ ppc[p] = "run" /\ Receives(p, "CONFIGURE") /\ Consume(p)
    /\ pbatch' = [pbatch EXCEPT ![p] = Head(toP[p]).val]
    /\ UNCHANGED <<ppc, plevel, pround, circuits, toV, vvars>>

\* initProtocol: one circuit per instance.
InitProtocol(p) ==
    /\ ppc[p] = "run" /\ Receives(p, "BEGIN_CMT") /\ Consume(p)
    /\ circuits' = [circuits EXCEPT ![p] = pbatch[p]]
    /\ UNCHANGED <<ppc, plevel, pround, pbatch, toV, vvars>>

\* Evaluates the instances; outputs and magics go back under the same header.
Evaluate(p) ==
    /\ ppc[p] = "run" /\ Receives(p, "REQ_OUTPUTS") /\ Consume(p)
    /\ Sends(p, << "outputs", "magics" >>)
    /\ UNCHANGED <<ppc, plevel, pround, pbatch, circuits, vvars>>

\* doRound, up to the sumcheck loop; a level without a next layer is refused.
StartLayer(p) ==
    /\ ppc[p] = "run" /\ Receives(p, "BEGIN_LAYER") /\ Consume(p)
    /\ LET l == Head(toP[p]).val
       IN  IF l >= Depth - 1
             THEN UNCHANGED <<ppc, plevel, pround>>
             ELSE /\ Goto(p, "sumcheck")
                  /\ plevel' = [plevel EXCEPT ![p] = l]
                  /\ pround' = [pround EXCEPT ![p] = 0]
    /\ UNCHANGED <<pbatch, circuits, toV, vvars>>

-----------------------------------------------------------------------------
(* CMTSumCheckProver::run. *)

\* run returns round >= numRounds(); doRound goes on to doMiniIP or gives up.
LeaveSumcheck(p) ==
    Goto(p, IF pround[p] >= NumRounds(plevel[p]) THEN "miniIP" ELSE "exit")

\* END_LAYER leaves the loop by the same test as the end of the rounds.
SumcheckEnd(p) ==
    /\ ppc[p] = "sumcheck" /\ Receives(p, "END_LAYER") /\ Consume(p)
    /\ LeaveSumcheck(p)
    /\ UNCHANGED <<plevel, pround, pbatch, circuits, toV, vvars>>

\* Mutant: the prover does not count its rounds.
MutSumcheckPoly(p) ==
    /\ ppc[p] = "sumcheck" /\ Receives(p, "REQ_SC_POLY") /\ Consume(p)
    /\ Sends(p, << "poly" >>)
    /\ UNCHANGED <<ppc, plevel, pround, pbatch, circuits, vvars>>

\* A round beyond the last is counted but not answered.
SumcheckPoly(p) ==
    /\ ppc[p] = "sumcheck" /\ Receives(p, "REQ_SC_POLY") /\ Consume(p)
    /\ IF pround[p] >= NumRounds(plevel[p]) THEN UNCHANGED toV ELSE Sends(p, << "poly" >>)
    /\ pround' = [pround EXCEPT ![p] = @ + 1]
    /\ UNCHANGED <<ppc, plevel, pbatch, circuits, vvars>>

\* V1 and V2 are answered even when asked for too early, with a warning.
SumcheckVs(p) ==
    /\ ppc[p] = "sumcheck" /\ Receives(p, "REQ_VS") /\ Consume(p)
    /\ Sends(p, << "vs" >>)
    /\ LeaveSumcheck(p)
    /\ UNCHANGED <<plevel, pround, pbatch, circuits, vvars>>

-----------------------------------------------------------------------------
(* CMTCircuitProver::doMiniIP. *)

\* The layer failed: doRound returns false and run exits, END_CMT unread.
MiniIPEnd(p) ==
    /\ ppc[p] = "miniIP" /\ Receives(p, "END_LAYER") /\ Consume(p)
    /\ Goto(p, "exit")
    /\ UNCHANGED <<plevel, pround, pbatch, circuits, toV, vvars>>

MiniIPLpoly(p) ==
    /\ ppc[p] = "miniIP" /\ Receives(p, "REQ_LPOLY") /\ Consume(p)
    /\ Sends(p, << "lpoly" >>)
    /\ UNCHANGED <<pvars, vvars>>

\* "Implicit END_LAYER": back to the outer loop.
MiniIPNotify(p) ==
    /\ ppc[p] = "miniIP" /\ Receives(p, "NOTIFY_LPOLY_EXTRAP_PT") /\ Consume(p)
    /\ Goto(p, "run")
    /\ UNCHANGED <<plevel, pround, pbatch, circuits, toV, vvars>>

-----------------------------------------------------------------------------

\* The headers each loop acts on.
Handled == [run      |-> {"END_CMT", "CONFIGURE", "BEGIN_CMT", "REQ_OUTPUTS", "BEGIN_LAYER"},
            sumcheck |-> {"END_LAYER", "REQ_SC_POLY", "REQ_VS"},
            miniIP   |-> {"END_LAYER", "REQ_LPOLY", "NOTIFY_LPOLY_EXTRAP_PT"}]

\* NOTIFY_Z0 sets the first point, which is data; any other header is dropped.
Ignore(p) ==
    /\ ppc[p] \in DOMAIN Handled /\ toP[p] # <<>>
    /\ Head(toP[p]).header \notin Handled[ppc[p]]
    /\ Consume(p)
    /\ UNCHANGED <<pvars, toV, vvars>>

Prover(p) ==
    /\ \/ EndCmt(p) \/ Configure(p) \/ InitProtocol(p) \/ Evaluate(p) \/ StartLayer(p)
       \/ SumcheckEnd(p) \/ SumcheckPoly(p) \/ SumcheckVs(p)
       \/ MiniIPEnd(p) \/ MiniIPLpoly(p) \/ MiniIPNotify(p)
       \/ Ignore(p)
    /\ UNCHANGED magicSize

Next == Verifier \/ \E p \in Pids : Prover(p)

Spec == Init /\ [][Next]_vars

\* A rank that can take its next step takes it: every wait in the code is a
\* blocking MPI call and every rank is an operating-system process.
Fairness == WF_vars(Verifier) /\ \A p \in Pids : WF_vars(Prover(p))

FairSpec == Spec /\ Fairness

-----------------------------------------------------------------------------
(* Properties. *)

\* An answer the verifier has taken is the answer to the request it is working
\* on, whatever else was in the queue: waitForResponse matches headers only, the
\* outputs and the magics share one, and rounds are counted on both sides.
FreshAnswers ==
    vpc \in Gathering /\ ~(vpc = "magics" /\ magicSize = 0) =>
        \A p \in Workers : p < at =>
            /\ got[p].what = vpc
            /\ vpc \in {"poly", "vs", "lpoly"} => got[p].level = layer
            /\ vpc = "poly" => got[p].round = round

\* The checks of a complete protocol.
Checks == UNION {   {<<"poly", l, r, p>> : r \in 0 .. NumRounds(l) - 1, p \in Workers}
                 \cup {<<w, l, NumRounds(l), p>> : w \in {"vs", "lpoly"}, p \in Workers}
                 : l \in 0 .. Depth - 2}

\* compute accepts only when every round of every layer passed its check for
\* every prover that holds instances.
AcceptedMeansChecked == verdict = "accept" => Checks \subseteq passed

\* The verifier never blocks on a prover that will not answer: with nothing
\* queued, the prover is in one of its loops and still has a request to read.
WaitIsAnswered ==
    vpc \in Gathering /\ at \in Workers /\ toV[at] = <<>> =>
        ppc[at] \in {"run", "sumcheck", "miniIP"} /\ toP[at] # <<>>

\* The check that failed was that of a layer's last sumcheck round.
FailedInLastRound == verdict = "reject" /\ layer < Depth - 1 /\ round = NumRounds(layer) - 1

\* compute returns, and every prover with work leaves run(), unless a check
\* failed in the last round of a sumcheck.
ProversExit ==
    /\ <>(vpc = "done")
    /\ \A p \in Pids : Starts(p) => <>(ppc[p] = "exit" \/ FailedInLastRound)

\* When no check fails, compute accepts, every prover with work leaves run(),
\* and every message to and from it has been read.
HonestAccepted ==
    [](verdict # "reject") =>
      <>[](/\ verdict = "accept"
           /\ \A p \in Pids : Starts(p) => ppc[p] = "exit" /\ toP[p] = <<>> /\ toV[p] = <<>>)

=============================================================================
