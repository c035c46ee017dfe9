--------------------------- MODULE CmtProtocolProofs ---------------------------
(***************************************************************************)
(* Proofs about CmtProtocol for every number of provers, batch size,       *)
(* circuit depth and layer sizes, and whichever provers are faulty.        *)
(*                                                                         *)
(* None of the three properties is inductive.  The invariant CmtInv says   *)
(* where the conversation of the verifier with each worker stands: what of *)
(* the last broadcast the worker has still to read, which loop it is in    *)
(* meanwhile, and what the verifier will find in its queue.                *)
(***************************************************************************)
EXTENDS CmtProtocol, ArithmeticLemmas, SequenceTheorems, TLAPS

-----------------------------------------------------------------------------
(* The inductive invariant. *)

Layered == {"poly", "vs", "lpoly"}

\* Answer a is the one to the request for w at layer l and round r.
Fresh(a, w, l, r) ==
    /\ a.header = Header[w] /\ a.what = w
    /\ w \in Layered => a.level = l /\ a.round = r

\* Nothing in q answers the request for w ...
Stale(q, w) == \A i \in 1 .. Len(q) : q[i].header # Header[w]

\* ... or only its last element does.
Holds(q, w, l, r) ==
    /\ Len(q) >= 1 /\ Fresh(q[Len(q)], w, l, r)
    /\ \A i \in 1 .. Len(q) - 1 : q[i].header # Header[w]

\* The queue holds nothing but the magics.
OnlyMagics(q) == Len(q) = 1 /\ Fresh(q[1], "magics", 0, 0)

\* Both answers to REQ_OUTPUTS.
OutputsAndMagics(q) ==
    Len(q) = 2 /\ Fresh(q[1], "outputs", 0, 0) /\ Fresh(q[2], "magics", 0, 0)

\* What a worker still has to read, and the loop that reads it.
UnreadOutputs(p) ==
    /\ ppc[p] = "run"
    /\ \/ toP[p] = << Req("CONFIGURE", Instances(p)), Req("BEGIN_CMT", 0), Req("REQ_OUTPUTS", 0) >>
       \/ toP[p] = << Req("BEGIN_CMT", 0), Req("REQ_OUTPUTS", 0) >>
       \/ toP[p] = << Req("REQ_OUTPUTS", 0) >>

UnreadPoly(p) ==
    \/ /\ ppc[p] = "sumcheck" /\ plevel[p] = layer /\ pround[p] = round
       /\ toP[p] = << Req("REQ_SC_POLY", 0) >>
    \/ /\ round = 0 /\ ppc[p] = "run"
       /\ \/ toP[p] = << Req("NOTIFY_Z0", 0), Req("BEGIN_LAYER", layer), Req("REQ_SC_POLY", 0) >>
          \/ toP[p] = << Req("BEGIN_LAYER", layer), Req("REQ_SC_POLY", 0) >>
    \/ /\ round = 0 /\ ppc[p] = "miniIP"
       /\ toP[p] = << Req("NOTIFY_LPOLY_EXTRAP_PT", 0), Req("BEGIN_LAYER", layer),
                      Req("REQ_SC_POLY", 0) >>

UnreadVs(p) ==
    /\ ppc[p] = "sumcheck" /\ plevel[p] = layer /\ pround[p] = round
    /\ toP[p] = << Req("REQ_VS", 0) >>

UnreadLpoly(p) ==
    /\ ppc[p] = "miniIP" /\ plevel[p] = layer /\ pround[p] = round
    /\ toP[p] = << Req("REQ_LPOLY", 0) >>

\* Where a worker is that has answered.
AnsweredPoly(p)  == /\ ppc[p] = "sumcheck" /\ plevel[p] = layer /\ pround[p] = round + 1
                    /\ toP[p] = <<>>
AnsweredLayer(p) == /\ ppc[p] = "miniIP" /\ plevel[p] = layer /\ pround[p] = round
                    /\ toP[p] = <<>>
AnsweredOutputs(p) == ppc[p] = "run" /\ toP[p] = <<>>

Unread(p, w) ==
    \/ w = "poly" /\ UnreadPoly(p)
    \/ w = "vs" /\ UnreadVs(p)
    \/ w = "lpoly" /\ UnreadLpoly(p)

Answered(p, w) ==
    \/ w = "poly" /\ AnsweredPoly(p)
    \/ w \in {"vs", "lpoly"} /\ AnsweredLayer(p)

\* The conversation with worker p in each stage of the verifier.
OutputsStage(p) ==
    IF p < at THEN AnsweredOutputs(p) /\ OnlyMagics(toV[p]) /\ Fresh(got[p], "outputs", 0, 0)
    ELSE \/ UnreadOutputs(p) /\ toV[p] = <<>>
         \/ AnsweredOutputs(p) /\ OutputsAndMagics(toV[p])

MagicsStage(p) ==
    /\ AnsweredOutputs(p)
    /\ IF p < at /\ magicSize # 0
         THEN toV[p] = <<>> /\ Fresh(got[p], "magics", 0, 0)
         ELSE OnlyMagics(toV[p])

LayerStage(p) ==
    IF p < at THEN Answered(p, vpc) /\ toV[p] = <<>> /\ Fresh(got[p], vpc, layer, round)
    ELSE \/ Unread(p, vpc) /\ Stale(toV[p], vpc)
         \/ Answered(p, vpc) /\ Holds(toV[p], vpc, layer, round)

Conversation(p) ==
    /\ vpc = "start" => ppc[p] = "run" /\ toP[p] = <<>> /\ toV[p] = <<>>
    /\ vpc = "outputs" => OutputsStage(p)
    /\ vpc = "magics" => MagicsStage(p)
    /\ vpc \in Layered => LayerStage(p)

\* The layer and the round the verifier is in.
Place ==
    /\ at \in 0 .. NumProvers /\ layer \in Nat /\ round \in Nat /\ magicSize \in Nat
    /\ vpc \in {"start", "outputs", "magics"} => layer = 0 /\ round = 0
    /\ vpc = "magics" /\ magicSize = 0 => at = NumProvers
    /\ vpc \in Layered => layer < Depth - 1
    /\ vpc = "poly" => round < NumRounds(layer)
    /\ vpc \in {"vs", "lpoly"} => round = NumRounds(layer)
    /\ vpc # "done" => verdict = "none"

\* The checks that are behind the verifier.
LayerPassed(l) ==
    \A p \in Workers : /\ \A r \in 0 .. NumRounds(l) - 1 : <<"poly", l, r, p>> \in passed
                       /\ <<"vs", l, NumRounds(l), p>> \in passed
                       /\ <<"lpoly", l, NumRounds(l), p>> \in passed

ChecksBehind ==
    /\ vpc \in Layered =>
         /\ \A l \in 0 .. layer - 1 : LayerPassed(l)
         /\ \A p \in Workers :
              /\ \A r \in 0 .. round - 1 : <<"poly", layer, r, p>> \in passed
              /\ vpc = "lpoly" => <<"vs", layer, round, p>> \in passed
    /\ verdict = "accept" => \A l \in 0 .. Depth - 2 : LayerPassed(l)

\* Requests and answers as they lie in the queues.
RequestSet == [header : Requests, val : Int]
AnswerSet  == [header : Asked, what : Gathering, level : Int, round : Int, ok : BOOLEAN]

CmtType ==
    /\ vpc \in {"start", "done"} \cup Gathering
    /\ verdict \in {"none", "accept", "reject"}
    /\ got \in [Pids -> AnswerSet]
    /\ toP \in [Pids -> Seq(RequestSet)]
    /\ toV \in [Pids -> Seq(AnswerSet)]
    /\ ppc \in [Pids -> {"run", "left", "sumcheck", "miniIP", "exit"}]
    /\ plevel \in [Pids -> Int] /\ pround \in [Pids -> Int]
    /\ pbatch \in [Pids -> Int]

CmtInv == CmtType /\ Place /\ ChecksBehind /\ \A p \in Workers : Conversation(p)

-----------------------------------------------------------------------------
(* Constants and queues. *)

\* The header of each answer; a record is looked up by name.
LEMMA HeaderOf ==
    /\ Gathering = {"outputs", "magics", "poly", "vs", "lpoly"}
    /\ Header["outputs"] = "REQ_OUTPUTS" /\ Header["magics"] = "REQ_OUTPUTS"
    /\ Header["poly"] = "REQ_SC_POLY" /\ Header["vs"] = "REQ_VS" /\ Header["lpoly"] = "REQ_LPOLY"
  BY DEF Header, Gathering

LEMMA HandledBy ==
    /\ DOMAIN Handled = {"run", "sumcheck", "miniIP"}
    /\ Handled["run"] = {"END_CMT", "CONFIGURE", "BEGIN_CMT", "REQ_OUTPUTS", "BEGIN_LAYER"}
    /\ Handled["sumcheck"] = {"END_LAYER", "REQ_SC_POLY", "REQ_VS"}
    /\ Handled["miniIP"] = {"END_LAYER", "REQ_LPOLY", "NOTIFY_LPOLY_EXTRAP_PT"}
  BY DEF Handled

\* The verifier gathers only from ranks that did not leave main at once.
LEMMA WorkersStart ==
    /\ Workers \subseteq Pids
    /\ \A p \in Workers : Starts(p)
    /\ \A p \in Pids : p \in Int /\ p < NumProvers /\ Instances(p) \in Int
<1>1. ASSUME NEW p \in Pids
      PROVE  /\ p \in Int /\ p < NumProvers /\ Instances(p) \in Int
             /\ Instances(p) > 0 => Starts(p)
  <2>1. /\ BatchSize \in Nat /\ NumProvers \in Nat \ {0} /\ p \in 0 .. NumProvers - 1
    BY CmtAssumption DEF Pids
  <2>2. /\ StartInstance(BatchSize, NumProvers, p) \in Nat
        /\ EndInstance(BatchSize, NumProvers, p) \in Nat
        /\ EndInstance(BatchSize, NumProvers, p) <= StartInstance(BatchSize, NumProvers, p)
             <=> BatchSize < p + 1
    BY <2>1, CmtInside
  <2> QED
    BY <2>1, <2>2 DEF Instances, Starts
<1> QED
  BY <1>1 DEF Workers

\* Every sumcheck has a round.
LEMMA RoundsPositive ==
    ASSUME NEW l \in Nat, l < Depth - 1
    PROVE  NumRounds(l) \in Nat /\ NumRounds(l) >= 1
<1>1. l \in Layers /\ l + 1 \in Layers
  BY CmtAssumption DEF Layers
<1>2. LogSize[l] \in Nat \ {0} /\ LogSize[l + 1] \in Nat \ {0}
  BY <1>1, CmtAssumption
<1> QED
  BY <1>2 DEF NumRounds

\* Requests in a queue of at most three.
LEMMA ShortQueues ==
    ASSUME NEW a, NEW b, NEW c
    PROVE  /\ Head(<< a >>) = a /\ Tail(<< a >>) = << >> /\ << a >> # << >>
           /\ Head(<< a, b >>) = a /\ Tail(<< a, b >>) = << b >> /\ << a, b >> # << >>
           /\ Head(<< a, b, c >>) = a /\ Tail(<< a, b, c >>) = << b, c >> /\ << a, b, c >> # << >>
           /\ << >> \o << a >> = << a >> /\ << >> \o << a, b >> = << a, b >>
           /\ << >> \o << a, b, c >> = << a, b, c >>
  OBVIOUS

LEMMA Joined ==
    ASSUME NEW a, NEW b, NEW c
    PROVE  /\ << a >> \o << b >> = << a, b >>
           /\ << a >> \o << b >> \o << c >> = << a, b, c >>
<1> DEFINE S == {a, b, c}
<1>1. << a >> \o << b >> = << a, b >>
  <2> DEFINE u == << a >> \o << b >>
             v == << a, b >>
  <2>1. u \in Seq(S) /\ Len(u) = 2 /\ u[1] = a /\ u[2] = b
    OBVIOUS
  <2>2. v \in Seq(S) /\ Len(v) = 2 /\ v[1] = a /\ v[2] = b
    OBVIOUS
  <2> HIDE DEF u, v, S
  <2>3. \A i \in 1 .. 2 : u[i] = v[i]
    BY <2>1, <2>2
  <2>4. u = v
    BY <2>1, <2>2, <2>3, SeqEqual
  <2> QED
    BY <2>4 DEF u, v
<1>2. << a, b >> \o << c >> = << a, b, c >>
  <2> DEFINE u == << a, b >> \o << c >>
             v == << a, b, c >>
  <2>1. u \in Seq(S) /\ Len(u) = 3 /\ u[1] = a /\ u[2] = b /\ u[3] = c
    OBVIOUS
  <2>2. v \in Seq(S) /\ Len(v) = 3 /\ v[1] = a /\ v[2] = b /\ v[3] = c
    OBVIOUS
  <2> HIDE DEF u, v, S
  <2>3. \A i \in 1 .. 3 : u[i] = v[i]
    BY <2>1, <2>2
  <2>4. u = v
    BY <2>1, <2>2, <2>3, SeqEqual
  <2> QED
    BY <2>4 DEF u, v
<1> QED
  BY <1>1, <1>2

LEMMA RequestType ==
    /\ \A h \in Requests, v \in Int : Req(h, v) \in RequestSet
    /\ \A h, v : Req(h, v).header = h /\ Req(h, v).val = v
  BY DEF Req, RequestSet

\* Answers in a queue.
LEMMA StaleTail ==
    ASSUME NEW q \in Seq(AnswerSet), NEW w, Stale(q, w), q # << >>
    PROVE  Head(q).header # Header[w] /\ Stale(Tail(q), w)
<1>1. Len(q) \in Nat /\ Len(q) >= 1 /\ Len(Tail(q)) = Len(q) - 1 /\ Head(q) = q[1]
  OBVIOUS
<1>2. \A i \in 1 .. Len(Tail(q)) : Tail(q)[i] = q[i + 1]
  OBVIOUS
<1>3. \A i \in 1 .. Len(Tail(q)) : i + 1 \in 1 .. Len(q)
  BY <1>1
<1> QED
  BY <1>1, <1>2, <1>3 DEF Stale

LEMMA StaleAppend ==
    ASSUME NEW q \in Seq(AnswerSet), NEW w, NEW l, NEW r, Stale(q, w),
           NEW a \in AnswerSet, Fresh(a, w, l, r)
    PROVE  Holds(q \o << a >>, w, l, r)
<1> DEFINE s == q \o << a >>
<1>1. Len(q) \in Nat /\ Len(s) = Len(q) + 1 /\ s[Len(q) + 1] = a
      /\ \A i \in 1 .. Len(q) : s[i] = q[i]
  OBVIOUS
<1> HIDE DEF s
<1>2. \A i \in 1 .. Len(s) - 1 : s[i].header # Header[w]
  BY <1>1 DEF Stale
<1>3. Holds(s, w, l, r)
  BY <1>1, <1>2 DEF Holds
<1> QED
  BY <1>3 DEF s

\* Once the answer is in the queue, waitForResponse takes it last.
LEMMA HoldsTail ==
    ASSUME NEW q \in Seq(AnswerSet), NEW w, NEW l, NEW r, Holds(q, w, l, r)
    PROVE  /\ q # << >>
           /\ IF Head(q).header = Header[w] THEN Fresh(Head(q), w, l, r) /\ Tail(q) = << >>
                                            ELSE Holds(Tail(q), w, l, r)
<1>1. q # << >> /\ Len(q) \in Nat /\ Len(q) >= 1
  BY DEF Holds
<1>2. Len(Tail(q)) = Len(q) - 1 /\ Head(q) = q[1] /\ Tail(q) \in Seq(AnswerSet)
  BY <1>1
<1>3. \A i \in 1 .. Len(Tail(q)) : Tail(q)[i] = q[i + 1]
  BY <1>1
<1>4. CASE Len(q) = 1
  <2>0. Tail(q) = << >>
    <3>1. Len(Tail(q)) = 0
      BY <1>2, <1>4
    <3> QED
      BY <1>2, <3>1, EmptySeq
  <2>1. Tail(q) = << >> /\ Fresh(Head(q), w, l, r)
    BY <1>2, <1>4, <2>0 DEF Holds
  <2> QED
    BY <1>1, <2>1 DEF Fresh
<1>5. CASE Len(q) > 1
  <2>1. 1 \in 1 .. Len(q) - 1
    BY <1>1, <1>5
  <2>2. Head(q).header # Header[w]
    BY <1>2, <2>1 DEF Holds
  <2>3. Len(Tail(q)) \in 1 .. Len(Tail(q)) /\ Len(Tail(q)) + 1 = Len(q) /\ Len(Tail(q)) >= 1
    BY <1>1, <1>2, <1>5
  <2>4. Tail(q)[Len(Tail(q))] = q[Len(q)]
    BY <1>3, <2>3
  <2>5. \A i \in 1 .. Len(Tail(q)) - 1 : i \in 1 .. Len(Tail(q)) /\ i + 1 \in 1 .. Len(q) - 1
    BY <1>1, <1>2
  <2>6. \A i \in 1 .. Len(Tail(q)) - 1 : Tail(q)[i].header # Header[w]
    BY <1>3, <2>5 DEF Holds
  <2>7. Holds(Tail(q), w, l, r)
    BY <2>3, <2>4, <2>6 DEF Holds
  <2> QED
    BY <1>1, <2>2, <2>7
<1>6. Len(q) = 1 \/ Len(q) > 1
  <2>1. \A n \in Nat : n >= 1 => n = 1 \/ n > 1
    OBVIOUS
  <2> QED
    BY <1>1, <2>1
<1> QED
  BY <1>4, <1>5, <1>6

-----------------------------------------------------------------------------
(* Steps of the provers. *)

\* An answer as Sends builds it.
Ans(w, l, r, ok) == [header |-> Header[w], what |-> w, level |-> l, round |-> r, ok |-> ok]

LEMMA AnswerType ==
    ASSUME NEW w \in Gathering, NEW l \in Int, NEW r \in Int, NEW ok \in BOOLEAN
    PROVE  Ans(w, l, r, ok) \in AnswerSet /\ Fresh(Ans(w, l, r, ok), w, l, r)
<1>1. Header[w] \in Asked
  BY HeaderOf DEF Asked
<1> QED
  BY <1>1 DEF Ans, AnswerSet, Fresh

LEMMA SendsOne ==
    ASSUME NEW p \in Pids, NEW w, Sends(p, << w >>)
    PROVE  \E ok \in BOOLEAN :
             toV' = [toV EXCEPT ![p] = toV[p] \o << Ans(w, plevel[p], pround[p], ok) >>]
<1>1. PICK ok \in BOOLEAN :
        toV' = [toV EXCEPT ![p] = @ \o
                 [i \in DOMAIN << w >> |-> [header |-> Header[<< w >>[i]], what |-> << w >>[i],
                                          level |-> plevel[p], round |-> pround[p], ok |-> ok]]]
  BY DEF Sends
<1>2. [i \in DOMAIN << w >> |-> [header |-> Header[<< w >>[i]], what |-> << w >>[i],
                                 level |-> plevel[p], round |-> pround[p], ok |-> ok]]
        = << Ans(w, plevel[p], pround[p], ok) >>
  BY DEF Ans
<1> QED
  BY <1>1, <1>2

LEMMA SendsTwo ==
    ASSUME NEW p \in Pids, NEW w, NEW v, Sends(p, << w, v >>)
    PROVE  \E ok \in BOOLEAN :
             toV' = [toV EXCEPT ![p] = toV[p] \o << Ans(w, plevel[p], pround[p], ok),
                                                    Ans(v, plevel[p], pround[p], ok) >>]
<1>1. PICK ok \in BOOLEAN :
        toV' = [toV EXCEPT ![p] = @ \o
                 [i \in DOMAIN << w, v >> |-> [header |-> Header[<< w, v >>[i]], what |-> << w, v >>[i],
                                          level |-> plevel[p], round |-> pround[p], ok |-> ok]]]
  BY DEF Sends
<1>2. [i \in DOMAIN << w, v >> |-> [header |-> Header[<< w, v >>[i]], what |-> << w, v >>[i],
                                    level |-> plevel[p], round |-> pround[p], ok |-> ok]]
        = << Ans(w, plevel[p], pround[p], ok), Ans(v, plevel[p], pround[p], ok) >>
  BY DEF Ans
<1> QED
  BY <1>1, <1>2

\* A step of a prover reads one message and leaves the others' state, and the
\* verifier's, alone.
ReadsOne(p) ==
    /\ toP[p] # << >> /\ toP' = [toP EXCEPT ![p] = Tail(toP[p])]
    /\ vvars' = vvars /\ magicSize' = magicSize
    /\ \A q \in Pids \ {p} : /\ toP'[q] = toP[q] /\ toV'[q] = toV[q] /\ ppc'[q] = ppc[q]
                             /\ plevel'[q] = plevel[q] /\ pround'[q] = pround[q]

LEMMA ProverFrame ==
    ASSUME CmtType, NEW p \in Pids, Prover(p)
    PROVE  CmtType' /\ ReadsOne(p)
<1> USE DEF CmtType
<1>1. toP[p] # << >> /\ toP' = [toP EXCEPT ![p] = Tail(toP[p])] /\ magicSize' = magicSize
  BY DEF Prover, EndCmt, Configure, InitProtocol, Evaluate, StartLayer, SumcheckEnd, SumcheckPoly,
         SumcheckVs, MiniIPEnd, MiniIPLpoly, MiniIPNotify, Ignore, Receives, Consume
<1>2. vvars' = vvars
  BY DEF Prover, EndCmt, Configure, InitProtocol, Evaluate, StartLayer, SumcheckEnd, SumcheckPoly,
         SumcheckVs, MiniIPEnd, MiniIPLpoly, MiniIPNotify, Ignore, vvars
<1>3. Head(toP[p]) \in RequestSet /\ toP' \in [Pids -> Seq(RequestSet)]
      /\ \A q \in Pids \ {p} : toP'[q] = toP[q]
  BY <1>1
<1>4. toV' \in [Pids -> Seq(AnswerSet)] /\ \A q \in Pids \ {p} : toV'[q] = toV[q]
  <2>1. CASE Evaluate(p)
    <3>1. PICK ok \in BOOLEAN :
            toV' = [toV EXCEPT ![p] = toV[p] \o << Ans("outputs", plevel[p], pround[p], ok),
                                                   Ans("magics", plevel[p], pround[p], ok) >>]
      BY <2>1, SendsTwo DEF Evaluate
    <3>2. /\ Ans("outputs", plevel[p], pround[p], ok) \in AnswerSet
          /\ Ans("magics", plevel[p], pround[p], ok) \in AnswerSet
      BY AnswerType, HeaderOf
    <3>3. toV[p] \o << Ans("outputs", plevel[p], pround[p], ok),
                       Ans("magics", plevel[p], pround[p], ok) >> \in Seq(AnswerSet)
      BY <3>2
    <3> QED
      BY <3>1, <3>3
  <2>2. ASSUME NEW w \in {"poly", "vs", "lpoly"}, Sends(p, << w >>)
        PROVE  toV' \in [Pids -> Seq(AnswerSet)] /\ \A q \in Pids \ {p} : toV'[q] = toV[q]
    <3>1. PICK ok \in BOOLEAN :
            toV' = [toV EXCEPT ![p] = toV[p] \o << Ans(w, plevel[p], pround[p], ok) >>]
      BY <2>2, SendsOne
    <3>2. Ans(w, plevel[p], pround[p], ok) \in AnswerSet
      BY AnswerType, HeaderOf
    <3>3. toV[p] \o << Ans(w, plevel[p], pround[p], ok) >> \in Seq(AnswerSet)
      BY <3>2
    <3> QED
      BY <3>1, <3>3
  <2>3. \/ toV' = toV \/ Evaluate(p) \/ \E w \in {"poly", "vs", "lpoly"} : Sends(p, << w >>)
    BY DEF Prover, EndCmt, Configure, InitProtocol, StartLayer, SumcheckEnd, SumcheckPoly,
           SumcheckVs, MiniIPEnd, MiniIPLpoly, MiniIPNotify, Ignore
  <2> QED
    BY <2>1, <2>2, <2>3
<1>5. /\ ppc' \in [Pids -> {"run", "left", "sumcheck", "miniIP", "exit"}]
      /\ \A q \in Pids \ {p} : ppc'[q] = ppc[q]
  <2>1. \/ ppc' = ppc
        \/ \E c \in {"run", "left", "sumcheck", "miniIP", "exit"} : ppc' = [ppc EXCEPT ![p] = c]
    BY DEF Prover, EndCmt, Configure, InitProtocol, Evaluate, StartLayer, SumcheckEnd, SumcheckPoly,
           SumcheckVs, MiniIPEnd, MiniIPLpoly, MiniIPNotify, Ignore, Goto, LeaveSumcheck, pvars
  <2> QED
    BY <2>1
<1>6. plevel' = plevel \/ plevel' = [plevel EXCEPT ![p] = Head(toP[p]).val]
  BY DEF Prover, EndCmt, Configure, InitProtocol, Evaluate, StartLayer, SumcheckEnd, SumcheckPoly,
         SumcheckVs, MiniIPEnd, MiniIPLpoly, MiniIPNotify, Ignore, pvars
<1>7. \/ pround' = pround \/ pround' = [pround EXCEPT ![p] = 0]
      \/ pround' = [pround EXCEPT ![p] = pround[p] + 1]
  BY DEF Prover, EndCmt, Configure, InitProtocol, Evaluate, StartLayer, SumcheckEnd, SumcheckPoly,
         SumcheckVs, MiniIPEnd, MiniIPLpoly, MiniIPNotify, Ignore, pvars
<1>8. pbatch' = pbatch \/ pbatch' = [pbatch EXCEPT ![p] = Head(toP[p]).val]
  BY DEF Prover, EndCmt, Configure, InitProtocol, Evaluate, StartLayer, SumcheckEnd, SumcheckPoly,
         SumcheckVs, MiniIPEnd, MiniIPLpoly, MiniIPNotify, Ignore, pvars
<1>9. Head(toP[p]).val \in Int
  BY <1>3 DEF RequestSet
<1>10. /\ plevel' \in [Pids -> Int] /\ pround' \in [Pids -> Int] /\ pbatch' \in [Pids -> Int]
       /\ \A q \in Pids \ {p} : plevel'[q] = plevel[q] /\ pround'[q] = pround[q]
  BY <1>6, <1>7, <1>8, <1>9
<1>11. CmtType'
  BY <1>2, <1>3, <1>4, <1>5, <1>10 DEF vvars
<1> QED
  BY <1>1, <1>2, <1>3, <1>4, <1>5, <1>10, <1>11 DEF ReadsOne

\* The handler that the loop and the header select.
LEMMA Dispatch ==
    ASSUME NEW p \in Pids, Prover(p)
    PROVE  LET h == Head(toP[p]).header
           IN  /\ ppc[p] = "run" /\ h = "CONFIGURE" => Configure(p)
               /\ ppc[p] = "run" /\ h = "BEGIN_CMT" => InitProtocol(p)
               /\ ppc[p] = "run" /\ h = "REQ_OUTPUTS" => Evaluate(p)
               /\ ppc[p] = "run" /\ h = "NOTIFY_Z0" => Ignore(p)
               /\ ppc[p] = "run" /\ h = "BEGIN_LAYER" => StartLayer(p)
               /\ ppc[p] = "sumcheck" /\ h = "REQ_SC_POLY" => SumcheckPoly(p)
               /\ ppc[p] = "sumcheck" /\ h = "REQ_VS" => SumcheckVs(p)
               /\ ppc[p] = "miniIP" /\ h = "REQ_LPOLY" => MiniIPLpoly(p)
               /\ ppc[p] = "miniIP" /\ h = "NOTIFY_LPOLY_EXTRAP_PT" => MiniIPNotify(p)
<1> DEFINE h == Head(toP[p]).header
<1>1. \/ ppc[p] = "run" /\ h = "END_CMT"
      \/ ppc[p] = "run" /\ h = "CONFIGURE" /\ Configure(p)
      \/ ppc[p] = "run" /\ h = "BEGIN_CMT" /\ InitProtocol(p)
      \/ ppc[p] = "run" /\ h = "REQ_OUTPUTS" /\ Evaluate(p)
      \/ ppc[p] = "run" /\ h = "BEGIN_LAYER" /\ StartLayer(p)
      \/ ppc[p] \in {"sumcheck", "miniIP"} /\ h = "END_LAYER"
      \/ ppc[p] = "sumcheck" /\ h = "REQ_SC_POLY" /\ SumcheckPoly(p)
      \/ ppc[p] = "sumcheck" /\ h = "REQ_VS" /\ SumcheckVs(p)
      \/ ppc[p] = "miniIP" /\ h = "REQ_LPOLY" /\ MiniIPLpoly(p)
      \/ ppc[p] = "miniIP" /\ h = "NOTIFY_LPOLY_EXTRAP_PT" /\ MiniIPNotify(p)
      \/ h \notin Handled[ppc[p]] /\ Ignore(p)
  BY DEF Prover, EndCmt, Configure, InitProtocol, Evaluate, StartLayer, SumcheckEnd, SumcheckPoly,
         SumcheckVs, MiniIPEnd, MiniIPLpoly, MiniIPNotify, Ignore, Receives
<1> HIDE DEF h
<1>2. /\ ppc[p] = "run" => Handled[ppc[p]] =
            {"END_CMT", "CONFIGURE", "BEGIN_CMT", "REQ_OUTPUTS", "BEGIN_LAYER"}
      /\ ppc[p] = "sumcheck" => Handled[ppc[p]] = {"END_LAYER", "REQ_SC_POLY", "REQ_VS"}
      /\ ppc[p] = "miniIP" => Handled[ppc[p]] =
            {"END_LAYER", "REQ_LPOLY", "NOTIFY_LPOLY_EXTRAP_PT"}
  BY HandledBy
<1>3. /\ ppc[p] = "run" /\ h = "CONFIGURE" => Configure(p)
      /\ ppc[p] = "run" /\ h = "BEGIN_CMT" => InitProtocol(p)
      /\ ppc[p] = "run" /\ h = "REQ_OUTPUTS" => Evaluate(p)
      /\ ppc[p] = "run" /\ h = "NOTIFY_Z0" => Ignore(p)
      /\ ppc[p] = "run" /\ h = "BEGIN_LAYER" => StartLayer(p)
      /\ ppc[p] = "sumcheck" /\ h = "REQ_SC_POLY" => SumcheckPoly(p)
      /\ ppc[p] = "sumcheck" /\ h = "REQ_VS" => SumcheckVs(p)
      /\ ppc[p] = "miniIP" /\ h = "REQ_LPOLY" => MiniIPLpoly(p)
      /\ ppc[p] = "miniIP" /\ h = "NOTIFY_LPOLY_EXTRAP_PT" => MiniIPNotify(p)
  BY <1>1, <1>2
<1> QED
  BY <1>3 DEF h

\* Before REQ_OUTPUTS is answered.
LEMMA WorkerOutputs ==
    ASSUME CmtType, NEW p \in Workers, vpc = "outputs", OutputsStage(p), Prover(p)
    PROVE  OutputsStage(p)'
<1>1. p \in Pids /\ p \in Int /\ Instances(p) \in Int
  BY WorkersStart
<1>2. /\ toP[p] # << >> /\ toP'[p] = Tail(toP[p]) /\ at' = at /\ got' = got
  <2>1. ReadsOne(p)
    BY <1>1, ProverFrame
  <2> QED
    BY <1>1, <2>1 DEF ReadsOne, CmtType, vvars
<1>3. ~(p < at) /\ UnreadOutputs(p) /\ toV[p] = << >> /\ ppc[p] = "run"
  BY <1>2 DEF OutputsStage, AnsweredOutputs, UnreadOutputs
<1>4. CASE toP[p] = << Req("CONFIGURE", Instances(p)), Req("BEGIN_CMT", 0), Req("REQ_OUTPUTS", 0) >>
  <2>1. Head(toP[p]).header = "CONFIGURE" /\ toP'[p] = << Req("BEGIN_CMT", 0), Req("REQ_OUTPUTS", 0) >>
    BY <1>2, <1>4, ShortQueues, RequestType
  <2>2. ppc' = ppc /\ toV' = toV
    BY <1>1, <1>3, <2>1, Dispatch DEF Configure
  <2> QED
    BY <1>2, <1>3, <2>1, <2>2 DEF OutputsStage, UnreadOutputs
<1>5. CASE toP[p] = << Req("BEGIN_CMT", 0), Req("REQ_OUTPUTS", 0) >>
  <2>1. Head(toP[p]).header = "BEGIN_CMT" /\ toP'[p] = << Req("REQ_OUTPUTS", 0) >>
    BY <1>2, <1>5, ShortQueues, RequestType
  <2>2. ppc' = ppc /\ toV' = toV
    BY <1>1, <1>3, <2>1, Dispatch DEF InitProtocol
  <2> QED
    BY <1>2, <1>3, <2>1, <2>2 DEF OutputsStage, UnreadOutputs
<1>6. CASE toP[p] = << Req("REQ_OUTPUTS", 0) >>
  <2>1. Head(toP[p]).header = "REQ_OUTPUTS" /\ toP'[p] = << >>
    BY <1>2, <1>6, ShortQueues, RequestType
  <2>2. ppc' = ppc /\ Sends(p, << "outputs", "magics" >>)
    BY <1>1, <1>3, <2>1, Dispatch DEF Evaluate
  <2>3. PICK ok \in BOOLEAN :
          toV' = [toV EXCEPT ![p] = toV[p] \o << Ans("outputs", plevel[p], pround[p], ok),
                                                 Ans("magics", plevel[p], pround[p], ok) >>]
    BY <1>1, <2>2, SendsTwo
  <2>4. toV'[p] = << Ans("outputs", plevel[p], pround[p], ok),
                     Ans("magics", plevel[p], pround[p], ok) >>
    BY <1>1, <1>3, <2>3, ShortQueues DEF CmtType
  <2>5. /\ Fresh(Ans("outputs", plevel[p], pround[p], ok), "outputs", 0, 0)
        /\ Fresh(Ans("magics", plevel[p], pround[p], ok), "magics", 0, 0)
    BY DEF Fresh, Ans, Layered
  <2>6. OutputsAndMagics(toV'[p])
    BY <2>4, <2>5 DEF OutputsAndMagics
  <2> QED
    BY <1>2, <1>3, <2>1, <2>2, <2>6 DEF OutputsStage, AnsweredOutputs
<1> QED
  BY <1>3, <1>4, <1>5, <1>6 DEF UnreadOutputs

\* A worker appends the answer to the request for w.
LEMMA WorkerAnswers ==
    ASSUME CmtType, NEW p \in Pids, NEW w \in Layered, Sends(p, << w >>),
           plevel[p] = layer, pround[p] = round, Stale(toV[p], w)
    PROVE  Holds(toV'[p], w, layer, round)
<1>1. w \in Gathering /\ plevel[p] \in Int /\ pround[p] \in Int /\ toV[p] \in Seq(AnswerSet)
  BY HeaderOf DEF Layered, CmtType
<1>2. PICK ok \in BOOLEAN :
        toV' = [toV EXCEPT ![p] = toV[p] \o << Ans(w, plevel[p], pround[p], ok) >>]
  BY SendsOne
<1>3. toV'[p] = toV[p] \o << Ans(w, plevel[p], pround[p], ok) >>
  BY <1>2 DEF CmtType
<1>4. /\ Ans(w, plevel[p], pround[p], ok) \in AnswerSet
      /\ Fresh(Ans(w, plevel[p], pround[p], ok), w, layer, round)
  BY <1>1, AnswerType
<1> QED
  BY <1>1, <1>3, <1>4, StaleAppend

\* Within a layer: up to the answer of a sumcheck round.
LEMMA WorkerPoly ==
    ASSUME CmtType, Place, NEW p \in Workers, vpc = "poly", LayerStage(p), Prover(p)
    PROVE  LayerStage(p)'
<1>1. p \in Pids /\ p \in Int
  BY WorkersStart
<1>2. /\ toP[p] # << >> /\ toP'[p] = Tail(toP[p]) /\ at' = at /\ got' = got /\ vpc' = "poly"
      /\ layer' = layer /\ round' = round
  <2>1. ReadsOne(p)
    BY <1>1, ProverFrame
  <2> QED
    BY <1>1, <2>1 DEF ReadsOne, CmtType, vvars
<1>3. ~(p < at) /\ UnreadPoly(p) /\ Stale(toV[p], "poly")
  BY <1>2 DEF LayerStage, Unread, Answered, AnsweredPoly
<1>4. SUFFICES \/ UnreadPoly(p)' /\ Stale(toV'[p], "poly")
               \/ AnsweredPoly(p)' /\ Holds(toV'[p], "poly", layer, round)
  BY <1>2, <1>3 DEF LayerStage, Unread, Answered
<1>5. CASE /\ ppc[p] = "sumcheck" /\ plevel[p] = layer /\ pround[p] = round
           /\ toP[p] = << Req("REQ_SC_POLY", 0) >>
  <2>1. Head(toP[p]).header = "REQ_SC_POLY" /\ toP'[p] = << >>
    BY <1>2, <1>5, ShortQueues, RequestType
  <2>2. SumcheckPoly(p)
    BY <1>1, <1>5, <2>1, Dispatch
  <2>3. layer \in Nat /\ round \in Nat /\ layer < Depth - 1 /\ round < NumRounds(layer)
    BY <1>2 DEF Place, Layered
  <2>4. ~(pround[p] >= NumRounds(plevel[p]))
    BY <1>5, <2>3, RoundsPositive
  <2>5. /\ Sends(p, << "poly" >>) /\ pround' = [pround EXCEPT ![p] = pround[p] + 1]
        /\ ppc' = ppc /\ plevel' = plevel
    BY <2>2, <2>4 DEF SumcheckPoly
  <2>6. Holds(toV'[p], "poly", layer, round)
    BY <1>1, <1>3, <1>5, <2>5, WorkerAnswers DEF Layered
  <2>7. pround'[p] = round + 1
    BY <1>1, <1>5, <2>5 DEF CmtType
  <2> QED
    BY <1>2, <1>5, <2>1, <2>5, <2>6, <2>7 DEF AnsweredPoly
<1>6. CASE /\ round = 0 /\ ppc[p] = "run"
           /\ toP[p] = << Req("NOTIFY_Z0", 0), Req("BEGIN_LAYER", layer), Req("REQ_SC_POLY", 0) >>
  <2>1. /\ Head(toP[p]).header = "NOTIFY_Z0"
        /\ toP'[p] = << Req("BEGIN_LAYER", layer), Req("REQ_SC_POLY", 0) >>
    BY <1>2, <1>6, ShortQueues, RequestType
  <2>2. ppc' = ppc /\ toV' = toV
    BY <1>1, <1>6, <2>1, Dispatch DEF Ignore, pvars
  <2> QED
    BY <1>2, <1>3, <1>6, <2>1, <2>2 DEF UnreadPoly
<1>7. CASE /\ round = 0 /\ ppc[p] = "run"
           /\ toP[p] = << Req("BEGIN_LAYER", layer), Req("REQ_SC_POLY", 0) >>
  <2>1. /\ Head(toP[p]).header = "BEGIN_LAYER" /\ Head(toP[p]).val = layer
        /\ toP'[p] = << Req("REQ_SC_POLY", 0) >>
    BY <1>2, <1>7, ShortQueues, RequestType
  <2>2. StartLayer(p)
    BY <1>1, <1>7, <2>1, Dispatch
  <2>3. ~(layer >= Depth - 1)
    BY <1>2, CmtAssumption DEF Place, Layered
  <2>4. /\ ppc' = [ppc EXCEPT ![p] = "sumcheck"] /\ plevel' = [plevel EXCEPT ![p] = layer]
        /\ pround' = [pround EXCEPT ![p] = 0] /\ toV' = toV
    BY <2>1, <2>2, <2>3 DEF StartLayer, Goto
  <2>5. ppc'[p] = "sumcheck" /\ plevel'[p] = layer /\ pround'[p] = 0
    BY <1>1, <2>4 DEF CmtType
  <2> QED
    BY <1>2, <1>3, <1>7, <2>1, <2>4, <2>5 DEF UnreadPoly
<1>8. CASE /\ round = 0 /\ ppc[p] = "miniIP"
           /\ toP[p] = << Req("NOTIFY_LPOLY_EXTRAP_PT", 0), Req("BEGIN_LAYER", layer),
                          Req("REQ_SC_POLY", 0) >>
  <2>1. /\ Head(toP[p]).header = "NOTIFY_LPOLY_EXTRAP_PT"
        /\ toP'[p] = << Req("BEGIN_LAYER", layer), Req("REQ_SC_POLY", 0) >>
    BY <1>2, <1>8, ShortQueues, RequestType
  <2>2. ppc' = [ppc EXCEPT ![p] = "run"] /\ toV' = toV
    BY <1>1, <1>8, <2>1, Dispatch DEF MiniIPNotify, Goto
  <2>3. ppc'[p] = "run"
    BY <1>1, <2>2 DEF CmtType
  <2> QED
    BY <1>2, <1>3, <1>8, <2>1, <2>2, <2>3 DEF UnreadPoly
<1> QED
  BY <1>3, <1>5, <1>6, <1>7, <1>8 DEF UnreadPoly

\* The last two requests of a layer.
LEMMA WorkerVs ==
    ASSUME CmtType, Place, NEW p \in Workers, vpc = "vs", LayerStage(p), Prover(p)
    PROVE  LayerStage(p)'
<1>1. p \in Pids /\ p \in Int
  BY WorkersStart
<1>2. /\ toP[p] # << >> /\ toP'[p] = Tail(toP[p]) /\ at' = at /\ got' = got /\ vpc' = "vs"
      /\ layer' = layer /\ round' = round
  <2>1. ReadsOne(p)
    BY <1>1, ProverFrame
  <2> QED
    BY <1>1, <2>1 DEF ReadsOne, CmtType, vvars
<1>3. ~(p < at) /\ UnreadVs(p) /\ Stale(toV[p], "vs")
  BY <1>2 DEF LayerStage, Unread, Answered, AnsweredLayer
<1>4. Head(toP[p]).header = "REQ_VS" /\ toP'[p] = << >>
  BY <1>2, <1>3, ShortQueues, RequestType DEF UnreadVs
<1>5. SumcheckVs(p)
  BY <1>1, <1>3, <1>4, Dispatch DEF UnreadVs
<1>6. layer \in Nat /\ layer < Depth - 1 /\ round = NumRounds(layer)
  BY <1>2 DEF Place, Layered
<1>7. pround[p] >= NumRounds(plevel[p])
  <2>1. pround[p] = NumRounds(layer) /\ plevel[p] = layer /\ NumRounds(layer) \in Nat
    BY <1>3, <1>6, RoundsPositive DEF UnreadVs
  <2> QED
    BY <2>1
<1>8. /\ Sends(p, << "vs" >>) /\ ppc' = [ppc EXCEPT ![p] = "miniIP"]
      /\ plevel' = plevel /\ pround' = pround
  BY <1>5, <1>7 DEF SumcheckVs, LeaveSumcheck, Goto
<1>9. Holds(toV'[p], "vs", layer, round)
  BY <1>1, <1>3, <1>8, WorkerAnswers DEF Layered, UnreadVs
<1>10. AnsweredLayer(p)'
  BY <1>1, <1>2, <1>3, <1>4, <1>8 DEF AnsweredLayer, UnreadVs, CmtType
<1> QED
  BY <1>2, <1>3, <1>9, <1>10 DEF LayerStage, Answered

LEMMA WorkerLpoly ==
    ASSUME CmtType, Place, NEW p \in Workers, vpc = "lpoly", LayerStage(p), Prover(p)
    PROVE  LayerStage(p)'
<1>1. p \in Pids /\ p \in Int
  BY WorkersStart
<1>2. /\ toP[p] # << >> /\ toP'[p] = Tail(toP[p]) /\ at' = at /\ got' = got /\ vpc' = "lpoly"
      /\ layer' = layer /\ round' = round
  <2>1. ReadsOne(p)
    BY <1>1, ProverFrame
  <2> QED
    BY <1>1, <2>1 DEF ReadsOne, CmtType, vvars
<1>3. ~(p < at) /\ UnreadLpoly(p) /\ Stale(toV[p], "lpoly")
  BY <1>2 DEF LayerStage, Unread, Answered, AnsweredLayer
<1>4. Head(toP[p]).header = "REQ_LPOLY" /\ toP'[p] = << >>
  BY <1>2, <1>3, ShortQueues, RequestType DEF UnreadLpoly
<1>5. Sends(p, << "lpoly" >>) /\ ppc' = ppc /\ plevel' = plevel /\ pround' = pround
  BY <1>1, <1>3, <1>4, Dispatch DEF UnreadLpoly, MiniIPLpoly, pvars
<1>6. Holds(toV'[p], "lpoly", layer, round)
  BY <1>1, <1>3, <1>5, WorkerAnswers DEF Layered, UnreadLpoly
<1>7. AnsweredLayer(p)'
  BY <1>2, <1>3, <1>4, <1>5 DEF AnsweredLayer, UnreadLpoly
<1> QED
  BY <1>2, <1>3, <1>6, <1>7 DEF LayerStage, Answered

\* A step of the worker itself keeps its conversation in order ...
LEMMA WorkerStep ==
    ASSUME CmtType, Place, NEW p \in Workers, Conversation(p), Prover(p)
    PROVE  Conversation(p)'
<1>1. toP[p] # << >> /\ vpc' = vpc
  BY ProverFrame, WorkersStart DEF ReadsOne, vvars
<1>2. vpc # "start" /\ vpc # "magics"
  BY <1>1 DEF Conversation, MagicsStage, AnsweredOutputs
<1>3. vpc = "outputs" => OutputsStage(p)'
  BY WorkerOutputs DEF Conversation
<1>4. vpc \in Layered => LayerStage(p)'
  BY WorkerPoly, WorkerVs, WorkerLpoly DEF Conversation, Layered
<1> QED
  BY <1>1, <1>2, <1>3, <1>4 DEF Conversation

\* ... and so does what leaves its state and the verifier's alone.
LEMMA ConversationKept ==
    ASSUME NEW p \in Workers, Conversation(p),
           vpc' = vpc, layer' = layer, round' = round, magicSize' = magicSize,
           (p < at)' <=> (p < at), got'[p] = got[p],
           toP'[p] = toP[p], toV'[p] = toV[p], ppc'[p] = ppc[p],
           plevel'[p] = plevel[p], pround'[p] = pround[p]
    PROVE  Conversation(p)'
<1>1. /\ AnsweredOutputs(p)' <=> AnsweredOutputs(p)
      /\ UnreadOutputs(p)' <=> UnreadOutputs(p)
  BY DEF AnsweredOutputs, UnreadOutputs
<1>2. /\ UnreadPoly(p)' <=> UnreadPoly(p)
      /\ UnreadVs(p)' <=> UnreadVs(p)
      /\ UnreadLpoly(p)' <=> UnreadLpoly(p)
  BY DEF UnreadPoly, UnreadVs, UnreadLpoly
<1>3. /\ AnsweredPoly(p)' <=> AnsweredPoly(p)
      /\ AnsweredLayer(p)' <=> AnsweredLayer(p)
  BY DEF AnsweredPoly, AnsweredLayer
<1>4. vpc = "outputs" => OutputsStage(p)'
  BY <1>1 DEF Conversation, OutputsStage
<1>5. vpc = "magics" => MagicsStage(p)'
  BY <1>1 DEF Conversation, MagicsStage
<1>6. vpc \in Layered => LayerStage(p)'
  BY <1>2, <1>3 DEF Conversation, LayerStage, Unread, Answered
<1> QED
  BY <1>4, <1>5, <1>6 DEF Conversation

LEMMA ProverInv ==
    ASSUME CmtInv, NEW q \in Pids, Prover(q)
    PROVE  CmtInv'
<1>1. CmtType' /\ ReadsOne(q)
  BY ProverFrame DEF CmtInv
<1>2. /\ vpc' = vpc /\ at' = at /\ layer' = layer /\ round' = round /\ got' = got
      /\ verdict' = verdict /\ passed' = passed /\ magicSize' = magicSize
  BY <1>1 DEF ReadsOne, vvars
<1>3. Place'
  BY <1>2 DEF CmtInv, Place
<1>4. ChecksBehind'
  BY <1>2 DEF CmtInv, ChecksBehind, LayerPassed
<1>5. ASSUME NEW p \in Workers PROVE Conversation(p)'
  <2>1. CASE p = q
    BY <2>1, WorkerStep DEF CmtInv
  <2>2. CASE p # q
    <3>1. /\ toP'[p] = toP[p] /\ toV'[p] = toV[p] /\ ppc'[p] = ppc[p]
          /\ plevel'[p] = plevel[p] /\ pround'[p] = pround[p]
      BY <1>1, <2>2, WorkersStart DEF ReadsOne
    <3> QED
      BY <1>2, <3>1, ConversationKept DEF CmtInv
  <2> QED
    BY <2>1, <2>2
<1> QED
  BY <1>1, <1>3, <1>4, <1>5 DEF CmtInv

-----------------------------------------------------------------------------
(* Steps of the verifier. *)

LEMMA BroadcastType ==
    ASSUME CmtType, NEW msgs \in Seq(RequestSet), toP' = Broadcast(msgs)
    PROVE  /\ toP' \in [Pids -> Seq(RequestSet)]
           /\ \A p \in Pids : toP[p] = << >> => toP'[p] = msgs
<1>1. ASSUME NEW p \in Pids
      PROVE  toP[p] \o msgs \in Seq(RequestSet) /\ << >> \o msgs = msgs
  <2>1. toP[p] \in Seq(RequestSet)
    BY DEF CmtType
  <2> QED
    BY <2>1, ConcatProperties, ConcatEmptySeq
<1>2. \A p \in Pids : toP'[p] = toP[p] \o msgs
  BY DEF Broadcast
<1>3. toP' = [p \in Pids |-> toP[p] \o msgs]
  BY DEF Broadcast
<1> QED
  BY <1>1, <1>2, <1>3

\* At the end of a gather every worker has been heard.
LEMMA AllHeard ==
    ASSUME at = NumProvers, NEW p \in Workers
    PROVE  p < at /\ p \in Pids
  BY WorkersStart

\* gather passes over a prover without instances.
LEMMA SkipInv ==
    ASSUME CmtInv, Skip, magicSize' = magicSize
    PROVE  CmtInv'
<1>1. /\ vpc \in Gathering /\ at \in Pids \ Workers /\ at' = at + 1 /\ vpc' = vpc /\ layer' = layer
      /\ round' = round /\ got' = got /\ verdict' = verdict /\ passed' = passed /\ toP' = toP
      /\ toV' = toV /\ ppc' = ppc /\ plevel' = plevel /\ pround' = pround /\ pbatch' = pbatch
  BY DEF Skip, pvars
<1>2. CmtType'
  BY <1>1 DEF CmtInv, CmtType
<1>3. at \in Int /\ at < NumProvers /\ at' \in 0 .. NumProvers
  BY <1>1, WorkersStart, CmtAssumption DEF Pids
<1>4. Place'
  BY <1>1, <1>3 DEF CmtInv, Place
<1>5. ChecksBehind'
  BY <1>1 DEF CmtInv, ChecksBehind, LayerPassed
<1>6. ASSUME NEW p \in Workers PROVE Conversation(p)'
  <2>1. p \in Int /\ p # at
    BY <1>1, WorkersStart
  <2>2. (p < at)' <=> (p < at)
    BY <1>1, <1>3, <2>1
  <2>3. Conversation(p)
    BY DEF CmtInv
  <2> QED
    BY <1>1, <2>2, <2>3, ConversationKept
<1> QED
  BY <1>2, <1>4, <1>5, <1>6 DEF CmtInv

\* gather takes a message of the prover it has reached.
LEMMA TakeFromAt ==
    ASSUME CmtType, Place, NEW a \in Workers, a = at, Conversation(a), Take, magicSize' = magicSize
    PROVE  Conversation(a)'
<1>0. a \in Pids /\ a \in Int /\ a < NumProvers /\ ~(a < at)
  BY WorkersStart
<1> DEFINE q == toV[a]
<1>1. /\ vpc \in Gathering /\ q # << >> /\ vpc' = vpc /\ layer' = layer
      /\ round' = round /\ toP' = toP /\ ppc' = ppc /\ plevel' = plevel /\ pround' = pround
      /\ toV' = [toV EXCEPT ![a] = Tail(q)]
      /\ IF Head(q).header = Header[vpc] THEN got' = [got EXCEPT ![a] = Head(q)] /\ at' = at + 1
                                         ELSE got' = got /\ at' = at
  BY DEF Take, pvars
<1>2. q \in Seq(AnswerSet) /\ toV'[a] = Tail(q) /\ Tail(q) \in Seq(AnswerSet)
  BY <1>0, <1>1 DEF CmtType
<1>3. Head(q).header = Header[vpc] => got'[a] = Head(q) /\ (a < at)'
  BY <1>0, <1>1 DEF CmtType
<1>4. Head(q).header # Header[vpc] => got'[a] = got[a] /\ ~(a < at)'
  BY <1>0, <1>1
<1> HIDE DEF q
<1>5. /\ AnsweredOutputs(a)' <=> AnsweredOutputs(a)
      /\ UnreadOutputs(a)' <=> UnreadOutputs(a)
      /\ \A w : Unread(a, w)' <=> Unread(a, w)
      /\ \A w : Answered(a, w)' <=> Answered(a, w)
  BY <1>1 DEF AnsweredOutputs, UnreadOutputs, Unread, Answered, UnreadPoly, UnreadVs, UnreadLpoly,
              AnsweredPoly, AnsweredLayer
<1>6. CASE vpc = "outputs"
  <2>1. AnsweredOutputs(a) /\ OutputsAndMagics(q)
    BY <1>0, <1>1, <1>6 DEF Conversation, OutputsStage, q
  <2>2. Len(q) = 2 /\ Fresh(q[1], "outputs", 0, 0) /\ Fresh(q[2], "magics", 0, 0)
    BY <2>1 DEF OutputsAndMagics
  <2>3. Head(q) = q[1] /\ Len(Tail(q)) = 1 /\ Tail(q)[1] = q[2]
    BY <1>2, <2>2
  <2>4. Head(q).header = Header[vpc]
    BY <1>6, <2>2, <2>3 DEF Fresh
  <2>5. OnlyMagics(Tail(q)) /\ Fresh(Head(q), "outputs", 0, 0)
    BY <2>2, <2>3 DEF OnlyMagics
  <2>6. OutputsStage(a)'
    BY <1>2, <1>3, <1>5, <2>1, <2>4, <2>5 DEF OutputsStage
  <2> QED
    BY <1>1, <1>6, <2>6 DEF Conversation, Layered
<1>7. CASE vpc = "magics"
  <2>0. magicSize # 0
    BY <1>0, <1>7 DEF Place
  <2>1. AnsweredOutputs(a) /\ OnlyMagics(q)
    BY <1>0, <1>7 DEF Conversation, MagicsStage, q
  <2>2. Len(q) = 1 /\ Fresh(q[1], "magics", 0, 0)
    BY <2>1 DEF OnlyMagics
  <2>3. Head(q) = q[1] /\ Len(Tail(q)) = 0
    BY <1>2, <2>2
  <2>4. Tail(q) = << >>
    BY <1>2, <2>3, EmptySeq
  <2>5. Head(q).header = Header[vpc]
    BY <1>7, <2>2, <2>3 DEF Fresh
  <2>6. MagicsStage(a)'
    BY <1>2, <1>3, <1>5, <2>0, <2>1, <2>2, <2>3, <2>4, <2>5 DEF MagicsStage
  <2> QED
    BY <1>1, <1>7, <2>6 DEF Conversation, Layered
<1>8. CASE vpc \in Layered
  <2>1. LayerStage(a)
    BY <1>8 DEF Conversation
  <2>2. ASSUME Unread(a, vpc), Stale(q, vpc) PROVE LayerStage(a)'
    <3>1. Head(q).header # Header[vpc] /\ Stale(Tail(q), vpc)
      BY <1>1, <1>2, <2>2, StaleTail
    <3> QED
      BY <1>1, <1>2, <1>4, <1>5, <2>2, <3>1 DEF LayerStage
  <2>3. ASSUME Answered(a, vpc), Holds(q, vpc, layer, round) PROVE LayerStage(a)'
    <3>1. IF Head(q).header = Header[vpc]
            THEN Fresh(Head(q), vpc, layer, round) /\ Tail(q) = << >>
            ELSE Holds(Tail(q), vpc, layer, round)
      BY <1>2, <2>3, HoldsTail
    <3> QED
      BY <1>1, <1>2, <1>3, <1>4, <1>5, <2>3, <3>1 DEF LayerStage
  <2>4. LayerStage(a)'
    BY <1>0, <2>1, <2>2, <2>3 DEF LayerStage, q
  <2> QED
    BY <1>1, <1>8, <2>4 DEF Conversation, Layered
<1> QED
  BY <1>1, <1>6, <1>7, <1>8, HeaderOf DEF Layered

LEMMA TakeInv ==
    ASSUME CmtInv, Take, magicSize' = magicSize
    PROVE  CmtInv'
<1>1. /\ vpc \in Gathering /\ at \in Workers /\ toV[at] # << >> /\ vpc' = vpc /\ layer' = layer
      /\ round' = round /\ verdict' = verdict /\ passed' = passed /\ toP' = toP
      /\ ppc' = ppc /\ plevel' = plevel /\ pround' = pround /\ pbatch' = pbatch
      /\ toV' = [toV EXCEPT ![at] = Tail(toV[at])]
      /\ \/ got' = [got EXCEPT ![at] = Head(toV[at])] /\ at' = at + 1
         \/ got' = got /\ at' = at
  BY DEF Take, pvars
<1>2. at \in Pids /\ at \in Int /\ at < NumProvers
  BY <1>1, WorkersStart
<1>3. CmtType'
  <2>1. toV[at] \in Seq(AnswerSet) /\ Head(toV[at]) \in AnswerSet /\ Tail(toV[at]) \in Seq(AnswerSet)
    BY <1>1, <1>2 DEF CmtInv, CmtType
  <2>2. toV' \in [Pids -> Seq(AnswerSet)] /\ got' \in [Pids -> AnswerSet]
    BY <1>1, <1>2, <2>1 DEF CmtInv, CmtType
  <2> QED
    BY <1>1, <2>2 DEF CmtInv, CmtType
<1>4. Place'
  <2>1. at' \in 0 .. NumProvers /\ at # NumProvers
    BY <1>1, <1>2, CmtAssumption DEF CmtInv, Place
  <2> QED
    BY <1>1, <2>1 DEF CmtInv, Place
<1>5. ChecksBehind'
  BY <1>1 DEF CmtInv, ChecksBehind, LayerPassed
<1>6. ASSUME NEW p \in Workers PROVE Conversation(p)'
  <2>1. CASE p = at
    BY <1>1, <2>1, TakeFromAt DEF CmtInv
  <2>2. CASE p # at
    <3>1. p \in Int /\ p \in Pids
      BY WorkersStart
    <3>2. (p < at)' <=> (p < at)
      BY <1>1, <1>2, <2>2, <3>1
    <3>3. got'[p] = got[p] /\ toV'[p] = toV[p]
      BY <1>1, <1>2, <2>2, <3>1 DEF CmtInv, CmtType
    <3>4. Conversation(p)
      BY DEF CmtInv
    <3> QED
      BY <1>1, <3>2, <3>3, <3>4, ConversationKept
  <2> QED
    BY <2>1, <2>2
<1> QED
  BY <1>3, <1>4, <1>5, <1>6 DEF CmtInv

\* compute begins.
LEMMA BeginInv ==
    ASSUME CmtInv, Begin, magicSize' = magicSize
    PROVE  CmtInv'
<1> DEFINE opening(p) == << Req("CONFIGURE", Instances(p)), Req("BEGIN_CMT", 0), Req("REQ_OUTPUTS", 0) >>
<1>1. /\ vpc = "start" /\ vpc' = "outputs" /\ at' = 0 /\ layer' = layer /\ round' = round
      /\ got' = got /\ verdict' = verdict /\ passed' = passed /\ toV' = toV
      /\ ppc' = ppc /\ plevel' = plevel /\ pround' = pround /\ pbatch' = pbatch
      /\ toP' = [p \in Pids |-> toP[p] \o opening(p)]
  BY DEF Begin, pvars
<1>2. ASSUME NEW p \in Pids
      PROVE  opening(p) \in Seq(RequestSet) /\ toP[p] \o opening(p) \in Seq(RequestSet)
  <2>1. Req("CONFIGURE", Instances(p)) \in RequestSet /\ Req("BEGIN_CMT", 0) \in RequestSet
        /\ Req("REQ_OUTPUTS", 0) \in RequestSet
    BY RequestType, WorkersStart DEF Requests
  <2>2. toP[p] \in Seq(RequestSet) /\ opening(p) \in Seq(RequestSet)
    BY <2>1 DEF CmtInv, CmtType
  <2> HIDE DEF opening
  <2> QED
    BY <2>2, ConcatProperties
<1> HIDE DEF opening
<1>3. CmtType'
  BY <1>1, <1>2, HeaderOf DEF CmtInv, CmtType
<1>4. Place'
  BY <1>1, CmtAssumption DEF CmtInv, Place, Layered
<1>5. ChecksBehind'
  BY <1>1 DEF CmtInv, ChecksBehind, LayerPassed, Layered
<1>6. ASSUME NEW p \in Workers PROVE Conversation(p)'
  <2>1. p \in Pids /\ ~(p < 0)
    BY WorkersStart, CmtAssumption DEF Pids
  <2>2. ppc[p] = "run" /\ toP[p] = << >> /\ toV[p] = << >>
    BY <1>1 DEF CmtInv, Conversation
  <2>3. toP'[p] = opening(p)
    BY <1>1, <1>2, <2>1, <2>2, ConcatEmptySeq
  <2>4. OutputsStage(p)'
    BY <1>1, <2>1, <2>2, <2>3 DEF OutputsStage, UnreadOutputs, opening
  <2> QED
    BY <1>1, <2>4 DEF Conversation, Layered
<1> QED
  BY <1>3, <1>4, <1>5, <1>6 DEF CmtInv

\* The outputs are in.
LEMMA OutputsInInv ==
    ASSUME CmtInv, OutputsIn, magicSize' = magicSize
    PROVE  CmtInv'
<1>1. /\ vpc = "outputs" /\ at = NumProvers /\ vpc' = "magics" /\ layer' = layer /\ round' = round
      /\ got' = got /\ verdict' = verdict /\ passed' = passed /\ toP' = toP /\ toV' = toV
      /\ ppc' = ppc /\ plevel' = plevel /\ pround' = pround /\ pbatch' = pbatch
      /\ at' = IF magicSize = 0 THEN NumProvers ELSE 0
  BY DEF OutputsIn, Gathered, pvars
<1>3. CmtType'
  BY <1>1, HeaderOf DEF CmtInv, CmtType
<1>4. Place'
  BY <1>1, CmtAssumption DEF CmtInv, Place, Layered
<1>5. ChecksBehind'
  BY <1>1 DEF CmtInv, ChecksBehind, LayerPassed, Layered
<1>6. ASSUME NEW p \in Workers PROVE Conversation(p)'
  <2>1. p < at /\ ~(p < 0)
    BY <1>1, AllHeard, CmtAssumption DEF Pids
  <2>2. AnsweredOutputs(p) /\ OnlyMagics(toV[p])
    BY <1>1, <2>1 DEF CmtInv, Conversation, OutputsStage
  <2>3. MagicsStage(p)'
    BY <1>1, <2>1, <2>2 DEF MagicsStage, AnsweredOutputs
  <2> QED
    BY <1>1, <2>3 DEF Conversation, Layered
<1> QED
  BY <1>3, <1>4, <1>5, <1>6 DEF CmtInv

\* A layer begins: every worker has read all it was sent, and what is still in
\* its answer queue cannot be taken for an answer to REQ_SC_POLY.
LEMMA BeginLayerInv ==
    ASSUME CmtInv, NEW l \in Nat, l < Depth - 1,
           NEW h \in {"NOTIFY_Z0", "NOTIFY_LPOLY_EXTRAP_PT"}, NEW loop, vpc # "done",
           BeginLayer(l, << Req(h, 0) >>), got' = got, toV' = toV, magicSize' = magicSize,
           pvars' = pvars, h = "NOTIFY_Z0" <=> loop = "run", loop \in {"run", "miniIP"},
           \A k \in 0 .. l - 1 : LayerPassed(k)',
           \A p \in Workers : toP[p] = << >> /\ Stale(toV[p], "poly") /\ ppc[p] = loop
    PROVE  CmtInv'
<1> DEFINE msgs == << Req(h, 0), Req("BEGIN_LAYER", l), Req("REQ_SC_POLY", 0) >>
<1>0. NumRounds(l) \in Nat /\ NumRounds(l) >= 1
  BY RoundsPositive
<1>a. Ask(l, 0) = "poly" /\ AskMsgs(l, 0) = << Req("REQ_SC_POLY", 0) >>
  BY <1>0, HeaderOf DEF Ask, AskMsgs
<1>1. /\ vpc' = "poly" /\ at' = 0 /\ layer' = l /\ round' = 0 /\ verdict' = verdict
      /\ ppc' = ppc /\ plevel' = plevel /\ pround' = pround /\ pbatch' = pbatch
  BY <1>a DEF BeginLayer, pvars
<1>b. toP' = Broadcast(msgs)
  BY <1>a, Joined DEF BeginLayer
<1>2. msgs \in Seq(RequestSet)
  <2>1. Req(h, 0) \in RequestSet /\ Req("BEGIN_LAYER", l) \in RequestSet
        /\ Req("REQ_SC_POLY", 0) \in RequestSet
    BY RequestType DEF Requests
  <2> QED
    BY <2>1
<1> HIDE DEF msgs
<1>c. toP' \in [Pids -> Seq(RequestSet)] /\ \A p \in Pids : toP[p] = << >> => toP'[p] = msgs
  BY <1>2, <1>b, BroadcastType DEF CmtInv
<1>3. CmtType'
  BY <1>1, <1>c, HeaderOf DEF CmtInv, CmtType
<1>4. Place'
  BY <1>0, <1>1, CmtAssumption DEF CmtInv, Place, Layered
<1>5. ChecksBehind'
  <2>1. verdict' # "accept"
    BY <1>1 DEF CmtInv, Place
  <2>2. \A p \in Workers : \A r \in 0 .. -1 : <<"poly", l, r, p>> \in passed'
    OBVIOUS
  <2> QED
    BY <1>1, <2>1, <2>2 DEF ChecksBehind
<1>6. ASSUME NEW p \in Workers PROVE Conversation(p)'
  <2>1. p \in Pids /\ ~(p < 0)
    BY WorkersStart, CmtAssumption DEF Pids
  <2>2. toP'[p] = msgs /\ ppc'[p] = loop /\ Stale(toV'[p], "poly")
    BY <1>1, <1>c, <2>1
  <2>3. UnreadPoly(p)'
    BY <1>1, <2>2 DEF UnreadPoly, msgs
  <2>4. LayerStage(p)'
    BY <1>1, <2>1, <2>2, <2>3 DEF LayerStage, Unread
  <2> QED
    BY <1>1, <2>4 DEF Conversation, Layered
<1> QED
  BY <1>3, <1>4, <1>5, <1>6 DEF CmtInv

\* The protocol ends: an acceptance needs the checks of every layer.
LEMMA EndInv ==
    ASSUME CmtInv, NEW msgs \in Seq(RequestSet), toP' = Broadcast(msgs),
           vpc' = "done", verdict' \in {"accept", "reject"},
           at' = at, layer' = layer, round' = round,
           got' = got, toV' = toV, magicSize' = magicSize, pvars' = pvars,
           verdict' = "accept" => \A l \in 0 .. Depth - 2 : LayerPassed(l)'
    PROVE  CmtInv'
<1>1. ppc' = ppc /\ plevel' = plevel /\ pround' = pround /\ pbatch' = pbatch
  BY DEF pvars
<1>2. toP' \in [Pids -> Seq(RequestSet)]
  BY BroadcastType DEF CmtInv
<1>3. CmtType'
  BY <1>1, <1>2 DEF CmtInv, CmtType
<1>4. Place'
  BY DEF CmtInv, Place, Layered
<1>5. ChecksBehind'
  BY DEF ChecksBehind, Layered
<1>6. ASSUME NEW p \in Workers PROVE Conversation(p)'
  BY DEF Conversation, Layered
<1> QED
  BY <1>3, <1>4, <1>5, <1>6 DEF CmtInv

LEMMA FinalInv ==
    ASSUME CmtInv, NEW h \in {"NOTIFY_Z0", "NOTIFY_LPOLY_EXTRAP_PT"}, CheckFinal(<< Req(h, 0) >>),
           got' = got, toV' = toV, magicSize' = magicSize, pvars' = pvars,
           \A l \in 0 .. Depth - 2 : LayerPassed(l)'
    PROVE  CmtInv'
<1>1. << Req(h, 0) >> \o << Req("END_CMT", 0) >> \in Seq(RequestSet)
  <2>1. Req(h, 0) \in RequestSet /\ Req("END_CMT", 0) \in RequestSet
    BY RequestType DEF Requests
  <2> QED
    BY <2>1
<1>2. /\ toP' = Broadcast(<< Req(h, 0) >> \o << Req("END_CMT", 0) >>)
      /\ verdict' \in {"accept", "reject"} /\ vpc' = "done"
      /\ at' = at /\ layer' = layer /\ round' = round
  BY DEF CheckFinal
<1> QED
  BY <1>1, <1>2, EndInv

LEMMA RejectInv ==
    ASSUME CmtInv, Reject, got' = got, toV' = toV, magicSize' = magicSize, pvars' = pvars
    PROVE  CmtInv'
<1>1. << Req("END_LAYER", 0), Req("END_CMT", 0) >> \in Seq(RequestSet)
  <2>1. Req("END_LAYER", 0) \in RequestSet /\ Req("END_CMT", 0) \in RequestSet
    BY RequestType DEF Requests
  <2> QED
    BY <2>1
<1>2. /\ toP' = Broadcast(<< Req("END_LAYER", 0), Req("END_CMT", 0) >>)
      /\ verdict' = "reject" /\ vpc' = "done" /\ at' = at /\ layer' = layer /\ round' = round
  BY DEF Reject
<1> QED
  BY <1>1, <1>2, EndInv

\* The magics are in, or there are none.
LEMMA MagicsInInv ==
    ASSUME CmtInv, MagicsIn, magicSize' = magicSize
    PROVE  CmtInv'
<1>1. /\ vpc = "magics" /\ at = NumProvers /\ got' = got /\ passed' = passed /\ toV' = toV
      /\ pvars' = pvars
  BY DEF MagicsIn, Gathered
<1>2. CASE Depth > 1
  <2>1. BeginLayer(0, << Req("NOTIFY_Z0", 0) >>)
    BY <1>2 DEF MagicsIn
  <2>2. ASSUME NEW p \in Workers
        PROVE  toP[p] = << >> /\ Stale(toV[p], "poly") /\ ppc[p] = "run"
    <3>1. AnsweredOutputs(p) /\ (toV[p] = << >> \/ OnlyMagics(toV[p]))
      BY <1>1 DEF CmtInv, Conversation, MagicsStage
    <3>2. Stale(toV[p], "poly")
      <4>1. CASE toV[p] = << >>
        BY <4>1 DEF Stale
      <4>2. CASE OnlyMagics(toV[p])
        <5>1. Len(toV[p]) = 1 /\ toV[p][1].header = "REQ_OUTPUTS"
          BY <4>2, HeaderOf DEF OnlyMagics, Fresh
        <5> QED
          BY <5>1, HeaderOf DEF Stale
      <4> QED
        BY <3>1, <4>1, <4>2
    <3> QED
      BY <3>1, <3>2 DEF AnsweredOutputs
  <2>3. 0 < Depth - 1 /\ \A k \in 0 .. 0 - 1 : LayerPassed(k)'
    BY <1>2, CmtAssumption
  <2> QED
    BY <1>1, <2>1, <2>2, <2>3, BeginLayerInv
<1>3. CASE ~(Depth > 1)
  <2>1. CheckFinal(<< Req("NOTIFY_Z0", 0) >>)
    BY <1>3 DEF MagicsIn
  <2>2. \A l \in 0 .. Depth - 2 : LayerPassed(l)'
    BY <1>3, CmtAssumption
  <2> QED
    BY <1>1, <2>1, <2>2, FinalInv
<1> QED
  BY <1>2, <1>3

\* What the end of a gather within a layer knows of each worker, and what the
\* checks record.
LEMMA LayerHeard ==
    ASSUME CmtInv, vpc \in Layered, at = NumProvers, NEW p \in Workers
    PROVE  Answered(p, vpc) /\ toV[p] = << >> /\ Fresh(got[p], vpc, layer, round)
<1>1. p < at
  BY AllHeard
<1>2. LayerStage(p)
  BY DEF CmtInv, Conversation
<1> QED
  BY <1>1, <1>2 DEF LayerStage

LEMMA Recorded ==
    ASSUME CmtInv, vpc \in Layered, at = NumProvers, Record
    PROVE  /\ passed \subseteq passed'
           /\ AllOk => \A p \in Workers : << vpc, layer, round, p >> \in passed'
<1>1. passed \subseteq passed'
  BY DEF Record
<1>2. ASSUME AllOk, NEW p \in Workers PROVE << vpc, layer, round, p >> \in passed'
  <2>1. got[p].what = vpc /\ got[p].level = layer /\ got[p].round = round
    BY LayerHeard DEF Fresh
  <2>2. p \in {q \in Workers : got[q].ok}
    BY <1>2 DEF AllOk
  <2>3. << got[p].what, got[p].level, got[p].round, p >> \in passed'
    BY <2>2 DEF Record
  <2> QED
    BY <2>1, <2>3
<1> QED
  BY <1>1, <1>2

LEMMA LayersKept ==
    ASSUME passed \subseteq passed', NEW l, LayerPassed(l)
    PROVE  LayerPassed(l)'
  BY DEF LayerPassed

\* The next request of a layer: the checks so far have passed, and every worker
\* is where it can read it.
LEMMA AskInv ==
    ASSUME CmtInv, vpc \in Layered, at = NumProvers, NEW h \in Requests,
           toP' = Broadcast(<< Req(h, 0) >>), at' = 0, layer' = layer, verdict' = verdict,
           got' = got, toV' = toV, magicSize' = magicSize, pvars' = pvars,
           vpc' \in Layered, round' \in Nat,
           vpc' = "poly" => round' < NumRounds(layer),
           vpc' # "poly" => round' = NumRounds(layer),
           ChecksBehind',
           \A p \in Workers : toP'[p] = << Req(h, 0) >> => Unread(p, vpc)'
    PROVE  CmtInv'
<1>1. ppc' = ppc /\ plevel' = plevel /\ pround' = pround /\ pbatch' = pbatch
  BY DEF pvars
<1>2. << Req(h, 0) >> \in Seq(RequestSet)
  <2>1. Req(h, 0) \in RequestSet
    BY RequestType
  <2> QED
    BY <2>1
<1>c. /\ toP' \in [Pids -> Seq(RequestSet)]
      /\ \A p \in Pids : toP[p] = << >> => toP'[p] = << Req(h, 0) >>
  BY <1>2, BroadcastType DEF CmtInv
<1>3. CmtType'
  BY <1>1, <1>c, HeaderOf DEF CmtInv, CmtType, Layered
<1>4. Place'
  <2>1. 0 \in 0 .. NumProvers
    BY CmtAssumption
  <2>2. layer < Depth - 1 /\ layer \in Nat /\ magicSize \in Nat /\ verdict = "none"
    BY DEF CmtInv, Place, Layered
  <2> QED
    BY <2>1, <2>2 DEF Place, Layered
<1>6. ASSUME NEW p \in Workers PROVE Conversation(p)'
  <2>1. p \in Pids /\ ~(p < 0)
    BY WorkersStart, CmtAssumption DEF Pids
  <2>2. toP[p] = << >> /\ toV[p] = << >>
    BY LayerHeard DEF Answered, AnsweredPoly, AnsweredLayer
  <2>3. Unread(p, vpc)'
    BY <1>c, <2>1, <2>2
  <2>4. Stale(toV'[p], vpc')
    BY <2>2 DEF Stale
  <2>5. LayerStage(p)'
    BY <2>1, <2>3, <2>4 DEF LayerStage
  <2> QED
    BY <2>5 DEF Conversation, Layered
<1> QED
  BY <1>3, <1>4, <1>6 DEF CmtInv

\* A sumcheck round is in.
LEMMA PolyInInv ==
    ASSUME CmtInv, PolyIn, magicSize' = magicSize
    PROVE  CmtInv'
<1>1. /\ vpc = "poly" /\ vpc \in Layered /\ at = NumProvers /\ Record
      /\ got' = got /\ toV' = toV /\ pvars' = pvars
  BY DEF PolyIn, Gathered, Layered
<1>2. CASE ~AllOk
  BY <1>1, <1>2, RejectInv DEF PolyIn
<1>3. CASE AllOk
  <2> DEFINE w == Ask(layer, round + 1)
  <2>0. /\ layer \in Nat /\ round \in Nat /\ layer < Depth - 1 /\ round < NumRounds(layer)
        /\ NumRounds(layer) \in Nat /\ verdict = "none"
    BY <1>1, RoundsPositive DEF CmtInv, Place, Layered
  <2>1. w \in {"poly", "vs"} /\ (w = "poly" <=> round + 1 < NumRounds(layer))
    BY DEF Ask
  <2>2. /\ toP' = Broadcast(<< Req(Header[w], 0) >>) /\ vpc' = w /\ round' = round + 1 /\ at' = 0
        /\ layer' = layer /\ verdict' = verdict
    BY <1>3 DEF PolyIn, NextRound, AskMsgs
  <2> HIDE DEF w
  <2>3. /\ w = "poly" => Header[w] = "REQ_SC_POLY" /\ round + 1 < NumRounds(layer)
        /\ w = "vs" => Header[w] = "REQ_VS" /\ round + 1 = NumRounds(layer)
    BY <2>0, <2>1, HeaderOf
  <2>4. Header[w] \in Requests
    BY <2>1, <2>3 DEF Requests
  <2>5. ASSUME NEW p \in Workers, toP'[p] = << Req(Header[w], 0) >> PROVE Unread(p, vpc)'
    <3>1. ppc[p] = "sumcheck" /\ plevel[p] = layer /\ pround[p] = round + 1
      BY <1>1, LayerHeard DEF Answered, AnsweredPoly
    <3>2. ppc'[p] = "sumcheck" /\ plevel'[p] = layer' /\ pround'[p] = round'
      BY <1>1, <2>2, <3>1 DEF pvars
    <3>3. CASE w = "poly"
      BY <2>2, <2>3, <2>5, <3>2, <3>3 DEF Unread, UnreadPoly
    <3>4. CASE w = "vs"
      BY <2>2, <2>3, <2>5, <3>2, <3>4 DEF Unread, UnreadVs
    <3> QED
      BY <2>1, <3>3, <3>4
  <2>6. ChecksBehind'
    <3>1. /\ passed \subseteq passed'
          /\ \A p \in Workers : << "poly", layer, round, p >> \in passed'
      BY <1>1, <1>3, Recorded
    <3>2. \A l \in 0 .. layer - 1 : LayerPassed(l)'
      BY <1>1, <3>1, LayersKept DEF CmtInv, ChecksBehind
    <3>3. ASSUME NEW p \in Workers, NEW r \in 0 .. round PROVE << "poly", layer, r, p >> \in passed'
      <4>1. r \in 0 .. round - 1 \/ r = round
        BY <2>0
      <4> QED
        BY <1>1, <3>1, <4>1 DEF CmtInv, ChecksBehind
    <3>4. round' - 1 = round
      BY <2>0, <2>2
    <3> QED
      BY <2>0, <2>1, <2>2, <3>2, <3>3, <3>4 DEF ChecksBehind
  <2>7. w \in Layered /\ round + 1 \in Nat
    BY <2>0, <2>1 DEF Layered
  <2> QED
    BY <1>1, <2>1, <2>2, <2>3, <2>4, <2>5, <2>6, <2>7, AskInv
<1> QED
  BY <1>2, <1>3

\* V1 and V2 are in.
LEMMA VsInInv ==
    ASSUME CmtInv, VsIn, magicSize' = magicSize
    PROVE  CmtInv'
<1>1. /\ vpc = "vs" /\ vpc \in Layered /\ at = NumProvers /\ Record
      /\ got' = got /\ toV' = toV /\ pvars' = pvars
  BY DEF VsIn, Gathered, Layered
<1>2. CASE ~AllOk
  BY <1>1, <1>2, RejectInv DEF VsIn
<1>3. CASE AllOk
  <2>0. layer \in Nat /\ round \in Nat /\ round = NumRounds(layer) /\ verdict = "none"
    BY <1>1 DEF CmtInv, Place, Layered
  <2>2. /\ toP' = Broadcast(<< Req("REQ_LPOLY", 0) >>) /\ vpc' = "lpoly" /\ round' = round
        /\ at' = 0 /\ layer' = layer /\ verdict' = verdict
    BY <1>3 DEF VsIn, AskLpoly
  <2>5. ASSUME NEW p \in Workers, toP'[p] = << Req("REQ_LPOLY", 0) >> PROVE Unread(p, vpc)'
    <3>1. ppc[p] = "miniIP" /\ plevel[p] = layer /\ pround[p] = round
      BY <1>1, LayerHeard DEF Answered, AnsweredLayer
    <3>2. ppc'[p] = "miniIP" /\ plevel'[p] = layer' /\ pround'[p] = round'
      BY <1>1, <2>2, <3>1 DEF pvars
    <3> QED
      BY <2>2, <2>5, <3>2 DEF Unread, UnreadLpoly
  <2>6. ChecksBehind'
    <3>1. /\ passed \subseteq passed'
          /\ \A p \in Workers : << "vs", layer, round, p >> \in passed'
      BY <1>1, <1>3, Recorded
    <3>2. \A l \in 0 .. layer - 1 : LayerPassed(l)'
      BY <1>1, <3>1, LayersKept DEF CmtInv, ChecksBehind
    <3>3. \A p \in Workers : \A r \in 0 .. round - 1 : << "poly", layer, r, p >> \in passed'
      BY <1>1, <3>1 DEF CmtInv, ChecksBehind
    <3> QED
      BY <2>0, <2>2, <3>1, <3>2, <3>3 DEF ChecksBehind
  <2>7. "lpoly" \in Layered /\ "REQ_LPOLY" \in Requests
    BY DEF Layered, Requests
  <2> QED
    BY <1>1, <2>0, <2>2, <2>5, <2>6, <2>7, AskInv
<1> QED
  BY <1>2, <1>3

\* The line polynomial is in, and with it the layer is done.
LEMMA LpolyInInv ==
    ASSUME CmtInv, LpolyIn, magicSize' = magicSize
    PROVE  CmtInv'
<1>1. /\ vpc = "lpoly" /\ vpc \in Layered /\ at = NumProvers /\ Record
      /\ got' = got /\ toV' = toV /\ pvars' = pvars
  BY DEF LpolyIn, Gathered, Layered
<1>2. CASE ~AllOk
  BY <1>1, <1>2, RejectInv DEF LpolyIn
<1>3. CASE AllOk
  <2>0. /\ layer \in Nat /\ round \in Nat /\ round = NumRounds(layer) /\ layer < Depth - 1
        /\ Depth \in Nat
    BY <1>1, CmtAssumption DEF CmtInv, Place, Layered
  <2>1. ASSUME NEW l \in 0 .. layer PROVE LayerPassed(l)'
    <3>1. /\ passed \subseteq passed'
          /\ \A p \in Workers : << "lpoly", layer, round, p >> \in passed'
      BY <1>1, <1>3, Recorded
    <3>2. CASE l \in 0 .. layer - 1
      BY <1>1, <3>1, <3>2, LayersKept DEF CmtInv, ChecksBehind
    <3>3. CASE l = layer
      <4>1. \A p \in Workers : /\ \A r \in 0 .. round - 1 : << "poly", layer, r, p >> \in passed'
                               /\ << "vs", layer, round, p >> \in passed'
        BY <1>1, <3>1 DEF CmtInv, ChecksBehind
      <4> QED
        BY <2>0, <3>1, <3>3, <4>1 DEF LayerPassed
    <3>4. l \in 0 .. layer - 1 \/ l = layer
      BY <2>0
    <3> QED
      BY <3>2, <3>3, <3>4
  <2>2. CASE layer + 1 < Depth - 1
    <3>0. PICK l \in Nat : l = layer + 1
      BY <2>0
    <3>1. BeginLayer(l, << Req("NOTIFY_LPOLY_EXTRAP_PT", 0) >>)
      BY <1>3, <2>2, <3>0 DEF LpolyIn
    <3>2. ASSUME NEW p \in Workers
          PROVE  toP[p] = << >> /\ Stale(toV[p], "poly") /\ ppc[p] = "miniIP"
      <4>1. AnsweredLayer(p) /\ toV[p] = << >>
        BY <1>1, LayerHeard DEF Answered
      <4> QED
        BY <4>1 DEF AnsweredLayer, Stale
    <3>3. l < Depth - 1 /\ l - 1 = layer
      BY <2>0, <2>2, <3>0
    <3>4. \A k \in 0 .. l - 1 : LayerPassed(k)'
      BY <2>1, <3>3
    <3> QED
      BY <1>1, <3>1, <3>2, <3>3, <3>4, BeginLayerInv
  <2>3. CASE ~(layer + 1 < Depth - 1)
    <3>1. CheckFinal(<< Req("NOTIFY_LPOLY_EXTRAP_PT", 0) >>)
      BY <1>3, <2>3 DEF LpolyIn
    <3>2. Depth - 2 = layer
      BY <2>0, <2>3
    <3> QED
      BY <1>1, <2>1, <3>1, <3>2, FinalInv
  <2> QED
    BY <2>2, <2>3
<1> QED
  BY <1>2, <1>3

-----------------------------------------------------------------------------
(* The theorems. *)

LEMMA InitCmtInv == Init => CmtInv
<1> SUFFICES ASSUME Init PROVE CmtInv
  OBVIOUS
<1>1. CmtType
  <2>1. NoAnswer \in AnswerSet
    BY HeaderOf DEF NoAnswer, AnswerSet, Asked
  <2> QED
    BY <2>1 DEF Init, CmtType
<1>2. Place
  BY CmtAssumption DEF Init, Place, Layered
<1>3. ChecksBehind
  BY DEF Init, ChecksBehind, Layered
<1>4. ASSUME NEW p \in Workers PROVE Conversation(p)
  BY WorkersStart DEF Init, Conversation, Layered
<1> QED
  BY <1>1, <1>2, <1>3, <1>4 DEF CmtInv

\* The inductive invariant holds for every number of provers and every circuit.
LEMMA CmtInvAlways == Spec => []CmtInv
<1>1. CmtInv /\ [Next]_vars => CmtInv'
  <2> SUFFICES ASSUME CmtInv, [Next]_vars PROVE CmtInv'
    OBVIOUS
  <2>1. CASE Verifier
    <3>1. magicSize' = magicSize
      BY <2>1 DEF Verifier
    <3> QED
      BY <2>1, <3>1, BeginInv, SkipInv, TakeInv, OutputsInInv, MagicsInInv, PolyInInv, VsInInv,
         LpolyInInv DEF Verifier
  <2>2. CASE \E p \in Pids : Prover(p)
    BY <2>2, ProverInv
  <2>3. CASE UNCHANGED vars
    <3>1. /\ vpc' = vpc /\ at' = at /\ layer' = layer /\ round' = round /\ got' = got
          /\ verdict' = verdict /\ passed' = passed /\ magicSize' = magicSize /\ toP' = toP
          /\ toV' = toV /\ ppc' = ppc /\ plevel' = plevel /\ pround' = pround /\ pbatch' = pbatch
      BY <2>3 DEF vars, vvars, pvars
    <3>2. CmtType' /\ Place'
      BY <3>1 DEF CmtInv, CmtType, Place
    <3>3. ChecksBehind'
      BY <3>1 DEF CmtInv, ChecksBehind, LayerPassed
    <3>4. \A p \in Workers : Conversation(p)'
      BY <3>1, ConversationKept DEF CmtInv
    <3> QED
      BY <3>2, <3>3, <3>4 DEF CmtInv
  <2> QED
    BY <2>1, <2>2, <2>3 DEF Next
<1> QED
  BY <1>1, InitCmtInv, PTL DEF Spec

\* Whatever stale messages lie in the queues and however the provers interleave,
\* an answer the verifier holds is the one to the request it works on
\* (NetClient::waitForResponse matches headers only).
THEOREM FreshAnswersAlways == Spec => []FreshAnswers
<1>1. CmtInv => FreshAnswers
  <2> SUFFICES ASSUME CmtInv, vpc \in Gathering, ~(vpc = "magics" /\ magicSize = 0),
                      NEW p \in Workers, p < at
               PROVE  /\ got[p].what = vpc
                      /\ vpc \in {"poly", "vs", "lpoly"} => got[p].level = layer
                      /\ vpc = "poly" => got[p].round = round
    BY DEF FreshAnswers
  <2>1. CASE vpc \in Layered
    <3>1. Fresh(got[p], vpc, layer, round)
      BY <2>1 DEF CmtInv, Conversation, LayerStage
    <3> QED
      BY <2>1, <3>1 DEF Fresh, Layered
  <2>2. CASE vpc = "outputs"
    BY <2>2 DEF CmtInv, Conversation, OutputsStage, Fresh
  <2>3. CASE vpc = "magics"
    BY <2>3 DEF CmtInv, Conversation, MagicsStage, Fresh
  <2> QED
    BY <2>1, <2>2, <2>3, HeaderOf DEF Layered
<1> QED
  BY <1>1, CmtInvAlways, PTL

\* Whichever provers are faulty, compute accepts only when every round of every
\* layer passed its check for every prover that holds instances.
THEOREM AcceptedMeansCheckedAlways == Spec => []AcceptedMeansChecked
<1>1. CmtInv => AcceptedMeansChecked
  <2> SUFFICES ASSUME CmtInv, verdict = "accept", NEW c \in Checks PROVE c \in passed
    BY DEF AcceptedMeansChecked
  <2>1. PICK l \in 0 .. Depth - 2 :
          c \in {<<"poly", l, r, p>> : r \in 0 .. NumRounds(l) - 1, p \in Workers}
                  \cup {<<w, l, NumRounds(l), p>> : w \in {"vs", "lpoly"}, p \in Workers}
    BY DEF Checks
  <2>2. LayerPassed(l)
    BY DEF CmtInv, ChecksBehind
  <2>3. CASE c \in {<<"poly", l, r, p>> : r \in 0 .. NumRounds(l) - 1, p \in Workers}
    <3>1. PICK r \in 0 .. NumRounds(l) - 1, p \in Workers : c = <<"poly", l, r, p>>
      BY <2>3
    <3> QED
      BY <2>2, <3>1 DEF LayerPassed
  <2>4. CASE c \in {<<w, l, NumRounds(l), p>> : w \in {"vs", "lpoly"}, p \in Workers}
    <3>1. PICK w \in {"vs", "lpoly"}, p \in Workers : c = <<w, l, NumRounds(l), p>>
      BY <2>4
    <3> QED
      BY <2>2, <3>1 DEF LayerPassed
  <2> QED
    BY <2>1, <2>3, <2>4
<1> QED
  BY <1>1, CmtInvAlways, PTL

\* The verifier never blocks in gather on a prover that has left its loops or has
\* nothing more to read.
THEOREM WaitIsAnsweredAlways == Spec => []WaitIsAnswered
<1>1. CmtInv => WaitIsAnswered
  <2> SUFFICES ASSUME CmtInv, vpc \in Gathering, NEW p \in Workers, p = at, toV[p] = << >>
               PROVE  ppc[p] \in {"run", "sumcheck", "miniIP"} /\ toP[p] # << >>
    BY DEF WaitIsAnswered
  <2>0. ~(p < at)
    BY WorkersStart
  <2>1. Len(toV[p]) = 0
    OBVIOUS
  <2>e. \A a, b, c : << a >> # << >> /\ << a, b >> # << >> /\ << a, b, c >> # << >>
    BY ShortQueues
  <2>2. CASE vpc = "outputs"
    <3>1. UnreadOutputs(p)
      BY <2>0, <2>1, <2>2 DEF CmtInv, Conversation, OutputsStage, OutputsAndMagics
    <3> QED
      BY <2>e, <3>1 DEF UnreadOutputs
  <2>3. vpc # "magics"
    BY <2>0, <2>1 DEF CmtInv, Conversation, MagicsStage, OnlyMagics
  <2>4. CASE vpc \in Layered
    <3>1. Unread(p, vpc)
      BY <2>0, <2>1, <2>4 DEF CmtInv, Conversation, LayerStage, Holds
    <3> QED
      BY <2>e, <3>1 DEF Unread, UnreadPoly, UnreadVs, UnreadLpoly
  <2> QED
    BY <2>2, <2>3, <2>4, HeaderOf DEF Layered
<1> QED
  BY <1>1, CmtInvAlways, PTL

=============================================================================
