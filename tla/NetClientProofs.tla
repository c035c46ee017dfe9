---------------------------- MODULE NetClientProofs ----------------------------
(***************************************************************************)
(* Proofs about NetClient for every set of messages, every buffer length   *)
(* and every number of messages sent.                                      *)
(***************************************************************************)
EXTENDS NetClient, ArithmeticLemmas

-----------------------------------------------------------------------------
(* Queues. *)

\* The queue holds the parts of the messages of log after the first k.
Waiting(q, log, k, part) ==
    /\ k + Len(q) = Len(log)
    /\ \A i \in 1 .. Len(q) : q[i] = part[log[k + i]]

\* A queue is no longer than the log.
LEMMA WaitingBound ==
    ASSUME NEW S, NEW T, NEW part, NEW q \in Seq(S), NEW log \in Seq(T), NEW k \in Nat,
           Waiting(q, log, k, part)
    PROVE  k <= Len(log)
<1>1. Len(q) \in Nat /\ Len(log) \in Nat /\ k + Len(q) = Len(log)
  BY DEF Waiting
<1> QED
  BY <1>1

\* Sending a message puts its part at the end.
LEMMA WaitingAppend ==
    ASSUME NEW S, NEW T, NEW part, NEW q \in Seq(S), NEW log \in Seq(T), NEW k \in Nat,
           NEW m \in T, part[m] \in S, Waiting(q, log, k, part)
    PROVE  Waiting(Append(q, part[m]), Append(log, m), k, part)
<1> DEFINE q1 == Append(q, part[m])
           log1 == Append(log, m)
<1>0. /\ Len(q) \in Nat /\ Len(log) \in Nat /\ k + Len(q) = Len(log)
      /\ Len(q1) = Len(q) + 1 /\ Len(log1) = Len(log) + 1
  BY DEF Waiting
<1>1. /\ \A i \in 1 .. Len(q) : q1[i] = q[i]
      /\ \A i \in 1 .. Len(log) : log1[i] = log[i]
      /\ q1[Len(q) + 1] = part[m] /\ log1[Len(log) + 1] = m
  BY DEF Waiting
<1>2. ASSUME NEW i \in 1 .. Len(q1) PROVE q1[i] = part[log1[k + i]]
  <2>1. CASE i \in 1 .. Len(q)
    <3>1. k + i \in 1 .. Len(log)
      BY <1>0, <2>1
    <3>2. q[i] = part[log[k + i]]
      BY <2>1 DEF Waiting
    <3> QED
      BY <1>1, <2>1, <3>1, <3>2
  <2>2. CASE i = Len(q) + 1
    <3>1. k + i = Len(log) + 1
      BY <1>0, <2>2
    <3> QED
      BY <1>1, <2>2, <3>1
  <2> QED
    BY <1>0, <2>1, <2>2
<1> HIDE DEF q1, log1
<1>3. k + Len(q1) = Len(log1)
  BY <1>0
<1>4. Waiting(q1, log1, k, part)
  BY <1>2, <1>3 DEF Waiting
<1> QED
  BY <1>4 DEF q1, log1

\* Taking the first: it is the part of the next message.
LEMMA WaitingTail ==
    ASSUME NEW S, NEW T, NEW part, NEW q \in Seq(S), NEW log \in Seq(T), NEW k \in Nat,
           q # <<>>, Waiting(q, log, k, part)
    PROVE  /\ Waiting(Tail(q), log, k + 1, part)
           /\ k + 1 \in 1 .. Len(log) /\ Head(q) = part[log[k + 1]]
<1> DEFINE q1 == Tail(q)
<1>0. /\ Len(q) \in Nat /\ Len(q) >= 1 /\ Len(log) \in Nat /\ k + Len(q) = Len(log)
      /\ Len(q1) = Len(q) - 1
  BY DEF Waiting
<1>1. /\ Head(q) = q[1]
      /\ \A i \in 1 .. Len(q1) : q1[i] = q[i + 1]
  BY DEF Waiting
<1> HIDE DEF q1
<1>2. ASSUME NEW i \in 1 .. Len(q1) PROVE q1[i] = part[log[k + 1 + i]]
  <2>1. i + 1 \in 1 .. Len(q) /\ k + (i + 1) = k + 1 + i
    BY <1>0
  <2>2. q[i + 1] = part[log[k + (i + 1)]]
    BY <2>1 DEF Waiting
  <2> QED
    BY <1>1, <2>1, <2>2
<1>3. k + 1 + Len(q1) = Len(log) /\ k + 1 \in 1 .. Len(log)
  BY <1>0
<1>4. Waiting(q1, log, k + 1, part)
  BY <1>2, <1>3 DEF Waiting
<1>5. Head(q) = part[log[k + 1]]
  <2>1. 1 \in 1 .. Len(q)
    BY <1>0
  <2> QED
    BY <1>1, <2>1 DEF Waiting
<1> QED
  BY <1>3, <1>4, <1>5 DEF q1

-----------------------------------------------------------------------------
(* The inductive invariant.  A direction of the connection is known by its      *)
(* receiving end e.  The header queue runs ahead of the body queue on both      *)
(* sides: the sender has put a header in front of the body it is about to send, *)
(* the receiver has taken a header whose body it still waits for.               *)

\* The two parts of a message, and the values a header queue may hold.
Hdr(m) == [header |-> m.header, hsize |-> m.hsize]
HdrOf  == [m \in Messages |-> Hdr(m)]
BodyOf == [m \in Messages |-> m.body]

HeaderSet == {Hdr(m) : m \in Messages} \cup {[header |-> Junk, hsize |-> 0]}
BodySet   == {m.body : m \in Messages}

\* The messages an end has begun to send, the one without its body included.
Begun(s) == IF pc[s] = "sendBody" THEN Append(sentLog[s], cur[s]) ELSE sentLog[s]

\* How many headers an end has taken.
Opened(e) == IF pc[e] = "recvBody" THEN Len(rcvdLog[e]) + 1 ELSE Len(rcvdLog[e])

\* The types.
NetType ==
    /\ pc \in [Ends -> {"idle", "sendBody", "recvBody"}]
    /\ cur \in [Ends -> Messages]
    /\ header \in [Ends -> HeaderSet]
    /\ hq \in [Ends -> Seq(HeaderSet)]
    /\ bq \in [Ends -> Seq(BodySet)]
    /\ sentLog \in [Ends -> Seq(Messages)]
    /\ rcvdLog \in [Ends -> Seq(Messages)]

\* The headers not yet taken are those of the messages begun after the ones opened.
HeadersInOrder(e) ==
    /\ Waiting(hq[e], Begun(Peer(e)), Opened(e), HdrOf)
    /\ pc[e] = "recvBody" => header[e] = HdrOf[Begun(Peer(e))[Opened(e)]]

\* The bodies not yet taken are those of the messages sent after the ones received.
BodiesInOrder(e) == Waiting(bq[e], sentLog[Peer(e)], Len(rcvdLog[e]), BodyOf)

\* What was received is what was sent, in order.
ReceivedIsSent(e) == \A i \in 1 .. Len(rcvdLog[e]) : rcvdLog[e][i] = sentLog[Peer(e)][i]

Direction(e) == HeadersInOrder(e) /\ BodiesInOrder(e) /\ ReceivedIsSent(e)

\* The inductive invariant.
NetInv == NetType /\ \A e \in Ends : Direction(e)

\* Each end has one peer.
LEMMA TwoEnds ==
    \A e \in Ends : /\ Peer(e) \in Ends /\ Peer(e) # e /\ Peer(Peer(e)) = e
                    /\ \A x \in Ends : x = e \/ x = Peer(e)
  BY DEF Ends, Peer

\* The parts of a message have their types.
LEMMA SetsOfParts ==
    /\ \A m \in Messages : /\ Hdr(m) \in HeaderSet /\ HdrOf[m] = Hdr(m)
                           /\ m.body \in BodySet /\ BodyOf[m] = m.body
    /\ [header |-> Junk, hsize |-> 0] \in HeaderSet
  BY DEF HeaderSet, BodySet, HdrOf, BodyOf

\* Nothing sent, nothing received.
LEMMA InitNetInv == Init => NetInv
<1> SUFFICES ASSUME Init PROVE NetInv
  OBVIOUS
<1>1. NetType
  <2>1. (CHOOSE m \in Messages : TRUE) \in Messages
    BY NetAssumption
  <2> QED
    BY <2>1, SetsOfParts DEF Init, NetType
<1>2. ASSUME NEW e \in Ends PROVE Direction(e)
  BY TwoEnds DEF Init, Direction, HeadersInOrder, BodiesInOrder, ReceivedIsSent, Begun, Opened,
                 Waiting
<1> QED
  BY <1>1, <1>2 DEF NetInv

\* What the steps use of the invariant: the parts of one direction, and their types.
LEMMA DirectionFacts ==
    ASSUME NetInv, NEW e \in Ends
    PROVE  /\ HeadersInOrder(e) /\ BodiesInOrder(e) /\ ReceivedIsSent(e)
           /\ Peer(e) \in Ends /\ Peer(e) # e /\ Peer(Peer(e)) = e
           /\ hq[e] \in Seq(HeaderSet) /\ bq[e] \in Seq(BodySet)
           /\ sentLog[Peer(e)] \in Seq(Messages) /\ rcvdLog[e] \in Seq(Messages)
           /\ Begun(Peer(e)) \in Seq(Messages)
           /\ Opened(e) \in Nat /\ Len(rcvdLog[e]) \in Nat
<1>1. rcvdLog[e] \in Seq(Messages)
  BY DEF NetInv, NetType
<1>2. Opened(e) \in Nat
  BY <1>1 DEF Opened
<1>3. Begun(Peer(e)) \in Seq(Messages)
  BY TwoEnds DEF NetInv, NetType, Begun
<1> QED
  BY <1>1, <1>2, <1>3, TwoEnds DEF NetInv, NetType, Direction

\* A header joins the queue of the peer: the message is begun.
LEMMA SendHeaderInv ==
    ASSUME NetInv, NEW x \in Ends, NEW m \in Messages, SendHeader(x, m)
    PROVE  NetInv'
<1>0. /\ pc[x] = "idle" /\ pc' = [pc EXCEPT ![x] = "sendBody"]
      /\ cur' = [cur EXCEPT ![x] = m]
      /\ hq' = [hq EXCEPT ![Peer(x)] = Append(hq[Peer(x)], Hdr(m))]
      /\ bq' = bq /\ header' = header /\ sentLog' = sentLog /\ rcvdLog' = rcvdLog
  BY DEF SendHeader, Hdr
<1>t. NetType
  BY DEF NetInv
<1>1. NetType'
  BY <1>0, <1>t, TwoEnds, SetsOfParts DEF NetType
<1>2. ASSUME NEW e \in Ends PROVE Direction(e)'
  <2>f. /\ HeadersInOrder(e) /\ BodiesInOrder(e) /\ ReceivedIsSent(e)
        /\ Peer(e) \in Ends /\ Peer(e) # e /\ Peer(Peer(e)) = e
        /\ hq[e] \in Seq(HeaderSet) /\ Opened(e) \in Nat
        /\ sentLog[Peer(e)] \in Seq(Messages)
        /\ Begun(Peer(e)) \in Seq(Messages) /\ Len(rcvdLog[e]) \in Nat
    BY DirectionFacts
  <2>1. BodiesInOrder(e)' /\ ReceivedIsSent(e)'
    BY <1>0, <2>f DEF BodiesInOrder, ReceivedIsSent
  <2>2. CASE e = x
    <3>1. Begun(Peer(e))' = Begun(Peer(e)) /\ Opened(e)' = Opened(e) /\ hq'[e] = hq[e]
          /\ pc'[e] # "recvBody"
      BY <1>0, <1>t, <2>2, <2>f DEF Begun, Opened, NetType
    <3>2. HeadersInOrder(e)'
      BY <2>f, <3>1 DEF HeadersInOrder
    <3> QED
      BY <2>1, <3>2 DEF Direction
  <2>3. CASE e = Peer(x)
    <3>0. x = Peer(e)
      BY <2>3, TwoEnds
    <3>1. Begun(Peer(e)) = sentLog[Peer(e)] /\ Begun(Peer(e))' = Append(sentLog[Peer(e)], m)
      BY <1>0, <1>t, <3>0 DEF Begun, NetType
    <3>2. Opened(e)' = Opened(e) /\ pc'[e] = pc[e] /\ (pc[e] = "recvBody" => Opened(e) >= 1)
      <4>1. pc'[e] = pc[e] /\ Len(rcvdLog[e]) \in Nat
        BY <1>0, <1>t, <2>f, <3>0 DEF NetType
      <4> QED
        BY <1>0, <4>1 DEF Opened
    <3>3. hq'[e] = Append(hq[e], Hdr(m))
      BY <1>0, <1>t, <2>3 DEF NetType
    <3>4. Waiting(hq[e], sentLog[Peer(e)], Opened(e), HdrOf)
      BY <2>f, <3>1 DEF HeadersInOrder
    <3>5. Waiting(hq'[e], Append(sentLog[Peer(e)], m), Opened(e), HdrOf)
      BY <2>f, <3>3, <3>4, SetsOfParts, WaitingAppend
    <3>6. ASSUME pc[e] = "recvBody"
          PROVE  Append(sentLog[Peer(e)], m)[Opened(e)] = sentLog[Peer(e)][Opened(e)]
      <4>1. Opened(e) <= Len(sentLog[Peer(e)]) /\ Opened(e) >= 1
        BY <2>f, <3>2, <3>4, <3>6, WaitingBound
      <4> QED
        BY <2>f, <4>1
    <3>7. HeadersInOrder(e)'
      BY <1>0, <2>f, <3>1, <3>2, <3>5, <3>6 DEF HeadersInOrder
    <3> QED
      BY <2>1, <3>7 DEF Direction
  <2> QED
    BY <2>2, <2>3, TwoEnds
<1> QED
  BY <1>1, <1>2 DEF NetInv

\* The body follows: the message that was begun is now sent.
LEMMA SendBodyInv ==
    ASSUME NetInv, NEW x \in Ends, SendBody(x)
    PROVE  NetInv'
<1>0. /\ pc[x] = "sendBody" /\ pc' = [pc EXCEPT ![x] = "idle"]
      /\ bq' = [bq EXCEPT ![Peer(x)] = Append(bq[Peer(x)], cur[x].body)]
      /\ sentLog' = [sentLog EXCEPT ![x] = Append(sentLog[x], cur[x])]
      /\ hq' = hq /\ header' = header /\ cur' = cur /\ rcvdLog' = rcvdLog
  BY DEF SendBody
<1>t. NetType
  BY DEF NetInv
<1>1. NetType'
  BY <1>0, <1>t, TwoEnds, SetsOfParts DEF NetType
<1>2. ASSUME NEW e \in Ends PROVE Direction(e)'
  <2>f. /\ HeadersInOrder(e) /\ BodiesInOrder(e) /\ ReceivedIsSent(e)
        /\ Peer(e) \in Ends /\ Peer(e) # e /\ Peer(Peer(e)) = e
        /\ bq[e] \in Seq(BodySet) /\ rcvdLog[e] \in Seq(Messages)
        /\ sentLog[Peer(e)] \in Seq(Messages)
        /\ Begun(Peer(e)) \in Seq(Messages) /\ Len(rcvdLog[e]) \in Nat
    BY DirectionFacts
  <2>0. HeadersInOrder(e)'
    <3>1. Begun(Peer(e))' = Begun(Peer(e))
      BY <1>0, <1>t, <2>f DEF Begun, NetType
    <3>2. Opened(e)' = Opened(e) /\ (pc'[e] = "recvBody" <=> pc[e] = "recvBody")
      BY <1>0, <1>t DEF Opened, NetType
    <3> QED
      BY <1>0, <2>f, <3>1, <3>2 DEF HeadersInOrder
  <2>2. CASE e = x
    <3>1. sentLog'[Peer(e)] = sentLog[Peer(e)] /\ bq'[e] = bq[e]
      BY <1>0, <1>t, <2>2, <2>f DEF NetType
    <3>2. BodiesInOrder(e)' /\ ReceivedIsSent(e)'
      BY <1>0, <2>f, <3>1 DEF BodiesInOrder, ReceivedIsSent
    <3> QED
      BY <2>0, <3>2 DEF Direction
  <2>3. CASE e = Peer(x)
    <3>0. x = Peer(e)
      BY <2>3, TwoEnds
    <3>1. sentLog'[Peer(e)] = Append(sentLog[Peer(e)], cur[x]) /\ bq'[e] = Append(bq[e], cur[x].body)
      BY <1>0, <1>t, <2>3, <3>0 DEF NetType
    <3>2. cur[x] \in Messages
      BY <1>t DEF NetType
    <3>3. BodiesInOrder(e)'
      <4>1. Waiting(bq[e], sentLog[Peer(e)], Len(rcvdLog[e]), BodyOf)
        BY <2>f DEF BodiesInOrder
      <4>2. BodyOf[cur[x]] = cur[x].body /\ BodyOf[cur[x]] \in BodySet
        BY <3>2, SetsOfParts
      <4>3. Waiting(Append(bq[e], BodyOf[cur[x]]), Append(sentLog[Peer(e)], cur[x]),
                    Len(rcvdLog[e]), BodyOf)
        BY <2>f, <3>2, <4>1, <4>2, WaitingAppend
      <4>4. Waiting(bq'[e], sentLog'[Peer(e)], Len(rcvdLog[e]), BodyOf)
        BY <3>1, <4>2, <4>3
      <4> QED
        BY <1>0, <4>4 DEF BodiesInOrder
    <3>4. ReceivedIsSent(e)'
      <4>1. Len(rcvdLog[e]) <= Len(sentLog[Peer(e)])
        BY <2>f, WaitingBound DEF BodiesInOrder
      <4>2. \A i \in 1 .. Len(rcvdLog[e]) : sentLog'[Peer(e)][i] = sentLog[Peer(e)][i]
        BY <2>f, <3>1, <4>1
      <4> QED
        BY <1>0, <2>f, <4>2 DEF ReceivedIsSent
    <3> QED
      BY <2>0, <3>3, <3>4 DEF Direction
  <2> QED
    BY <2>2, <2>3, TwoEnds
<1> QED
  BY <1>1, <1>2 DEF NetInv

\* The receiver takes the next header.
LEMMA RecvHeaderInv ==
    ASSUME NetInv, NEW x \in Ends, RecvHeader(x)
    PROVE  NetInv'
<1>0. /\ pc[x] = "idle" /\ hq[x] # <<>> /\ pc' = [pc EXCEPT ![x] = "recvBody"]
      /\ header' = [header EXCEPT ![x] = Head(hq[x])]
      /\ hq' = [hq EXCEPT ![x] = Tail(hq[x])]
      /\ bq' = bq /\ cur' = cur /\ sentLog' = sentLog /\ rcvdLog' = rcvdLog
  BY DEF RecvHeader
<1>t. NetType
  BY DEF NetInv
<1>1. NetType'
  BY <1>0, <1>t DEF NetType
<1>2. ASSUME NEW e \in Ends PROVE Direction(e)'
  <2>f. /\ HeadersInOrder(e) /\ BodiesInOrder(e) /\ ReceivedIsSent(e)
        /\ Peer(e) \in Ends /\ Peer(e) # e /\ hq[e] \in Seq(HeaderSet)
        /\ Opened(e) \in Nat /\ rcvdLog[e] \in Seq(Messages)
        /\ Begun(Peer(e)) \in Seq(Messages) /\ Len(rcvdLog[e]) \in Nat
    BY DirectionFacts
  <2>0. BodiesInOrder(e)' /\ ReceivedIsSent(e)'
    BY <1>0, <2>f DEF BodiesInOrder, ReceivedIsSent
  <2>1. Begun(Peer(e))' = Begun(Peer(e))
    BY <1>0, <1>t, <2>f DEF Begun, NetType
  <2>2. CASE e = x
    <3>1. Opened(e)' = Opened(e) + 1
      BY <1>0, <1>t, <2>2, <2>f DEF Opened, NetType
    <3>2. hq'[e] = Tail(hq[e]) /\ header'[e] = Head(hq[e]) /\ hq[e] # <<>>
      BY <1>0, <1>t, <2>2 DEF NetType
    <3>3. /\ Waiting(hq'[e], Begun(Peer(e)), Opened(e) + 1, HdrOf)
          /\ header'[e] = HdrOf[Begun(Peer(e))[Opened(e) + 1]]
      BY <2>f, <3>2, WaitingTail DEF HeadersInOrder
    <3>4. HeadersInOrder(e)'
      BY <2>1, <3>1, <3>3 DEF HeadersInOrder
    <3> QED
      BY <2>0, <3>4 DEF Direction
  <2>3. CASE e # x
    <3>1. Opened(e)' = Opened(e) /\ hq'[e] = hq[e] /\ header'[e] = header[e] /\ pc'[e] = pc[e]
      BY <1>0, <1>t, <2>3 DEF NetType, Opened
    <3>2. HeadersInOrder(e)'
      BY <2>1, <2>f, <3>1 DEF HeadersInOrder
    <3> QED
      BY <2>0, <3>2 DEF Direction
  <2> QED
    BY <2>2, <2>3
<1> QED
  BY <1>1, <1>2 DEF NetInv

\* The receiver takes the next body; with the header it holds this is the next
\* message that was sent.
LEMMA RecvBodyInv ==
    ASSUME NetInv, NEW x \in Ends, RecvBody(x)
    PROVE  NetInv'
<1> DEFINE got == [header |-> header[x].header, hsize |-> header[x].hsize, body |-> Head(bq[x])]
           n == Len(rcvdLog[x])
<1>0. /\ pc[x] = "recvBody" /\ bq[x] # <<>> /\ pc' = [pc EXCEPT ![x] = "idle"]
      /\ bq' = [bq EXCEPT ![x] = Tail(bq[x])]
      /\ rcvdLog' = [rcvdLog EXCEPT ![x] = Append(rcvdLog[x], got)]
      /\ hq' = hq /\ header' = header /\ cur' = cur /\ sentLog' = sentLog
  BY DEF RecvBody, FirstBody
<1>t. NetType
  BY DEF NetInv
<1>f. /\ HeadersInOrder(x) /\ BodiesInOrder(x) /\ Peer(x) \in Ends
      /\ bq[x] \in Seq(BodySet) /\ rcvdLog[x] \in Seq(Messages)
      /\ sentLog[Peer(x)] \in Seq(Messages)
      /\ Begun(Peer(x)) \in Seq(Messages) /\ Len(rcvdLog[x]) \in Nat
  BY DirectionFacts
<1>b. /\ n + 1 \in 1 .. Len(sentLog[Peer(x)]) /\ Head(bq[x]) = BodyOf[sentLog[Peer(x)][n + 1]]
      /\ Waiting(Tail(bq[x]), sentLog[Peer(x)], n + 1, BodyOf)
  BY <1>0, <1>f, WaitingTail DEF BodiesInOrder
<1>c. header[x] = HdrOf[sentLog[Peer(x)][n + 1]]
  <2>1. header[x] = HdrOf[Begun(Peer(x))[n + 1]]
    BY <1>0, <1>f DEF HeadersInOrder, Opened
  <2>2. Begun(Peer(x))[n + 1] = sentLog[Peer(x)][n + 1]
    BY <1>b, <1>f DEF Begun
  <2> QED
    BY <2>1, <2>2
<1>d. got = sentLog[Peer(x)][n + 1] /\ got \in Messages
  <2>1. sentLog[Peer(x)][n + 1] \in Messages
    BY <1>b, <1>f
  <2> DEFINE msg == sentLog[Peer(x)][n + 1]
  <2>2. header[x] = Hdr(msg) /\ Head(bq[x]) = msg.body
    BY <1>b, <1>c, <2>1, SetsOfParts
  <2>3. msg = [header |-> msg.header, hsize |-> msg.hsize, body |-> msg.body]
    BY <2>1, NetAssumption
  <2>4. header[x].header = msg.header /\ header[x].hsize = msg.hsize
    BY <2>2 DEF Hdr
  <2> HIDE DEF msg
  <2>5. got = msg
    BY <2>2, <2>3, <2>4
  <2> QED
    BY <2>1, <2>5 DEF msg
<1> HIDE DEF got
<1>1. NetType'
  BY <1>0, <1>d, <1>t DEF NetType
<1>2. ASSUME NEW e \in Ends PROVE Direction(e)'
  <2>f. /\ HeadersInOrder(e) /\ BodiesInOrder(e) /\ ReceivedIsSent(e)
        /\ Peer(e) \in Ends /\ Peer(e) # e /\ bq[e] \in Seq(BodySet)
        /\ rcvdLog[e] \in Seq(Messages) /\ sentLog[Peer(e)] \in Seq(Messages)
        /\ Begun(Peer(e)) \in Seq(Messages) /\ Len(rcvdLog[e]) \in Nat
    BY DirectionFacts
  <2>1. Begun(Peer(e))' = Begun(Peer(e))
    BY <1>0, <1>t, <2>f DEF Begun, NetType
  <2>2. CASE e = x
    <3>1. Opened(e)' = Opened(e) /\ pc'[e] # "recvBody"
      BY <1>0, <1>t, <2>2, <2>f DEF Opened, NetType
    <3>2. HeadersInOrder(e)'
      BY <1>0, <2>1, <2>f, <3>1 DEF HeadersInOrder
    <3>x. /\ rcvdLog'[e] = Append(rcvdLog[e], got) /\ bq'[e] = Tail(bq[e]) /\ bq[e] # <<>>
          /\ got = sentLog[Peer(e)][Len(rcvdLog[e]) + 1] /\ sentLog' = sentLog
      BY <1>0, <1>d, <1>t, <2>2 DEF NetType
    <3>y. Len(rcvdLog'[e]) = Len(rcvdLog[e]) + 1 /\ rcvdLog'[e][Len(rcvdLog[e]) + 1] = got
          /\ \A i \in 1 .. Len(rcvdLog[e]) : rcvdLog'[e][i] = rcvdLog[e][i]
      BY <2>f, <3>x
    <3>3. BodiesInOrder(e)'
      BY <1>b, <2>2, <3>x, <3>y DEF BodiesInOrder
    <3>4. ReceivedIsSent(e)'
      <4>1. ASSUME NEW i \in 1 .. Len(rcvdLog'[e]) PROVE rcvdLog'[e][i] = sentLog[Peer(e)][i]
        <5>1. i \in 1 .. Len(rcvdLog[e]) \/ i = Len(rcvdLog[e]) + 1
          BY <2>f, <3>y
        <5> QED
          BY <2>f, <3>x, <3>y, <5>1 DEF ReceivedIsSent
      <4> QED
        BY <3>x, <4>1 DEF ReceivedIsSent
    <3> QED
      BY <3>2, <3>3, <3>4 DEF Direction
  <2>3. CASE e # x
    <3>1. Opened(e)' = Opened(e) /\ pc'[e] = pc[e] /\ rcvdLog'[e] = rcvdLog[e] /\ bq'[e] = bq[e]
      BY <1>0, <1>t, <2>3 DEF NetType, Opened
    <3>2. HeadersInOrder(e)'
      BY <1>0, <2>1, <2>f, <3>1 DEF HeadersInOrder
    <3>3. BodiesInOrder(e)' /\ ReceivedIsSent(e)'
      BY <1>0, <2>f, <3>1 DEF BodiesInOrder, ReceivedIsSent
    <3> QED
      BY <3>2, <3>3 DEF Direction
  <2> QED
    BY <2>2, <2>3
<1> QED
  BY <1>1, <1>2 DEF NetInv

\* The invariant holds throughout.
LEMMA NetInvAlways == Spec => []NetInv
<1>1. NetInv /\ [Next]_vars => NetInv'
  <2> SUFFICES ASSUME NetInv, [Next]_vars PROVE NetInv'
    OBVIOUS
  <2>1. CASE UNCHANGED vars
    BY <2>1 DEF vars, NetInv, NetType, Direction, HeadersInOrder, BodiesInOrder, ReceivedIsSent,
                Begun, Opened
  <2>2. ASSUME NEW x \in Ends, GetDataAsVector(x) PROVE NetInv'
    BY <2>2 DEF GetDataAsVector, NetInv, NetType, Direction, HeadersInOrder, BodiesInOrder,
                ReceivedIsSent, Begun, Opened
  <2> QED
    BY <2>1, <2>2, SendHeaderInv, SendBodyInv, RecvHeaderInv, RecvBodyInv DEF Next
<1> QED
  BY InitNetInv, <1>1, PTL DEF Spec

\* Every end receives the other's messages in order, each header with its own
\* body, although MPIClient::send and recv pass them as two MPI messages with
\* different tags: for every set of messages and every interleaving of the two ends.
THEOREM InOrderDeliveryAlways == Spec => []InOrderDelivery
<1>1. NetInv => InOrderDelivery
  <2> SUFFICES ASSUME NetInv, NEW e \in Ends
               PROVE  IsPrefix(rcvdLog[e], sentLog[Peer(e)])
    BY DEF InOrderDelivery
  <2>1. /\ rcvdLog[e] \in Seq(Messages) /\ sentLog[Peer(e)] \in Seq(Messages)
        /\ BodiesInOrder(e) /\ ReceivedIsSent(e) /\ bq[e] \in Seq(BodySet)
        /\ Len(rcvdLog[e]) \in Nat
    BY DirectionFacts
  <2>2. Len(rcvdLog[e]) <= Len(sentLog[Peer(e)])
    BY <2>1, WaitingBound DEF BodiesInOrder
  <2> QED
    BY <2>1, <2>2 DEF ReceivedIsSent, IsPrefix
<1> QED
  BY NetInvAlways, <1>1, PTL

-----------------------------------------------------------------------------
(* What a read sees. *)

\* The bytes of a value in the buffer, and of each value of a sequence.
Size1(x) == IF x = Junk THEN 1 ELSE RawSize[x]
Sizes(s) == [i \in DOMAIN s |-> Size1(s[i])]

\* What the buffer may hold.
Values == Elems \cup {Junk}

\* Sizes are natural numbers.
LEMMA SizesNat ==
    ASSUME NEW s \in Seq(Values)
    PROVE  /\ DOMAIN s = 1 .. Len(s) /\ Len(s) \in Nat /\ IsFiniteSet(1 .. Len(s))
           /\ \A i \in 1 .. Len(s) : Sizes(s)[i] = Size1(s[i]) /\ Sizes(s)[i] \in Nat \ {0}
<1>1. DOMAIN s = 1 .. Len(s) /\ Len(s) \in Nat
  OBVIOUS
<1>2. IsFiniteSet(1 .. Len(s))
  BY <1>1, FS_Interval
<1>3. \A x \in Values : Size1(x) \in Nat \ {0}
  BY NetAssumption DEF Values, Size1
<1>4. \A i \in 1 .. Len(s) : s[i] \in Values
  OBVIOUS
<1> QED
  BY <1>1, <1>2, <1>3, <1>4 DEF Sizes

\* Bytes is the sum of the sizes.
LEMMA BytesSum ==
    ASSUME NEW s \in Seq(Values)
    PROVE  Bytes(s) = SumFunctionOnSet(Sizes(s), 1 .. Len(s)) /\ Bytes(s) \in Nat
<1>1. Bytes(s) = SumFunctionOnSet(Sizes(s), DOMAIN Sizes(s))
  BY DEF Bytes, Sizes, Size1, SumFunction, FoldFunction, SumFunctionOnSet
<1>2. DOMAIN Sizes(s) = 1 .. Len(s)
  BY SizesNat DEF Sizes
<1>3. SumFunctionOnSet(Sizes(s), 1 .. Len(s)) \in Nat
  BY SizesNat, SumNat
<1> QED
  BY <1>1, <1>2, <1>3

\* A further value adds its own bytes.
LEMMA BytesAppend ==
    ASSUME NEW s \in Seq(Values), NEW x \in Values
    PROVE  Bytes(Append(s, x)) > Bytes(s)
<1> DEFINE t == Append(s, x)
           n == Len(s)
<1>1. t \in Seq(Values) /\ Len(t) = n + 1 /\ n \in Nat /\ \A i \in 1 .. n : t[i] = s[i]
  OBVIOUS
<1> HIDE DEF t
<1>2. 1 .. n + 1 = (1 .. n) \cup {n + 1} /\ n + 1 \notin 1 .. n
  BY <1>1
<1>3. \A i \in (1 .. n) \cup {n + 1} : Sizes(t)[i] \in Nat \ {0} /\ Sizes(t)[i] \in Int
  BY <1>1, <1>2, SizesNat
<1>4. IsFiniteSet(1 .. n)
  BY SizesNat
<1>5. SumFunctionOnSet(Sizes(t), (1 .. n) \cup {n + 1})
        = Sizes(t)[n + 1] + SumFunctionOnSet(Sizes(t), 1 .. n)
  <2> HIDE DEF n
  <2> QED
    BY <1>2, <1>3, <1>4, SumAdd
<1>6. \A i \in 1 .. n : Sizes(s)[i] \in Int /\ Sizes(t)[i] = Sizes(s)[i]
  <2> SUFFICES ASSUME NEW i \in 1 .. n PROVE Sizes(s)[i] \in Int /\ Sizes(t)[i] = Sizes(s)[i]
    OBVIOUS
  <2>1. Sizes(s)[i] = Size1(s[i]) /\ Sizes(s)[i] \in Nat
    BY SizesNat
  <2>2. i \in 1 .. Len(t)
    BY <1>1
  <2>3. Sizes(t)[i] = Size1(t[i])
    BY <1>1, <2>2, SizesNat
  <2> QED
    BY <1>1, <2>1, <2>3
<1>7. SumFunctionOnSet(Sizes(s), 1 .. n) = SumFunctionOnSet(Sizes(t), 1 .. n)
  BY <1>4, <1>6, SumSame
<1>8. Bytes(s) = SumFunctionOnSet(Sizes(s), 1 .. n) /\ Bytes(s) \in Nat
  BY BytesSum
<1>9. Bytes(t) = SumFunctionOnSet(Sizes(t), (1 .. n) \cup {n + 1})
  BY <1>1, <1>2, BytesSum
<1>10. Bytes(t) = Sizes(t)[n + 1] + Bytes(s) /\ Sizes(t)[n + 1] \in Nat \ {0}
  BY <1>3, <1>5, <1>7, <1>8, <1>9
<1>11. Bytes(t) > Bytes(s)
  BY <1>8, <1>10
<1> QED
  BY <1>11 DEF t

\* The body received last, with what an earlier and longer one left behind it,
\* and the number of its bytes as long as no other message has been counted.
Buffered(e) ==
    IF rcvdLog[e] = <<>> THEN buf[e] = <<>> /\ Available(e) = 0
    ELSE LET body == rcvdLog[e][Len(rcvdLog[e])].body
         IN  /\ buf[e] = body \/ buf[e] = Append(body, Junk)
             /\ Available(e) = 0 \/ Available(e) = Bytes(body)

\* The types of the buffer.
BufType ==
    /\ buf = [e \in Ends |-> buf[e]] /\ msgStat = [e \in Ends |-> msgStat[e]]
    /\ vec = [e \in Ends |-> vec[e]]

\* The inductive invariant of the buffer.
ReadInv == BufType /\ \A e \in Ends : Buffered(e)

\* Nothing received.
LEMMA InitReadInv == Init => ReadInv
<1> SUFFICES ASSUME Init PROVE ReadInv
  OBVIOUS
<1>1. BufType
  BY DEF Init, BufType
<1>2. ASSUME NEW e \in Ends PROVE Buffered(e)
  <2>1. rcvdLog[e] = <<>> /\ buf[e] = <<>> /\ msgStat[e] = NoStat
    BY DEF Init
  <2>2. Available(e) = 0
    BY <2>1 DEF Available, DataBytesRecv, NoStat
  <2> QED
    BY <2>1, <2>2 DEF Buffered
<1> QED
  BY <1>1, <1>2 DEF ReadInv

\* A step that leaves the buffer and the log alone and clears the count of
\* received bytes at most at one end.
LEMMA ClearedReadInv ==
    ASSUME ReadInv, UNCHANGED <<buf, rcvdLog, vec>>, NEW x \in Ends, NEW s,
           msgStat' = [msgStat EXCEPT ![x] = s], DataBytesRecv(s) = 0
    PROVE  ReadInv'
<1>1. BufType'
  BY DEF ReadInv, BufType
<1>2. ASSUME NEW e \in Ends PROVE Buffered(e)'
  <2>1. Buffered(e) /\ buf'[e] = buf[e] /\ rcvdLog'[e] = rcvdLog[e]
    BY DEF ReadInv
  <2>2. msgStat'[e] = IF e = x THEN s ELSE msgStat[e]
    BY DEF ReadInv, BufType
  <2>3. Available(e)' = 0 \/ Available(e)' = Available(e)
    BY <2>2 DEF Available, DataBytesRecv
  <2>4. UNCHANGED rcvdLog
    OBVIOUS
  <2> QED
    BY <2>1, <2>3, <2>4 DEF Buffered, Bytes
<1> QED
  BY <1>1, <1>2 DEF ReadInv

\* The messages are sequences of numbers, whose sizes are known.
LEMMA BodyValues ==
    ASSUME NEW msg \in Messages
    PROVE  msg.body \in Seq(Values) /\ msg.hsize \in Nat
<1>1. msg.body \in Seq(Elems) /\ msg.hsize \in Nat
  BY NetAssumption
<1>2. Elems \subseteq Values
  BY DEF Values
<1> QED
  BY <1>1, <1>2

\* A body overwrites the start of the buffer, and its bytes are counted.
LEMMA RecvBodyReadInv ==
    ASSUME NetInv, ReadInv, NEW x \in Ends, RecvBody(x)
    PROVE  ReadInv'
<1> DEFINE body == Head(bq[x])
           size == Bytes(body)
           h == header[x].hsize
           got == [header |-> header[x].header, hsize |-> h, body |-> body]
<1>0. /\ bq[x] # <<>>
      /\ buf' = [buf EXCEPT ![x] = IF cap[x] < size THEN body ELSE Overlay(body, buf[x])]
      /\ msgStat' = [msgStat EXCEPT ![x] = setRecvStats(msgStat[x], h + size, h)]
      /\ rcvdLog' = [rcvdLog EXCEPT ![x] = Append(rcvdLog[x], got)]
      /\ vec' = vec
  BY DEF RecvBody, FirstBody
<1>1. body \in BodySet /\ header[x] \in HeaderSet /\ rcvdLog[x] \in Seq(Messages)
      /\ rcvdLog \in [Ends -> Seq(Messages)]
  <2>1. bq[x] \in Seq(BodySet)
    BY DEF NetInv, NetType
  <2> QED
    BY <1>0, <2>1 DEF NetInv, NetType
<1>2. body \in Seq(Values) /\ h \in Nat
  BY <1>1, BodyValues DEF BodySet, HeaderSet, Hdr
<1>3. size \in Nat
  BY <1>2, BytesSum
<1>4. BufType'
  BY <1>0 DEF ReadInv, BufType
<1>5. ASSUME NEW e \in Ends, e # x PROVE Buffered(e)'
  <2>1. /\ buf'[e] = buf[e] /\ rcvdLog'[e] = rcvdLog[e] /\ msgStat'[e] = msgStat[e]
    BY <1>0, <1>1, <1>5 DEF ReadInv, BufType
  <2>2. Available(e)' = Available(e) /\ Buffered(e)
    BY <2>1 DEF Available, DataBytesRecv, ReadInv
  <2> QED
    BY <2>1, <2>2 DEF Buffered, Bytes
<1>6. Buffered(x)'
  <2>1. buf'[x] = body \/ buf'[x] = Append(body, Junk)
    BY <1>0 DEF ReadInv, BufType, Overlay
  <2>2. msgStat'[x] = setRecvStats(msgStat[x], h + size, h)
    BY <1>0 DEF ReadInv, BufType
  <2>3. Available(x)' = (h + size) - h
    <3> HIDE DEF h, size
    <3> QED
      BY <2>2 DEF Available, DataBytesRecv, setRecvStats, NoStat
  <2>4. (h + size) - h = size
    <3> HIDE DEF h, size
    <3> QED
      BY <1>2, <1>3
  <2>5. rcvdLog'[x] = Append(rcvdLog[x], got)
    BY <1>0, <1>1
  <2>6. Len(rcvdLog[x]) \in Nat /\ \A y : /\ Append(rcvdLog[x], y) # <<>>
                                           /\ Len(Append(rcvdLog[x], y)) = Len(rcvdLog[x]) + 1
                                           /\ Append(rcvdLog[x], y)[Len(rcvdLog[x]) + 1] = y
    BY <1>1
  <2>7. rcvdLog'[x] # <<>> /\ rcvdLog'[x][Len(rcvdLog'[x])] = got /\ got.body = body
    <3>1. got.body = body
      OBVIOUS
    <3> HIDE DEF got
    <3> QED
      BY <2>5, <2>6, <3>1
  <2>8. rcvdLog'[x][Len(rcvdLog'[x])].body = body
    <3> HIDE DEF got, body
    <3> QED
      BY <2>7
  <2>9. Available(x)' = Bytes(body)
    BY <2>3, <2>4
  <2> HIDE DEF body, size
  <2> QED
    BY <2>1, <2>7, <2>8, <2>9 DEF Buffered, Bytes
<1> QED
  BY <1>4, <1>5, <1>6 DEF ReadInv

\* Both invariants hold throughout.
LEMMA ReadInvAlways == Spec => [](NetInv /\ ReadInv)
<1>1. NetInv /\ ReadInv /\ [Next]_vars => ReadInv'
  <2> SUFFICES ASSUME NetInv, ReadInv, [Next]_vars PROVE ReadInv'
    OBVIOUS
  <2>1. CASE UNCHANGED vars
    BY <2>1 DEF vars, ReadInv, BufType, Buffered, Available, DataBytesRecv, Bytes
  <2>2. ASSUME NEW x \in Ends, GetDataAsVector(x) PROVE ReadInv'
    <3>1. UNCHANGED <<buf, rcvdLog, msgStat>>
      BY <2>2 DEF GetDataAsVector
    <3>2. vec' = [e \in Ends |-> vec'[e]]
      <4>1. \E f : vec' = [vec EXCEPT ![x] = f]
        BY <2>2 DEF GetDataAsVector
      <4> QED
        BY <4>1 DEF ReadInv, BufType
    <3> QED
      BY <3>1, <3>2 DEF ReadInv, BufType, Buffered, Available, DataBytesRecv, Bytes
  <2>3. ASSUME NEW x \in Ends, NEW m \in Messages, SendHeader(x, m) PROVE ReadInv'
    BY <2>3 DEF SendHeader, ReadInv, BufType, Buffered, Available, DataBytesRecv, Bytes
  <2>4. ASSUME NEW x \in Ends, SendBody(x) PROVE ReadInv'
    <3> DEFINE b == cur[x].hsize + Bytes(cur[x].body)
               s == setSendStats(msgStat[x], b, cur[x].hsize)
    <3>1. UNCHANGED <<buf, rcvdLog, vec>> /\ msgStat' = [msgStat EXCEPT ![x] = s]
      BY <2>4 DEF SendBody
    <3> HIDE DEF b
    <3>2. DataBytesRecv(s) = 0
      BY DEF DataBytesRecv, setSendStats, NoStat
    <3> HIDE DEF s
    <3> QED
      BY <3>1, <3>2, ClearedReadInv
  <2>5. ASSUME NEW x \in Ends, RecvHeader(x) PROVE ReadInv'
    <3>1. UNCHANGED <<buf, rcvdLog, vec>> /\ msgStat' = [msgStat EXCEPT ![x] = NoStat]
      BY <2>5 DEF RecvHeader
    <3>2. DataBytesRecv(NoStat) = 0
      BY DEF DataBytesRecv, NoStat
    <3> QED
      BY <3>1, <3>2, ClearedReadInv
  <2> QED
    BY <2>1, <2>2, <2>3, <2>4, <2>5, RecvBodyReadInv DEF Next
<1> QED
  BY InitReadInv, NetInvAlways, <1>1, PTL DEF Spec

\* The buffer of an end, with its types.
LEMMA BufferFacts ==
    ASSUME NetInv, ReadInv, NEW e \in Ends
    PROVE  /\ buf[e] \in Seq(Values) /\ Available(e) \in Nat
           /\ IF rcvdLog[e] = <<>> THEN buf[e] = <<>>
              ELSE LET body == rcvdLog[e][Len(rcvdLog[e])].body
                   IN  /\ body \in Seq(Values)
                       /\ buf[e] = body \/ buf[e] = Append(body, Junk)
                       /\ Available(e) <= Bytes(body)
<1>0. Buffered(e) /\ rcvdLog[e] \in Seq(Messages)
  BY DEF ReadInv, NetInv, NetType
<1>1. CASE rcvdLog[e] = <<>>
  <2>1. buf[e] = <<>> /\ Available(e) = 0
    BY <1>0, <1>1 DEF Buffered
  <2>2. <<>> \in Seq(Values) /\ 0 \in Nat
    OBVIOUS
  <2> QED
    BY <1>1, <2>1, <2>2
<1>2. CASE rcvdLog[e] # <<>>
  <2> DEFINE body == rcvdLog[e][Len(rcvdLog[e])].body
  <2>1. rcvdLog[e][Len(rcvdLog[e])] \in Messages
    BY <1>0, <1>2
  <2>2. body \in Seq(Values) /\ Junk \in Values
    BY <2>1, BodyValues DEF Values
  <2>3. Bytes(body) \in Nat
    BY <2>2, BytesSum
  <2>4. /\ buf[e] = body \/ buf[e] = Append(body, Junk)
        /\ Available(e) = 0 \/ Available(e) = Bytes(body)
    BY <1>0, <1>2 DEF Buffered
  <2>5. Append(body, Junk) \in Seq(Values)
    BY <2>2
  <2>6. Available(e) \in Nat /\ Available(e) <= Bytes(body)
    BY <2>3, <2>4
  <2> QED
    BY <1>2, <2>2, <2>4, <2>5, <2>6
<1> QED
  BY <1>1, <1>2

\* A longest prefix of the buffer is complete in the available bytes.
LEMMA WholeExists ==
    ASSUME NEW b \in Seq(Values), NEW a \in Nat
    PROVE  \E n \in 0 .. Len(b) : /\ Bytes(SubSeq(b, 1, n)) <= a
                                  /\ \A k \in n + 1 .. Len(b) : ~(Bytes(SubSeq(b, 1, k)) <= a)
<1> DEFINE W == {n \in Nat : Bytes(SubSeq(b, 1, n)) <= a}
<1>1. <<>> \in Seq(Values) /\ Len(<<>>) = 0 /\ 1 .. 0 = {}
  OBVIOUS
<1>2. Bytes(<<>>) = SumFunctionOnSet(Sizes(<<>>), 1 .. Len(<<>>))
  BY <1>1, BytesSum
<1>3. Bytes(<<>>) = 0
  BY <1>1, <1>2, SumEmpty
<1>4. SubSeq(b, 1, 0) = <<>>
  OBVIOUS
<1>5. 0 \in W
  <2>1. Bytes(SubSeq(b, 1, 0)) = 0
    BY <1>3, <1>4
  <2>2. 0 <= a /\ 0 \in Nat
    OBVIOUS
  <2> QED
    BY <2>1, <2>2
<1>6. Len(b) \in Nat
  OBVIOUS
<1>7. \E n \in 0 .. Len(b) : n \in W /\ \A k \in n + 1 .. Len(b) : k \notin W
  <2> HIDE DEF W
  <2> QED
    BY <1>5, <1>6, LargestExists
<1>8. PICK n \in 0 .. Len(b) : n \in W /\ \A k \in n + 1 .. Len(b) : k \notin W
  BY <1>7
<1>9. \A k \in n + 1 .. Len(b) : k \in Nat
  BY <1>6
<1> QED
  BY <1>8, <1>9

\* It never reaches the junk behind the body.
LEMMA WholeIsBody ==
    ASSUME NEW body \in Seq(Values), NEW b, b = body \/ b = Append(body, Junk),
           NEW n \in 0 .. Len(b), Bytes(SubSeq(b, 1, n)) <= Bytes(body)
    PROVE  n <= Len(body)
<1>0. Junk \in Values
  BY DEF Values
<1>1. b \in Seq(Values) /\ Len(b) \in Nat /\ Len(body) \in Nat
  BY <1>0
<1> SUFFICES ASSUME n > Len(body) PROVE FALSE
  BY <1>1
<1>2. b = Append(body, Junk) /\ n = Len(b)
  BY <1>1
<1>3. SubSeq(b, 1, Len(b)) = b
  BY <1>1
<1>4. Bytes(b) > Bytes(body)
  BY <1>0, <1>2, BytesAppend
<1>5. Bytes(b) \in Nat /\ Bytes(body) \in Nat
  BY <1>1, BytesSum
<1>6. Bytes(b) <= Bytes(body)
  BY <1>2, <1>3
<1> QED
  BY <1>4, <1>5, <1>6

\* The numbers that are complete in the available bytes are a prefix of the last
\* message.
LEMMA ReadIsPrefix ==
    ASSUME NetInv, ReadInv, NEW e \in Ends,
           NEW n \in 0 .. Len(buf[e]), Bytes(SubSeq(buf[e], 1, n)) <= Available(e),
           NEW i \in 1 .. VecLen, i <= n
    PROVE  /\ rcvdLog[e] # <<>>
           /\ i <= Len(Last(rcvdLog[e]).body) /\ buf[e][i] = Last(rcvdLog[e]).body[i]
<1> DEFINE b == buf[e]
           body == rcvdLog[e][Len(rcvdLog[e])].body
<1>1. b \in Seq(Values) /\ Len(b) \in Nat /\ Available(e) \in Nat
  BY BufferFacts
<1>2. i \in Nat /\ i >= 1 /\ n \in Nat
  BY <1>1, NetAssumption
<1>3. rcvdLog[e] # <<>>
  <2> SUFFICES ASSUME rcvdLog[e] = <<>> PROVE FALSE
    OBVIOUS
  <2>1. b = <<>>
    BY BufferFacts
  <2>2. Len(b) = 0
    BY <2>1
  <2> QED
    BY <1>2, <2>2
<1>4. /\ body \in Seq(Values) /\ (b = body \/ b = Append(body, Junk)) /\ Available(e) <= Bytes(body)
  BY <1>3, BufferFacts
<1>5. Last(rcvdLog[e]).body = body
  BY DEF Last
<1>6. Bytes(SubSeq(b, 1, n)) <= Bytes(body)
  <2> DEFINE s == SubSeq(b, 1, n)
  <2>1. s \in Seq(Values)
    BY <1>1, <1>2
  <2>2. Bytes(s) \in Nat /\ Bytes(body) \in Nat
    BY <1>4, <2>1, BytesSum
  <2>3. Bytes(s) <= Available(e)
    OBVIOUS
  <2> HIDE DEF s, body
  <2> QED
    BY <1>1, <1>4, <2>2, <2>3 DEF s
<1> HIDE DEF body
<1>7. n <= Len(body)
  <2> HIDE DEF b
  <2>1. n \in 0 .. Len(b)
    BY DEF b
  <2> QED
    BY <1>4, <1>6, <2>1, WholeIsBody
<1> HIDE DEF b
<1>8. i \in 1 .. Len(body) /\ Len(body) \in Nat
  BY <1>2, <1>4, <1>7
<1>9. b[i] = body[i]
  BY <1>4, <1>8
<1> QED
  BY <1>3, <1>5, <1>8, <1>9 DEF b

\* Every entry that a read changes in the caller's vector comes from the same
\* place of the last message received, for every set of messages and buffer
\* length: the bytes that an earlier, longer message left in msgBuf are never
\* taken for data, also when a message was sent in between (getDataAsVector).
THEOREM ReadsLastMessageAlways == Spec => ReadsLastMessage
<1> DEFINE Step == \A e \in Ends : vec'[e] # vec[e] =>
                     \A i \in 1 .. VecLen : vec'[e][i] # vec[e][i] =>
                       /\ rcvdLog[e] # <<>>
                       /\ i <= Len(Last(rcvdLog[e]).body)
                       /\ vec'[e][i] = Last(rcvdLog[e]).body[i]
<1>1. ASSUME NetInv, ReadInv, [Next]_vars PROVE [Step]_vars
  <2>1. CASE vec' = vec
    BY <2>1
  <2>2. ASSUME NEW x \in Ends, GetDataAsVector(x) PROVE Step
    <3> DEFINE nv == CHOOSE n \in 0 .. Len(buf[x]) :
                      /\ Bytes(SubSeq(buf[x], 1, n)) <= Available(x)
                      /\ \A k \in n + 1 .. Len(buf[x]) : ~(Bytes(SubSeq(buf[x], 1, k)) <= Available(x))
    <3>1. vec' = [vec EXCEPT ![x] = [i \in 1 .. VecLen |-> IF i <= nv THEN buf[x][i] ELSE vec[x][i]]]
      BY <2>2 DEF GetDataAsVector
    <3> HIDE DEF nv
    <3>2. ASSUME NEW e \in Ends, NEW i \in 1 .. VecLen, vec'[e][i] # vec[e][i]
          PROVE  e = x /\ i <= nv /\ vec'[e][i] = buf[x][i]
      BY <1>1, <3>1, <3>2 DEF ReadInv, BufType
    <3>3. ASSUME NEW i \in 1 .. VecLen, i <= nv
          PROVE  /\ rcvdLog[x] # <<>>
                 /\ i <= Len(Last(rcvdLog[x]).body) /\ buf[x][i] = Last(rcvdLog[x]).body[i]
      <4>1. buf[x] \in Seq(Values) /\ Available(x) \in Nat
        BY <1>1, BufferFacts
      <4>2. nv \in 0 .. Len(buf[x]) /\ Bytes(SubSeq(buf[x], 1, nv)) <= Available(x)
        BY <4>1, WholeExists DEF nv
      <4> QED
        BY <1>1, <3>3, <4>2, ReadIsPrefix
    <3> QED
      BY <3>2, <3>3
  <2>3. CASE Next
    <3>1. ASSUME NEW x \in Ends, NEW m \in Messages, SendHeader(x, m) PROVE vec' = vec
      BY <3>1 DEF SendHeader
    <3>2. ASSUME NEW x \in Ends, SendBody(x) \/ RecvHeader(x) \/ RecvBody(x) PROVE vec' = vec
      BY <3>2 DEF SendBody, RecvHeader, RecvBody
    <3> HIDE DEF Step
    <3> QED
      BY <2>1, <2>2, <2>3, <3>1, <3>2 DEF Next
  <2> QED
    BY <1>1, <2>3
<1> QED
  BY ReadInvAlways, <1>1, PTL DEF Spec, ReadsLastMessage
=============================================================================
