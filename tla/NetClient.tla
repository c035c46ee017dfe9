------------------------------- MODULE NetClient -------------------------------
(***************************************************************************)
(* One pair of NetClient/MPIClient objects (cmtgkr/net): a message is two  *)
(* MPI messages with different tags, header and body, and the receiver     *)
(* keeps the last body in a buffer that grows on demand.  A body is a      *)
(* sequence of GMP numbers; only their sizes in bytes matter.  The two     *)
(* ends send and receive as they like: CmtProtocol says when they do.      *)
(***************************************************************************)
EXTENDS Integers, SequencesExt

CONSTANTS Elems, RawSize,       \* numbers and their sizes on the wire
          Messages,             \* [header, hsize, body]
          InitialLen,           \* DEFAULT_MSGBUF_LEN
          VecLen,               \* size of the caller's vector
          MaxSent               \* bound: messages per end

ASSUME NetAssumption ==
    /\ RawSize \in [Elems -> Nat \ {0}]
    /\ Messages # {} /\ InitialLen \in Nat \ {0} /\ VecLen \in Nat /\ MaxSent \in Nat
    /\ \A m \in Messages : /\ m = [header |-> m.header, hsize |-> m.hsize, body |-> m.body]
                           /\ m.hsize \in Nat /\ m.body \in Seq(Elems)

Ends == {"verifier", "prover"}
Peer(e) == IF e = "verifier" THEN "prover" ELSE "verifier"

\* What lies in the buffer behind the last body, and in a vector never filled.
Junk == "junk"

\* Size of a body; junk counts as one byte.
Bytes(body) == SumFunction([i \in DOMAIN body |-> IF body[i] = Junk THEN 1 ELSE RawSize[body[i]]])

VARIABLES hq, bq,        \* undelivered headers and bodies, per receiver
          pc, cur,       \* what an end is doing, and the message it is sending
          header, buf, cap,          \* msgHeader, msgBuf, msgBufLen
          msgStat, stat,             \* statistics of the last message, of all messages
          vec,                       \* the caller's vector
          sentLog, rcvdLog           \* messages sent and received (history)

vars == <<hq, bq, pc, cur, header, buf, cap, msgStat, stat, vec, sentLog, rcvdLog>>

NoStat == [sent |-> 0, recv |-> 0, sentOverhead |-> 0, recvOverhead |-> 0]

Init ==
    /\ hq = [e \in Ends |-> <<>>] /\ bq = [e \in Ends |-> <<>>]
    /\ pc = [e \in Ends |-> "idle"]
    /\ cur = [e \in Ends |-> CHOOSE m \in Messages : TRUE]
    /\ header = [e \in Ends |-> [header |-> Junk, hsize |-> 0]]
    /\ buf = [e \in Ends |-> <<>>]
    /\ cap = [e \in Ends |-> InitialLen]
    /\ msgStat = [e \in Ends |-> NoStat] /\ stat = [e \in Ends |-> NoStat]
    /\ vec = [e \in Ends |-> [i \in 1 .. VecLen |-> Junk]]
    /\ sentLog = [e \in Ends |-> <<>>] /\ rcvdLog = [e \in Ends |-> <<>>]

-----------------------------------------------------------------------------

\* NetStat::setSendStats and setRecvStats start from a cleared object.
setSendStats(old, bytes, overhead) == [NoStat EXCEPT !.sent = bytes, !.sentOverhead = overhead]
setRecvStats(old, bytes, overhead) == [NoStat EXCEPT !.recv = bytes, !.recvOverhead = overhead]

Plus(s, t) == [f \in DOMAIN s |-> s[f] + t[f]]

DataBytesRecv(s) == s.recv - s.recvOverhead

\* MPIClient::send, first half: the header.
SendHeader(e, m) ==
    /\ pc[e] = "idle" /\ Len(sentLog[e]) < MaxSent
    /\ cur' = [cur EXCEPT ![e] = m]
    /\ hq' = [hq EXCEPT ![Peer(e)] = Append(@, [header |-> m.header, hsize |-> m.hsize])]
    /\ pc' = [pc EXCEPT ![e] = "sendBody"]
    /\ UNCHANGED <<bq, header, buf, cap, msgStat, stat, vec, sentLog, rcvdLog>>

\* Second half: the body, then the statistics, of which the receiving part of
\* the last message is lost.
SendBody(e) ==
    /\ pc[e] = "sendBody"
    /\ bq' = [bq EXCEPT ![Peer(e)] = Append(@, cur[e].body)]
    /\ msgStat' = [msgStat EXCEPT ![e] =
                     setSendStats(@, cur[e].hsize + Bytes(cur[e].body), cur[e].hsize)]
    /\ stat' = [stat EXCEPT ![e] = Plus(@, msgStat'[e])]
    /\ sentLog' = [sentLog EXCEPT ![e] = Append(@, cur[e])]
    /\ pc' = [pc EXCEPT ![e] = "idle"]
    /\ UNCHANGED <<hq, cur, header, buf, cap, vec, rcvdLog>>

\* MPIClient::recv, first half: clear the statistics, probe and take the header.
RecvHeader(e) ==
    /\ pc[e] = "idle" /\ hq[e] # <<>>
    /\ header' = [header EXCEPT ![e] = Head(hq[e])]
    /\ hq' = [hq EXCEPT ![e] = Tail(@)]
    /\ msgStat' = [msgStat EXCEPT ![e] = NoStat]
    /\ pc' = [pc EXCEPT ![e] = "recvBody"]
    /\ UNCHANGED <<bq, cur, buf, cap, stat, vec, sentLog, rcvdLog>>

\* reserveMessageBuffer: at least 1.5 times what is needed, rounded up.
reserveMessageBuffer(len, req) == IF len > req THEN len ELSE (3 * req + 1) \div 2

\* Mutant: the newest body, not the first of its tag.
MutFirstBody(e) == Last(bq[e])

\* MPI matches by source and tag in order.
FirstBody(e) == Head(bq[e])

\* A shorter body leaves the end of the old one behind it in the buffer.
Overlay(body, old) == IF Bytes(old) > Bytes(body) THEN Append(body, Junk) ELSE body

\* Second half of recv and the rest of waitForMessage: a body that does not fit
\* is received elsewhere and copied after the buffer has grown.
RecvBody(e) ==
    /\ pc[e] = "recvBody" /\ bq[e] # <<>>
    /\ LET body == FirstBody(e)
           size == Bytes(body)
       IN  /\ bq' = [bq EXCEPT ![e] = Tail(@)]
           /\ cap' = [cap EXCEPT ![e] = IF @ < size THEN reserveMessageBuffer(@, size) ELSE @]
           /\ buf' = [buf EXCEPT ![e] = IF cap[e] < size THEN body ELSE Overlay(body, @)]
           /\ msgStat' = [msgStat EXCEPT ![e] =
                            setRecvStats(@, header[e].hsize + size, header[e].hsize)]
           /\ stat' = [stat EXCEPT ![e] = Plus(@, msgStat'[e])]
           /\ rcvdLog' = [rcvdLog EXCEPT ![e] =
                Append(@, [header |-> header[e].header, hsize |-> header[e].hsize, body |-> body])]
    /\ pc' = [pc EXCEPT ![e] = "idle"]
    /\ UNCHANGED <<hq, cur, header, vec, sentLog>>

\* Mutant: the whole buffer is taken for the message.
MutAvailable(e) == cap[e]

\* How much of the buffer getDataAsFile writes out.
Available(e) == DataBytesRecv(msgStat[e])

\* getDataAsVector: the numbers that are complete in those bytes, as many as the
\* caller's vector holds; the other entries of the vector keep their values.
GetDataAsVector(e) ==
    /\ pc[e] = "idle"
    /\ LET whole(n) == Bytes(SubSeq(buf[e], 1, n)) <= Available(e)
           nvalid   == CHOOSE n \in 0 .. Len(buf[e]) :
                         whole(n) /\ \A k \in n + 1 .. Len(buf[e]) : ~whole(k)
       IN  vec' = [vec EXCEPT ![e] = [i \in 1 .. VecLen |-> IF i <= nvalid THEN buf[e][i] ELSE @[i]]]
    /\ UNCHANGED <<hq, bq, pc, cur, header, buf, cap, msgStat, stat, sentLog, rcvdLog>>

Next == \E e \in Ends :
          \/ \E m \in Messages : SendHeader(e, m)
          \/ SendBody(e) \/ RecvHeader(e) \/ RecvBody(e) \/ GetDataAsVector(e)

Spec == Init /\ [][Next]_vars

-----------------------------------------------------------------------------
\* Although header and body travel as separate MPI messages, every end receives
\* the other's messages in order, each header with its own body (waitForMessage).
InOrderDelivery == \A e \in Ends : IsPrefix(rcvdLog[e], sentLog[Peer(e)])

\* What a read puts into the caller's vector is a prefix of the last message
\* received, never bytes that an earlier, longer message left in the buffer
\* (getDataAsVector).
ReadsLastMessage ==
    [][\A e \in Ends : vec'[e] # vec[e] =>
         \A i \in 1 .. VecLen : vec'[e][i] # vec[e][i] =>
           /\ rcvdLog[e] # <<>>
           /\ i <= Len(Last(rcvdLog[e]).body)
           /\ vec'[e][i] = Last(rcvdLog[e]).body[i]]_vars

=============================================================================
