------------------------- MODULE BatchDivisionProofs -------------------------
(***************************************************************************)
(* Both divisions tile the batch for every batch size and every number of  *)
(* provers.  The lemmas about the shares are those of ArithmeticLemmas. *)
(***************************************************************************)
EXTENDS BatchDivision, ArithmeticLemmas

\* The libv division tiles every batch over any number of ranks: each instance
\* is proved by exactly one of them (Prover::handle_terminal_request).
THEOREM SharesTileAlways == Spec => []SharesTile
<1>1. ASSUME batch \in Nat, n \in Nat \ {0} PROVE SharesTile
  <2>1. ASSUME NEW i \in 0 .. batch - 1
        PROVE  \E r \in 1 .. n : i \in Share(r) /\ \A s \in 1 .. n : i \in Share(s) => s = r
    <3>1. PICK r \in 1 .. n : i \in Share(r)
      BY <1>1, ShareOf DEF Share
    <3>2. ASSUME NEW s \in 1 .. n, i \in Share(s) PROVE s = r
      <4>1. /\ BatchStart(batch, n, r) \in Nat /\ BatchEnd(batch, n, r) \in Int
            /\ BatchStart(batch, n, s) \in Nat /\ BatchEnd(batch, n, s) \in Int
        BY <1>1, ShareInside
      <4>2. CASE r < s
        BY <1>1, <3>1, <3>2, <4>1, <4>2, SharesOrdered DEF Share
      <4>3. CASE s < r
        BY <1>1, <3>1, <3>2, <4>1, <4>3, SharesOrdered DEF Share
      <4> QED BY <1>1, <4>2, <4>3
    <3> QED BY <3>1, <3>2
  <2>2. ASSUME NEW r \in 1 .. n PROVE Share(r) \subseteq 0 .. batch - 1
    BY <1>1, ShareInside DEF Share
  <2> QED BY <2>1, <2>2 DEF SharesTile
<1>2. Init => batch \in Nat /\ n \in Nat \ {0}
  BY DivisionAssumption DEF Init
<1>3. batch \in Nat /\ n \in Nat \ {0} /\ [Invoke]_<<batch, n>> => (batch \in Nat /\ n \in Nat \ {0})'
  BY DivisionAssumption DEF Invoke
<1> QED BY <1>1, <1>2, <1>3, PTL DEF Spec

\* The CMT division tiles every batch over any number of provers: each instance
\* is checked against exactly one of them (CMTProtocolConfig).
THEOREM CmtSharesTileAlways == Spec => []CmtSharesTile
<1>1. ASSUME batch \in Nat, n \in Nat \ {0} PROVE CmtSharesTile
  <2>1. ASSUME NEW i \in 0 .. batch - 1
        PROVE  \E p \in 0 .. n - 1 : i \in CmtShare(p) /\ \A s \in 0 .. n - 1 : i \in CmtShare(s) => s = p
    <3>1. PICK p \in 0 .. n - 1 : i \in CmtShare(p)
      BY <1>1, CmtShareOf DEF CmtShare
    <3>2. ASSUME NEW s \in 0 .. n - 1, i \in CmtShare(s) PROVE s = p
      <4>1. /\ StartInstance(batch, n, p) \in Nat /\ EndInstance(batch, n, p) \in Nat
            /\ StartInstance(batch, n, s) \in Nat /\ EndInstance(batch, n, s) \in Nat
        BY <1>1, CmtInside
      <4>2. CASE p < s
        BY <1>1, <3>1, <3>2, <4>1, <4>2, CmtOrdered DEF CmtShare
      <4>3. CASE s < p
        BY <1>1, <3>1, <3>2, <4>1, <4>3, CmtOrdered DEF CmtShare
      <4> QED BY <1>1, <4>2, <4>3
    <3> QED BY <3>1, <3>2
  <2>2. ASSUME NEW p \in 0 .. n - 1 PROVE CmtShare(p) \subseteq 0 .. batch - 1
    <3>1. /\ StartInstance(batch, n, p) \in Nat /\ EndInstance(batch, n, p) \in Nat
          /\ EndInstance(batch, n, p) <= batch
      BY <1>1, CmtInside
    <3> QED BY <1>1, <3>1 DEF CmtShare
  <2> QED BY <2>1, <2>2 DEF CmtSharesTile
<1>2. Init => batch \in Nat /\ n \in Nat \ {0}
  BY DivisionAssumption DEF Init
<1>3. batch \in Nat /\ n \in Nat \ {0} /\ [Invoke]_<<batch, n>> => (batch \in Nat /\ n \in Nat \ {0})'
  BY DivisionAssumption DEF Invoke
<1> QED BY <1>1, <1>2, <1>3, PTL DEF Spec

\* The ranks that leave main at once are exactly the ones the verifier gives no
\* instance, so it never waits for one that has left (run_gkr_netapp).
THEOREM IdleIffBeyondBatchAlways == Spec => []IdleIffBeyondBatch
<1>1. ASSUME batch \in Nat, n \in Nat \ {0} PROVE IdleIffBeyondBatch
  <2>1. ASSUME NEW p \in 0 .. n - 1
        PROVE  CmtShare(p) = {} <=> batch < p + 1
    <3>1. /\ StartInstance(batch, n, p) \in Nat /\ EndInstance(batch, n, p) \in Nat
          /\ EndInstance(batch, n, p) <= StartInstance(batch, n, p) <=> batch < p + 1
      BY <1>1, CmtInside
    <3>2. CmtShare(p) = {} <=> EndInstance(batch, n, p) <= StartInstance(batch, n, p)
      BY <3>1 DEF CmtShare
    <3> QED BY <3>1, <3>2
  <2> QED BY <2>1 DEF IdleIffBeyondBatch
<1>2. Init => batch \in Nat /\ n \in Nat \ {0}
  BY DivisionAssumption DEF Init
<1>3. batch \in Nat /\ n \in Nat \ {0} /\ [Invoke]_<<batch, n>> => (batch \in Nat /\ n \in Nat \ {0})'
  BY DivisionAssumption DEF Invoke
<1> QED BY <1>1, <1>2, <1>3, PTL DEF Spec

=============================================================================
