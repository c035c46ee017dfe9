-------------------------- MODULE ArithmeticLemmas --------------------------
(***************************************************************************)
(* What the proofs of this project share: division and remainder, the two  *)
(* divisions of a batch for every batch size and every number of provers,  *)
(* sums over finite sets, residues and powers of two.                      *)
(*                                                                         *)
(* Induction has no rule of its own among the backends.  It is taken here  *)
(* from the well-foundedness of < on the naturals, for the SET of the      *)
(* numbers (or of the subsets of a finite set) that have a property, so    *)
(* that no lemma has an operator as a parameter.  From it follow that a    *)
(* recursive function and a fold exist, and what they compute.             *)
(***************************************************************************)
EXTENDS BatchPartition, FiniteSets, Functions, FiniteSetTheorems, FunctionTheorems,
        WellFoundedInduction, TLAPS

-----------------------------------------------------------------------------
(* Arithmetic. *)

\* Quotient and remainder of a division of natural numbers.
LEMMA DivMod ==
    ASSUME NEW b \in Nat, NEW d \in Nat \ {0}
    PROVE  /\ b \div d \in Nat /\ b % d \in Nat /\ b % d < d
           /\ b = d * (b \div d) + (b % d)
  BY SMT

\* Multiplication by a natural number is monotone.
LEMMA MulMono ==
    ASSUME NEW k \in Nat, NEW a \in Int, NEW b \in Int, a <= b
    PROVE  a * k <= b * k
  BY SMT

\* The block of size k that holds offset i is number i \div k.
LEMMA BlockOf ==
    ASSUME NEW i \in Nat, NEW k \in Nat \ {0}
    PROVE  /\ i \div k \in Nat
           /\ (i \div k) * k <= i
           /\ i <= (i \div k) * k + k - 1
<1>1. /\ i \div k \in Nat /\ i % k \in Nat /\ i % k < k
      /\ i = k * (i \div k) + (i % k)
  BY DivMod
<1> QED BY <1>1, SMT

\* A block number is below m when the offset is below m blocks.
LEMMA BlockBelow ==
    ASSUME NEW i \in Nat, NEW k \in Nat \ {0}, NEW m \in Nat, i < m * k
    PROVE  i \div k < m
<1> DEFINE c == i \div k
<1>1. c \in Nat /\ c * k <= i
  BY BlockOf
<1>2. SUFFICES ASSUME m <= c PROVE FALSE
  BY <1>1, SMT
<1>3. m * k <= c * k
  <2> HIDE DEF c
  <2> QED BY <1>1, <1>2, MulMono
<1>4. m * k \in Int /\ c * k \in Int
  BY <1>1, SMT
<1> HIDE DEF c
<1> QED BY <1>1, <1>3, <1>4, SMT

-----------------------------------------------------------------------------
(* libv. *)

\* The shares in closed form: the remainder lies before the second block.
LEMMA ShareBounds ==
    ASSUME NEW b \in Nat, NEW m \in Nat \ {0}, NEW r \in 1 .. m
    PROVE  LET k == b \div m
               e == b % m
           IN  /\ BatchEnd(b, m, r) = e + r * k - 1
               /\ BatchStart(b, m, r) = IF r = 1 THEN 0 ELSE e + (r - 1) * k
<1> DEFINE k == b \div m
           e == b % m
<1>1. k \in Nat /\ e \in Nat
  BY DivMod
<1>2. /\ BatchEnd(b, m, r) = IF r = 1 THEN k - 1 + e ELSE k - 1 + e + 1 + (r - 2) * k + k - 1
      /\ BatchStart(b, m, r) = IF r = 1 THEN 0 ELSE k - 1 + e + 1 + (r - 2) * k
  BY DEF BatchEnd, BatchStart, CoordEnd, RemoteStart, BatchesPerServer
<1>3. (r - 2) * k + k = (r - 1) * k /\ (r - 1) * k + k = r * k /\ 1 * k = k
  <2> HIDE DEF k
  <2> QED BY <1>1, SMT
<1>4. (r - 2) * k \in Int /\ (r - 1) * k \in Int /\ r * k \in Int
  <2> HIDE DEF k
  <2> QED BY <1>1, SMT
<1> HIDE DEF k, e
<1>5. /\ BatchEnd(b, m, r) = e + r * k - 1
      /\ BatchStart(b, m, r) = IF r = 1 THEN 0 ELSE e + (r - 1) * k
  <2>1. CASE r = 1
    BY <2>1, <1>1, <1>2, <1>3, <1>4, SMT
  <2>2. CASE r # 1
    BY <2>2, <1>1, <1>2, <1>3, <1>4, SMT
  <2> QED BY <2>1, <2>2
<1> QED BY <1>5 DEF k, e

\* Different shares do not meet: a later one starts after an earlier one ends.
LEMMA SharesOrdered ==
    ASSUME NEW b \in Nat, NEW m \in Nat \ {0}, NEW r \in 1 .. m, NEW s \in 1 .. m, r < s
    PROVE  BatchEnd(b, m, r) < BatchStart(b, m, s)
<1> DEFINE k == b \div m
           e == b % m
<1>1. k \in Nat /\ e \in Nat
  BY DivMod
<1>2. /\ BatchEnd(b, m, r) = e + r * k - 1
      /\ BatchStart(b, m, s) = IF s = 1 THEN 0 ELSE e + (s - 1) * k
  BY ShareBounds
<1> HIDE DEF k, e
<1>3. r * k <= (s - 1) * k
  BY <1>1, MulMono
<1>4. r * k \in Int /\ (s - 1) * k \in Int
  BY <1>1, SMT
<1> QED BY <1>1, <1>2, <1>3, <1>4, SMT

\* The rank of an instance.
LEMMA ShareOf ==
    ASSUME NEW b \in Nat, NEW m \in Nat \ {0}, NEW i \in 0 .. b - 1
    PROVE  \E r \in 1 .. m : i \in BatchStart(b, m, r) .. BatchEnd(b, m, r)
<1> DEFINE k == b \div m
           e == b % m
<1>1. k \in Nat /\ e \in Nat /\ b = m * k + e
  BY DivMod
<1>2. CASE i < e + k
  <2>0. 1 \in 1 .. m
    BY SMT
  <2>1. /\ BatchEnd(b, m, 1) = e + 1 * k - 1
        /\ BatchStart(b, m, 1) = IF 1 = 1 THEN 0 ELSE e + (1 - 1) * k
    BY <2>0, ShareBounds
  <2> HIDE DEF k, e
  <2>2. i \in BatchStart(b, m, 1) .. BatchEnd(b, m, 1)
    BY <1>1, <1>2, <2>1, SMT
  <2> QED BY <2>0, <2>2
<1>3. CASE e + k <= i
  <2> DEFINE c == (i - e) \div k
  <2>1. k # 0 /\ i - e \in Nat /\ i - e < m * k /\ k <= i - e
    <3> HIDE DEF k, e
    <3>1. m * k \in Nat
      BY <1>1, SMT
    <3>2. ASSUME k = 0 PROVE FALSE
      <4>1. m * k = 0
        BY <3>2, SMT
      <4> QED BY <4>1, <1>1, <1>3, <3>2, SMT
    <3> QED BY <1>1, <1>3, <3>1, <3>2, SMT
  <2>2. c \in Nat /\ c * k <= i - e /\ i - e <= c * k + k - 1
    <3> HIDE DEF k, e
    <3> QED BY <1>1, <2>1, BlockOf
  <2>3. c < m
    <3> HIDE DEF k, e
    <3> QED BY <1>1, <2>1, BlockBelow
  <2>4. c # 0
    <3> HIDE DEF k, e, c
    <3>1. ASSUME c = 0 PROVE FALSE
      <4>1. c * k = 0
        BY <3>1, <1>1, SMT
      <4> QED BY <4>1, <1>1, <2>1, <2>2, SMT
    <3> QED BY <3>1
  <2> HIDE DEF c
  <2>5. PICK r \in 1 .. m : r = c + 1 /\ r # 1
    BY <2>2, <2>3, <2>4, SMT
  <2>6. /\ BatchEnd(b, m, r) = e + r * k - 1
        /\ BatchStart(b, m, r) = IF r = 1 THEN 0 ELSE e + (r - 1) * k
    BY ShareBounds
  <2> HIDE DEF k, e
  <2>7. (r - 1) * k = c * k /\ r * k = c * k + k /\ c * k \in Nat
    BY <1>1, <2>2, <2>5, SMT
  <2>8. i \in BatchStart(b, m, r) .. BatchEnd(b, m, r)
    BY <1>1, <2>1, <2>2, <2>5, <2>6, <2>7, SMT
  <2> QED BY <2>8
<1> QED
  <2> HIDE DEF k, e
  <2> QED BY <1>1, <1>2, <1>3, SMT

\* No share leaves the batch.
LEMMA ShareInside ==
    ASSUME NEW b \in Nat, NEW m \in Nat \ {0}, NEW r \in 1 .. m
    PROVE  /\ BatchStart(b, m, r) \in Nat /\ BatchEnd(b, m, r) \in Int
           /\ BatchEnd(b, m, r) <= b - 1
<1> DEFINE k == b \div m
           e == b % m
<1>1. k \in Nat /\ e \in Nat /\ b = m * k + e
  BY DivMod
<1>2. /\ BatchEnd(b, m, r) = e + r * k - 1
      /\ BatchStart(b, m, r) = IF r = 1 THEN 0 ELSE e + (r - 1) * k
  BY ShareBounds
<1> HIDE DEF k, e
<1>3. r * k <= m * k
  BY <1>1, MulMono
<1>4. (r - 1) * k \in Nat /\ r * k \in Nat /\ m * k \in Nat
  BY <1>1, SMT
<1> QED BY <1>1, <1>2, <1>3, <1>4, SMT

-----------------------------------------------------------------------------
(* CMT. *)

\* The range of a prover in closed form.
LEMMA CmtBounds ==
    ASSUME NEW b \in Nat, NEW m \in Nat \ {0}, NEW p \in 0 .. m - 1
    PROVE  LET k == b \div m
               e == b % m
           IN  /\ StartInstance(b, m, p) = p * k + (IF p < e THEN p ELSE e)
               /\ EndInstance(b, m, p) = (p + 1) * k + (IF p < e THEN p + 1 ELSE e)
<1> DEFINE k == b \div m
           e == b % m
<1>1. k \in Nat /\ e \in Nat /\ b = m * k + e
  BY DivMod
<1>2. Extra(b, m) = b - k * m
  BY DEF Extra, NumResponsible
<1>3. /\ StartInstance(b, m, p) = p * k + (IF p < Extra(b, m) THEN p ELSE Extra(b, m))
      /\ EndInstance(b, m, p) = StartInstance(b, m, p) + k + (IF p < Extra(b, m) THEN 1 ELSE 0)
  BY DEF StartInstance, EndInstance, NumResponsible
<1> HIDE DEF k, e
<1>4. Extra(b, m) = e
  <2>1. k * m = m * k /\ m * k \in Int
    BY <1>1, SMT
  <2> QED BY <1>1, <1>2, <2>1, SMT
<1>5. (p + 1) * k = p * k + k /\ p * k \in Nat
  BY <1>1, SMT
<1>6. /\ StartInstance(b, m, p) = p * k + (IF p < e THEN p ELSE e)
      /\ EndInstance(b, m, p) = (p + 1) * k + (IF p < e THEN p + 1 ELSE e)
  BY <1>1, <1>3, <1>4, <1>5, SMT
<1> QED BY <1>6 DEF k, e

\* A later range starts where an earlier one has ended.
LEMMA CmtOrdered ==
    ASSUME NEW b \in Nat, NEW m \in Nat \ {0}, NEW p \in 0 .. m - 1, NEW s \in 0 .. m - 1, p < s
    PROVE  EndInstance(b, m, p) <= StartInstance(b, m, s)
<1> DEFINE k == b \div m
           e == b % m
<1>1. k \in Nat /\ e \in Nat
  BY DivMod
<1>2. EndInstance(b, m, p) = (p + 1) * k + (IF p < e THEN p + 1 ELSE e)
  BY CmtBounds
<1>3. StartInstance(b, m, s) = s * k + (IF s < e THEN s ELSE e)
  BY CmtBounds
<1> HIDE DEF k, e
<1>4. (p + 1) * k <= s * k
  BY <1>1, MulMono
<1>5. (p + 1) * k \in Int /\ s * k \in Int
  BY <1>1, SMT
<1> QED BY <1>1, <1>2, <1>3, <1>4, <1>5, SMT

\* The prover of an instance.
LEMMA CmtShareOf ==
    ASSUME NEW b \in Nat, NEW m \in Nat \ {0}, NEW i \in 0 .. b - 1
    PROVE  \E p \in 0 .. m - 1 : i \in StartInstance(b, m, p) .. EndInstance(b, m, p) - 1
<1> DEFINE k == b \div m
           e == b % m
<1>1. k \in Nat /\ e \in Nat /\ e < m /\ b = m * k + e
  BY DivMod
<1>2. CASE i < e * (k + 1)
  <2>1. PICK d \in Nat \ {0} : d = k + 1
    <3> HIDE DEF k, e
    <3> QED BY <1>1, SMT
  <2> DEFINE c == i \div d
  <2>2. c \in Nat /\ c * d <= i /\ i <= c * d + d - 1
    BY BlockOf
  <2>3. c < e
    <3>1. i < e * d
      <4> HIDE DEF k, e
      <4> QED BY <1>2, <2>1
    <3> HIDE DEF k, e
    <3> QED BY <1>1, <3>1, BlockBelow
  <2> HIDE DEF c
  <2>4. c \in 0 .. m - 1
    <3> HIDE DEF k, e
    <3> QED BY <1>1, <2>2, <2>3, SMT
  <2>5. /\ StartInstance(b, m, c) = c * k + (IF c < e THEN c ELSE e)
        /\ EndInstance(b, m, c) = (c + 1) * k + (IF c < e THEN c + 1 ELSE e)
    BY <2>4, CmtBounds
  <2> HIDE DEF k, e
  <2>6. c * d = c * k + c /\ (c + 1) * k = c * k + k /\ c * k \in Nat
    BY <1>1, <2>1, <2>2, SMT
  <2>7. i \in StartInstance(b, m, c) .. EndInstance(b, m, c) - 1
    BY <1>1, <2>1, <2>2, <2>3, <2>5, <2>6, SMT
  <2> QED BY <2>4, <2>7
<1>3. CASE e * (k + 1) <= i
  <2> DEFINE j == i - e * (k + 1)
             c == j \div k
  <2>1. /\ e * (k + 1) = e * k + e /\ e * k \in Nat
        /\ (m - e) * k = m * k - e * k /\ m * k \in Nat
    <3> HIDE DEF k, e
    <3> QED BY <1>1, SMT
  <2>2. k # 0 /\ j \in Nat /\ j < (m - e) * k
    <3> HIDE DEF k, e
    <3>1. ASSUME k = 0 PROVE FALSE
      <4>1. m * k = 0 /\ e * k = 0
        BY <3>1, <1>1, SMT
      <4> QED BY <4>1, <1>1, <1>3, <2>1, SMT
    <3> QED BY <1>1, <1>3, <2>1, <3>1, SMT
  <2>3. m - e \in Nat
    <3> HIDE DEF k, e
    <3> QED BY <1>1, SMT
  <2>4. c \in Nat /\ c * k <= j /\ j <= c * k + k - 1
    <3> HIDE DEF k, e, j
    <3> QED BY <1>1, <2>2, BlockOf
  <2>5. c < m - e
    <3> HIDE DEF k, e, j
    <3> QED BY <1>1, <2>2, <2>3, BlockBelow
  <2> HIDE DEF c
  <2>6. PICK p \in 0 .. m - 1 : p = e + c
    <3> HIDE DEF k, e, j
    <3> QED BY <1>1, <2>4, <2>5, SMT
  <2>7. /\ StartInstance(b, m, p) = p * k + (IF p < e THEN p ELSE e)
        /\ EndInstance(b, m, p) = (p + 1) * k + (IF p < e THEN p + 1 ELSE e)
    BY CmtBounds
  <2> HIDE DEF k, e
  <2>8. p * k = e * k + c * k /\ (p + 1) * k = p * k + k /\ c * k \in Nat
    BY <1>1, <2>4, <2>6, SMT
  <2>9. i \in StartInstance(b, m, p) .. EndInstance(b, m, p) - 1
    BY <1>1, <2>1, <2>2, <2>4, <2>6, <2>7, <2>8, SMT
  <2> QED BY <2>9
<1> QED
  <2>1. e * (k + 1) \in Int
    <3> HIDE DEF k, e
    <3> QED BY <1>1, SMT
  <2> HIDE DEF k, e
  <2> QED BY <1>2, <1>3, <2>1, SMT

\* No range leaves the batch, and it is empty exactly for a rank beyond the batch.
LEMMA CmtInside ==
    ASSUME NEW b \in Nat, NEW m \in Nat \ {0}, NEW p \in 0 .. m - 1
    PROVE  /\ StartInstance(b, m, p) \in Nat /\ EndInstance(b, m, p) \in Nat
           /\ EndInstance(b, m, p) <= b
           /\ EndInstance(b, m, p) <= StartInstance(b, m, p) <=> b < p + 1
<1> DEFINE k == b \div m
           e == b % m
<1>1. k \in Nat /\ e \in Nat /\ e < m /\ b = m * k + e
  BY DivMod
<1>2. /\ StartInstance(b, m, p) = p * k + (IF p < e THEN p ELSE e)
      /\ EndInstance(b, m, p) = (p + 1) * k + (IF p < e THEN p + 1 ELSE e)
  BY CmtBounds
<1> HIDE DEF k, e
<1>3. (p + 1) * k <= m * k
  BY <1>1, MulMono
<1>4. (p + 1) * k = p * k + k /\ p * k \in Nat /\ m * k \in Nat
  BY <1>1, SMT
<1>5. ASSUME k # 0 PROVE m <= m * k
  BY <1>1, <1>5, SMT
<1>6. ASSUME k = 0 PROVE m * k = 0
  BY <1>6, SMT
<1>7. CASE k = 0
  BY <1>1, <1>2, <1>3, <1>4, <1>6, <1>7, SMT
<1>8. CASE k # 0
  BY <1>1, <1>2, <1>3, <1>4, <1>5, <1>8, SMT
<1> QED BY <1>7, <1>8


\* Induction over the natural numbers, for the set of those that have a property.
LEMMA NatSetInduction ==
    ASSUME NEW A, A \subseteq Nat, 0 \in A, \A n \in A : n + 1 \in A
    PROVE  A = Nat
<1> SUFFICES ASSUME Nat \ A # {} PROVE FALSE
  OBVIOUS
<1> DEFINE less == OpToRel(<, Nat)
<1>1. \E x \in Nat \ A : \A y \in Nat \ A : ~ (<<y, x>> \in less)
  <2>1. IsWellFoundedOn(less, Nat)
    BY NatLessThanWellFounded
  <2> HIDE DEF less
  <2> QED
    BY <2>1, WFMin
<1>2. PICK x \in Nat \ A : \A y \in Nat \ A : ~ (y < x)
  BY <1>1 DEF OpToRel
<1>3. x - 1 \in Nat /\ x - 1 < x
  OBVIOUS
<1>4. x - 1 \in A /\ (x - 1) + 1 = x
  BY <1>2, <1>3
<1> QED
  BY <1>4

\* A set of numbers up to N that is not empty has a largest one.
LEMMA LargestExists ==
    ASSUME NEW N \in Nat, NEW W, 0 \in W
    PROVE  \E n \in 0 .. N : n \in W /\ \A k \in n + 1 .. N : k \notin W
<1> DEFINE A == {b \in Nat : \E n \in 0 .. b : n \in W /\ \A k \in n + 1 .. b : k \notin W}
<1>1. 0 \in A
  OBVIOUS
<1>2. ASSUME NEW b \in A PROVE b + 1 \in A
  <2>1. b \in Nat /\ b + 1 \in Nat
    OBVIOUS
  <2>2. CASE b + 1 \in W
    <3>1. b + 1 \in 0 .. b + 1 /\ \A k \in (b + 1) + 1 .. b + 1 : k \notin W
      BY <2>1
    <3>2. \E n \in 0 .. b + 1 : n \in W /\ \A k \in n + 1 .. b + 1 : k \notin W
      BY <2>2, <3>1
    <3> QED
      BY <2>1, <3>2
  <2>3. CASE b + 1 \notin W
    <3>1. PICK n \in 0 .. b : n \in W /\ \A k \in n + 1 .. b : k \notin W
      OBVIOUS
    <3>2. n \in 0 .. b + 1 /\ \A k \in n + 1 .. b + 1 : k \notin W
      <4>1. ASSUME NEW k \in n + 1 .. b + 1 PROVE k \notin W
        <5>1. k \in n + 1 .. b \/ k = b + 1
          BY <2>1
        <5> QED
          BY <2>3, <3>1, <5>1
      <4> QED
        BY <2>1, <4>1
    <3>3. \E i \in 0 .. b + 1 : i \in W /\ \A k \in i + 1 .. b + 1 : k \notin W
      BY <3>1, <3>2
    <3> QED
      BY <2>1, <3>3
  <2> QED
    BY <2>2, <2>3
<1> HIDE DEF A
<1>3. A = Nat
  <2>1. A \subseteq Nat
    BY DEF A
  <2> QED
    BY <1>1, <1>2, <2>1, NatSetInduction
<1> QED
  BY <1>3 DEF A

\* Induction over the subsets of a finite set, by removing one element.
LEMMA SubsetInduction ==
    ASSUME NEW S, IsFiniteSet(S), NEW A, {} \in A,
           \A T \in SUBSET S : T # {} /\ (\A x \in T : T \ {x} \in A) => T \in A
    PROVE  \A T \in SUBSET S : T \in A
<1> DEFINE N == {n \in Nat : \A T \in SUBSET S : Cardinality(T) = n => T \in A}
<1>1. \A T \in SUBSET S : IsFiniteSet(T) /\ Cardinality(T) \in Nat
  BY FS_Subset, FS_CardinalityType
<1>2. 0 \in N
  BY <1>1, FS_EmptySet
<1>3. ASSUME NEW n \in N PROVE n + 1 \in N
  <2> SUFFICES ASSUME NEW T \in SUBSET S, Cardinality(T) = n + 1 PROVE T \in A
    OBVIOUS
  <2>0. n \in Nat /\ n + 1 # 0
    OBVIOUS
  <2>1. T # {}
    <3> HIDE DEF N
    <3> QED
      BY <2>0, FS_EmptySet
  <2>2. ASSUME NEW x \in T PROVE T \ {x} \in A
    <3>1. Cardinality(T \ {x}) = n
      <4> HIDE DEF N
      <4> QED
        BY <1>1, <2>0, FS_RemoveElement
    <3> QED
      BY <3>1
  <2> QED
    BY <2>1, <2>2
<1>4. N = Nat
  <2> HIDE DEF N
  <2>1. N \subseteq Nat
    BY DEF N
  <2> QED
    BY <1>2, <1>3, <2>1, NatSetInduction
<1> QED
  BY <1>1, <1>4

-----------------------------------------------------------------------------
(* Folds. *)

\* The element a fold over T takes first.
Chosen(T) == CHOOSE x \in T : TRUE

\* f is a table of a fold over the subsets of S.
IsFold(f, S, base, h) ==
    \A T \in SUBSET S : f[T] = IF T = {} THEN base ELSE h[<<T, f[T \ {Chosen(T)}]>>]

\* A fold whose step is given by a function of the set and of the value so far.
LEMMA FoldExists ==
    ASSUME NEW S, IsFiniteSet(S), NEW V, NEW base \in V, NEW h \in [(SUBSET S) \X V -> V]
    PROVE  \E f \in [SUBSET S -> V] : IsFold(f, S, base, h)
<1> DEFINE D(n) == {T \in SUBSET S : Cardinality(T) <= n}
           N == {n \in Nat : \E f \in [D(n) -> V] : \A T \in D(n) :
                    f[T] = IF T = {} THEN base ELSE h[<<T, f[T \ {Chosen(T)}]>>]}
<1>1. \A T \in SUBSET S : IsFiniteSet(T) /\ Cardinality(T) \in Nat
  BY FS_Subset, FS_CardinalityType
<1>2. \A n \in Nat : \A T \in D(n + 1) : T # {} =>
         Chosen(T) \in T /\ T \ {Chosen(T)} \in D(n)
  <2> SUFFICES ASSUME NEW n \in Nat, NEW T \in D(n + 1), T # {}
               PROVE  Chosen(T) \in T /\ T \ {Chosen(T)} \in D(n)
    OBVIOUS
  <2>1. Chosen(T) \in T
    BY DEF Chosen
  <2>2. Cardinality(T \ {Chosen(T)}) = Cardinality(T) - 1
    BY <1>1, <2>1, FS_RemoveElement
  <2> QED
    BY <1>1, <2>1, <2>2
<1>3. 0 \in N
  <2>1. D(0) = {{}}
    BY <1>1, FS_EmptySet
  <2> DEFINE f == [T \in D(0) |-> base]
  <2>2. f \in [D(0) -> V] /\ \A T \in D(0) : T = {} /\ f[T] = base
    BY <2>1
  <2> HIDE DEF f, D
  <2> QED
    BY <2>2
<1>4. ASSUME NEW n \in N PROVE n + 1 \in N
  <2> n \in Nat
    OBVIOUS
  <2>1. PICK f \in [D(n) -> V] : \A T \in D(n) :
             f[T] = IF T = {} THEN base ELSE h[<<T, f[T \ {Chosen(T)}]>>]
    OBVIOUS
  <2>2. D(n) \subseteq D(n + 1) /\ D(n + 1) \subseteq SUBSET S
    BY <1>1
  <2>3. {} \in D(n)
    BY FS_EmptySet
  <2>4. \A T \in D(n + 1) : T # {} => T \ {Chosen(T)} \in D(n)
    BY <1>2
  <2> HIDE DEF D
  <2> DEFINE e == [T \in D(n + 1) |-> IF T = {} THEN base ELSE h[<<T, f[T \ {Chosen(T)}]>>]]
  <2>5. \A T \in D(n) : e[T] = f[T]
    BY <2>1, <2>2
  <2>6. e \in [D(n + 1) -> V]
    <3> SUFFICES ASSUME NEW T \in D(n + 1), T # {} PROVE h[<<T, f[T \ {Chosen(T)}]>>] \in V
      OBVIOUS
    <3>1. f[T \ {Chosen(T)}] \in V
      BY <2>4
    <3>2. <<T, f[T \ {Chosen(T)}]>> \in (SUBSET S) \X V
      BY <3>1, <2>2
    <3> QED
      BY <3>2
  <2>7. \A T \in D(n + 1) : e[T] = IF T = {} THEN base ELSE h[<<T, e[T \ {Chosen(T)}]>>]
    BY <2>4, <2>5
  <2> HIDE DEF e
  <2>8. \E f1 \in [D(n + 1) -> V] : \A T \in D(n + 1) :
             f1[T] = IF T = {} THEN base ELSE h[<<T, f1[T \ {Chosen(T)}]>>]
    BY <2>6, <2>7
  <2>9. n + 1 \in Nat
    OBVIOUS
  <2> QED
    BY <2>8, <2>9
<1>5. N = Nat
  <2> HIDE DEF N
  <2>1. N \subseteq Nat
    BY DEF N
  <2> QED
    BY <1>3, <1>4, <2>1, NatSetInduction
<1>6. Cardinality(S) \in N
  BY <1>1, <1>5
<1>7. D(Cardinality(S)) = SUBSET S
  BY FS_Subset
<1> QED
  BY <1>6, <1>7 DEF IsFold

\* The table of the sums over all subsets of S, in the order of Chosen.
IsSum(it, S, f) ==
    /\ it[{}] = 0
    /\ \A T \in SUBSET S : T # {} => it[T] = f[Chosen(T)] + it[T \ {Chosen(T)}]

\* SumFunctionOnSet reads its value from such a table.
LEMMA SumUnfolds ==
    ASSUME NEW S, IsFiniteSet(S), NEW f, \A x \in S : f[x] \in Int
    PROVE  \E it : IsSum(it, S, f) /\ SumFunctionOnSet(f, S) = it[S]
<1> DEFINE h == [a \in (SUBSET S) \X Int |-> IF a[1] = {} THEN 0 ELSE f[Chosen(a[1])] + a[2]]
           IsIt(it) == it = [T \in SUBSET S |-> IF T = {} THEN 0 ELSE f[Chosen(T)] + it[T \ {Chosen(T)}]]
<1>1. h \in [(SUBSET S) \X Int -> Int]
  BY DEF Chosen
<1>2. PICK it \in [SUBSET S -> Int] : IsFold(it, S, 0, h)
  <2> HIDE DEF h
  <2>1. 0 \in Int
    OBVIOUS
  <2> QED
    BY <1>1, <2>1, FoldExists
<1>3. IsIt(it)
  <2>1. ASSUME NEW T \in SUBSET S, T # {}
        PROVE  h[<<T, it[T \ {Chosen(T)}]>>] = f[Chosen(T)] + it[T \ {Chosen(T)}]
    <3>1. it[T \ {Chosen(T)}] \in Int
      OBVIOUS
    <3>2. <<T, it[T \ {Chosen(T)}]>> \in (SUBSET S) \X Int
      BY <3>1
    <3> QED
      BY <3>2, <2>1
  <2> HIDE DEF h
  <2> QED
    BY <1>2, <2>1 DEF IsFold
<1>4. IsIt(CHOOSE g : IsIt(g))
  BY <1>3, Zenon
<1>5. SumFunctionOnSet(f, S) = (CHOOSE g : IsIt(g))[S]
  BY DEF SumFunctionOnSet, FoldFunctionOnSet, MapThenFoldSet, Chosen
<1> DEFINE g == CHOOSE g : IsIt(g)
<1>6. IsIt(g) /\ SumFunctionOnSet(f, S) = g[S]
  BY <1>4, <1>5
<1> HIDE DEF g, h
<1>7. IsSum(g, S, f)
  BY <1>6 DEF IsSum
<1> QED
  BY <1>6, <1>7

\* Two tables agree where both are defined.
LEMMA SumsAgree ==
    ASSUME NEW S, IsFiniteSet(S), NEW R, IsFiniteSet(R), NEW f, NEW a, NEW b,
           IsSum(a, S, f), IsSum(b, R, f)
    PROVE  \A T \in SUBSET (S \cap R) : a[T] = b[T]
<1> DEFINE A == {T \in SUBSET (S \cap R) : a[T] = b[T]}
<1>1. IsFiniteSet(S \cap R)
  BY FS_Subset
<1>2. {} \in A
  BY DEF IsSum
<1>3. ASSUME NEW T \in SUBSET (S \cap R), T # {}, \A x \in T : T \ {x} \in A
      PROVE  T \in A
  <2>1. Chosen(T) \in T
    BY <1>3 DEF Chosen
  <2>2. a[T \ {Chosen(T)}] = b[T \ {Chosen(T)}]
    BY <1>3, <2>1
  <2> QED
    BY <1>3, <2>2 DEF IsSum
<1> HIDE DEF A
<1>4. \A T \in SUBSET (S \cap R) : T \in A
  BY <1>1, <1>2, <1>3, SubsetInduction
<1> QED
  BY <1>4 DEF A

\* Nothing adds up to 0.
LEMMA SumEmpty ==
    ASSUME NEW f
    PROVE  SumFunctionOnSet(f, {}) = 0
<1>1. \E it : IsSum(it, {}, f) /\ SumFunctionOnSet(f, {}) = it[{}]
  BY SumUnfolds, FS_EmptySet
<1> QED
  BY <1>1 DEF IsSum

\* The sum takes the chosen element first ...
LEMMA SumChosen ==
    ASSUME NEW S, IsFiniteSet(S), S # {}, NEW f, \A x \in S : f[x] \in Int
    PROVE  SumFunctionOnSet(f, S) = f[Chosen(S)] + SumFunctionOnSet(f, S \ {Chosen(S)})
<1> DEFINE R == S \ {Chosen(S)}
<1>1. IsFiniteSet(R) /\ R \subseteq S
  BY FS_Subset
<1>2. PICK a : IsSum(a, S, f) /\ SumFunctionOnSet(f, S) = a[S]
  BY SumUnfolds
<1>3. PICK b : IsSum(b, R, f) /\ SumFunctionOnSet(f, R) = b[R]
  <2> HIDE DEF R
  <2> QED
    BY <1>1, SumUnfolds
<1>4. a[R] = b[R]
  <2>1. R \in SUBSET (S \cap R)
    BY <1>1
  <2> HIDE DEF R
  <2> QED
    BY <1>1, <1>2, <1>3, <2>1, SumsAgree
<1>5. a[S] = f[Chosen(S)] + a[R]
  BY <1>2 DEF IsSum
<1> QED
  BY <1>2, <1>3, <1>4, <1>5

\* A sum of integers is an integer.
LEMMA SumType ==
    ASSUME NEW S, IsFiniteSet(S), NEW f, \A x \in S : f[x] \in Int
    PROVE  SumFunctionOnSet(f, S) \in Int
<1> DEFINE A == {T \in SUBSET S : SumFunctionOnSet(f, T) \in Int}
<1>1. {} \in A
  BY SumEmpty
<1>2. ASSUME NEW T \in SUBSET S, T # {}, \A x \in T : T \ {x} \in A
      PROVE  T \in A
  <2>1. Chosen(T) \in T /\ IsFiniteSet(T)
    BY <1>2, FS_Subset DEF Chosen
  <2>2. SumFunctionOnSet(f, T) = f[Chosen(T)] + SumFunctionOnSet(f, T \ {Chosen(T)})
    BY <1>2, <2>1, SumChosen
  <2>3. SumFunctionOnSet(f, T \ {Chosen(T)}) \in Int
    BY <1>2, <2>1
  <2>4. f[Chosen(T)] \in Int
    BY <2>1
  <2> QED
    BY <2>2, <2>3, <2>4
<1> HIDE DEF A
<1>3. \A T \in SUBSET S : T \in A
  BY <1>1, <1>2, SubsetInduction
<1> QED
  BY <1>3 DEF A

\* ... and it could have taken any other.
LEMMA SumRemove ==
    ASSUME NEW S, IsFiniteSet(S), NEW f, \A x \in S : f[x] \in Int, NEW x \in S
    PROVE  SumFunctionOnSet(f, S) = f[x] + SumFunctionOnSet(f, S \ {x})
<1> DEFINE A == {T \in SUBSET S : \A y \in T :
                   SumFunctionOnSet(f, T) = f[y] + SumFunctionOnSet(f, T \ {y})}
<1>1. {} \in A
  OBVIOUS
<1>2. ASSUME NEW T \in SUBSET S, T # {}, \A y \in T : T \ {y} \in A
      PROVE  T \in A
  <2> DEFINE c == Chosen(T)
  <2>1. c \in T /\ IsFiniteSet(T)
    BY <1>2, FS_Subset DEF Chosen
  <2>2. SumFunctionOnSet(f, T) = f[c] + SumFunctionOnSet(f, T \ {c})
    BY <1>2, <2>1, SumChosen
  <2>3. ASSUME NEW y \in T, y # c
        PROVE  SumFunctionOnSet(f, T) = f[y] + SumFunctionOnSet(f, T \ {y})
    <3> HIDE DEF c
    <3>1. SumFunctionOnSet(f, T \ {c}) = f[y] + SumFunctionOnSet(f, (T \ {c}) \ {y})
      BY <1>2, <2>1, <2>3
    <3>2. SumFunctionOnSet(f, T \ {y}) = f[c] + SumFunctionOnSet(f, (T \ {y}) \ {c})
      BY <1>2, <2>1, <2>3
    <3>3. (T \ {y}) \ {c} = (T \ {c}) \ {y}
      OBVIOUS
    <3>4. IsFiniteSet((T \ {c}) \ {y}) /\ \A z \in (T \ {c}) \ {y} : f[z] \in Int
      BY <2>1, FS_Subset
    <3>5. SumFunctionOnSet(f, (T \ {c}) \ {y}) \in Int
      BY <3>4, SumType
    <3>6. f[c] \in Int /\ f[y] \in Int
      BY <2>1
    <3> DEFINE u == SumFunctionOnSet(f, (T \ {c}) \ {y})
    <3>7. SumFunctionOnSet(f, T) = f[c] + (f[y] + u)
      BY <2>2, <3>1
    <3>8. SumFunctionOnSet(f, T \ {y}) = f[c] + u
      BY <3>2, <3>3
    <3>9. u \in Int
      BY <3>5
    <3> HIDE DEF u
    <3>10. f[c] + (f[y] + u) = f[y] + (f[c] + u)
      BY <3>6, <3>9
    <3> QED
      BY <3>7, <3>8, <3>10
  <2> QED
    BY <2>2, <2>3
<1> HIDE DEF A
<1>3. \A T \in SUBSET S : T \in A
  BY <1>1, <1>2, SubsetInduction
<1> QED
  BY <1>3 DEF A

\* ... so a new element adds its value.
LEMMA SumAdd ==
    ASSUME NEW S, IsFiniteSet(S), NEW x, x \notin S, NEW f, \A y \in S \cup {x} : f[y] \in Int
    PROVE  SumFunctionOnSet(f, S \cup {x}) = f[x] + SumFunctionOnSet(f, S)
<1>1. IsFiniteSet(S \cup {x}) /\ (S \cup {x}) \ {x} = S
  BY FS_AddElement
<1>2. SumFunctionOnSet(f, S \cup {x}) = f[x] + SumFunctionOnSet(f, (S \cup {x}) \ {x})
  BY <1>1, SumRemove
<1> QED
  BY <1>1, <1>2

\* A sum depends on the values it adds up only.
LEMMA SumSame ==
    ASSUME NEW S, IsFiniteSet(S), NEW f, NEW e, \A x \in S : f[x] \in Int /\ e[x] = f[x]
    PROVE  SumFunctionOnSet(f, S) = SumFunctionOnSet(e, S)
<1> DEFINE A == {T \in SUBSET S : SumFunctionOnSet(f, T) = SumFunctionOnSet(e, T)}
<1>1. {} \in A
  BY SumEmpty
<1>2. ASSUME NEW T \in SUBSET S, T # {}, \A x \in T : T \ {x} \in A
      PROVE  T \in A
  <2>1. PICK x : x \in T
    BY <1>2
  <2>2. IsFiniteSet(T) /\ \A y \in T : f[y] \in Int /\ e[y] \in Int
    BY FS_Subset
  <2>3. SumFunctionOnSet(f, T) = f[x] + SumFunctionOnSet(f, T \ {x})
    BY <2>1, <2>2, SumRemove
  <2>4. SumFunctionOnSet(e, T) = e[x] + SumFunctionOnSet(e, T \ {x})
    BY <2>1, <2>2, SumRemove
  <2>5. SumFunctionOnSet(f, T \ {x}) = SumFunctionOnSet(e, T \ {x})
    BY <1>2, <2>1
  <2> QED
    BY <2>1, <2>3, <2>4, <2>5
<1> HIDE DEF A
<1>3. \A T \in SUBSET S : T \in A
  BY <1>1, <1>2, SubsetInduction
<1> QED
  BY <1>3 DEF A

\* The sum over two disjoint sets.
LEMMA SumUnion ==
    ASSUME NEW S, IsFiniteSet(S), NEW R, IsFiniteSet(R), S \cap R = {},
           NEW f, \A x \in S \cup R : f[x] \in Int
    PROVE  SumFunctionOnSet(f, S \cup R) = SumFunctionOnSet(f, S) + SumFunctionOnSet(f, R)
<1> DEFINE A == {T \in SUBSET R :
                   SumFunctionOnSet(f, S \cup T) = SumFunctionOnSet(f, S) + SumFunctionOnSet(f, T)}
<1>0. SumFunctionOnSet(f, S) \in Int
  BY SumType
<1>1. {} \in A
  <2>1. S \cup {} = S
    OBVIOUS
  <2> QED
    BY <1>0, <2>1, SumEmpty
<1>2. ASSUME NEW T \in SUBSET R, T # {}, \A x \in T : T \ {x} \in A
      PROVE  T \in A
  <2>1. PICK x : x \in T
    BY <1>2
  <2>2. /\ IsFiniteSet(T) /\ \A y \in T : f[y] \in Int
        /\ IsFiniteSet(S \cup T) /\ \A y \in S \cup T : f[y] \in Int
        /\ IsFiniteSet(T \ {x})
    BY FS_Subset, FS_Union
  <2>3. SumFunctionOnSet(f, T) = f[x] + SumFunctionOnSet(f, T \ {x})
    BY <2>1, <2>2, SumRemove
  <2>4. SumFunctionOnSet(f, S \cup T) = f[x] + SumFunctionOnSet(f, (S \cup T) \ {x})
    BY <2>1, <2>2, SumRemove
  <2>5. (S \cup T) \ {x} = S \cup (T \ {x})
    BY <2>1
  <2>6. SumFunctionOnSet(f, S \cup (T \ {x}))
          = SumFunctionOnSet(f, S) + SumFunctionOnSet(f, T \ {x})
    BY <1>2, <2>1
  <2>7. SumFunctionOnSet(f, T \ {x}) \in Int
    BY <2>2, SumType
  <2>8. f[x] \in Int
    BY <2>1, <2>2
  <2> DEFINE u == SumFunctionOnSet(f, S)
             w == SumFunctionOnSet(f, T \ {x})
  <2>9. SumFunctionOnSet(f, S \cup T) = f[x] + (u + w)
    BY <2>4, <2>5, <2>6
  <2>10. u \in Int /\ w \in Int
    BY <1>0, <2>7
  <2>11. f[x] + (u + w) = u + (f[x] + w)
    <3> HIDE DEF u, w
    <3> QED
      BY <2>8, <2>10
  <2>12. SumFunctionOnSet(f, S \cup T) = u + SumFunctionOnSet(f, T)
    BY <2>3, <2>9, <2>11
  <2> QED
    BY <2>12
<1> HIDE DEF A
<1>3. \A T \in SUBSET R : T \in A
  BY <1>1, <1>2, SubsetInduction
<1> QED
  BY <1>3 DEF A

\* A sum of natural numbers is a natural number.
LEMMA SumNat ==
    ASSUME NEW S, IsFiniteSet(S), NEW f, \A x \in S : f[x] \in Nat
    PROVE  SumFunctionOnSet(f, S) \in Nat
<1> DEFINE A == {T \in SUBSET S : SumFunctionOnSet(f, T) \in Nat}
<1>1. {} \in A
  BY SumEmpty
<1>2. ASSUME NEW T \in SUBSET S, T # {}, \A x \in T : T \ {x} \in A
      PROVE  T \in A
  <2>1. PICK x : x \in T
    BY <1>2
  <2>2. IsFiniteSet(T) /\ \A y \in T : f[y] \in Int
    BY FS_Subset
  <2>3. SumFunctionOnSet(f, T) = f[x] + SumFunctionOnSet(f, T \ {x})
    BY <2>1, <2>2, SumRemove
  <2>4. SumFunctionOnSet(f, T \ {x}) \in Nat /\ f[x] \in Nat
    BY <1>2, <2>1
  <2> QED
    BY <2>3, <2>4
<1> HIDE DEF A
<1>3. \A T \in SUBSET S : T \in A
  BY <1>1, <1>2, SubsetInduction
<1> QED
  BY <1>3 DEF A

\* Sums are linear.
LEMMA SumLinear ==
    ASSUME NEW S, IsFiniteSet(S), NEW k \in Int, NEW a, NEW b, NEW f,
           \A x \in S : a[x] \in Int /\ b[x] \in Int /\ f[x] = k * a[x] + b[x]
    PROVE  SumFunctionOnSet(f, S) = k * SumFunctionOnSet(a, S) + SumFunctionOnSet(b, S)
<1> DEFINE A == {T \in SUBSET S :
                   SumFunctionOnSet(f, T) = k * SumFunctionOnSet(a, T) + SumFunctionOnSet(b, T)}
<1>1. {} \in A
  <2>1. k * 0 + 0 = 0
    OBVIOUS
  <2> QED
    BY <2>1, SumEmpty
<1>2. ASSUME NEW T \in SUBSET S, T # {}, \A x \in T : T \ {x} \in A
      PROVE  T \in A
  <2>1. PICK x : x \in T
    BY <1>2
  <2> DEFINE R == T \ {x}
  <2>2. IsFiniteSet(T) /\ IsFiniteSet(R) /\ R \subseteq T
    BY FS_Subset
  <2>3. \A y \in T : a[y] \in Int /\ b[y] \in Int /\ f[y] \in Int
    OBVIOUS
  <2>4. /\ SumFunctionOnSet(f, T) = f[x] + SumFunctionOnSet(f, R)
        /\ SumFunctionOnSet(a, T) = a[x] + SumFunctionOnSet(a, R)
        /\ SumFunctionOnSet(b, T) = b[x] + SumFunctionOnSet(b, R)
    BY <2>1, <2>2, <2>3, SumRemove
  <2> DEFINE sa == SumFunctionOnSet(a, R)
             sb == SumFunctionOnSet(b, R)
  <2>5. SumFunctionOnSet(f, R) = k * sa + sb
    BY <1>2, <2>1
  <2>6. sa \in Int /\ sb \in Int
    BY <2>2, <2>3, SumType
  <2>7. a[x] \in Int /\ b[x] \in Int /\ f[x] = k * a[x] + b[x]
    BY <2>1
  <2>8. f[x] + (k * sa + sb) = k * (a[x] + sa) + (b[x] + sb)
    <3> HIDE DEF sa, sb
    <3>1. ASSUME NEW u \in Int, NEW w \in Int
          PROVE  (k * u + w) + (k * sa + sb) = k * (u + sa) + (w + sb)
      BY <2>6
    <3> QED
      BY <2>7, <3>1
  <2> QED
    BY <2>4, <2>5, <2>8
<1> HIDE DEF A
<1>3. \A T \in SUBSET S : T \in A
  BY <1>1, <1>2, SubsetInduction
<1> QED
  BY <1>3 DEF A

-----------------------------------------------------------------------------
(* Recursion over an initial segment of the natural numbers. *)

\* f is a table of a recursion, up to n.
IsRecursion(f, n, base, h) ==
    /\ f[0] = base
    /\ \A i \in 1 .. n : f[i] = h[<<i, f[i - 1]>>]

\* A recursion whose step is given by a function of the index and of the value
\* so far has a table.
LEMMA RecursionExists ==
    ASSUME NEW n \in Nat, NEW V, NEW base \in V, NEW h \in [Nat \X V -> V]
    PROVE  \E f \in [0 .. n -> V] : IsRecursion(f, n, base, h)
<1> DEFINE A == {k \in Nat : \E f \in [0 .. k -> V] : IsRecursion(f, k, base, h)}
<1>1. 0 \in A
  <2> DEFINE f == [i \in 0 .. 0 |-> base]
  <2>1. f \in [0 .. 0 -> V] /\ IsRecursion(f, 0, base, h)
    BY DEF IsRecursion
  <2> HIDE DEF f
  <2> QED
    BY <2>1
<1>2. ASSUME NEW k \in A PROVE k + 1 \in A
  <2>1. PICK f \in [0 .. k -> V] : IsRecursion(f, k, base, h)
    OBVIOUS
  <2>2. k \in Nat
    OBVIOUS
  <2> HIDE DEF A
  <2> DEFINE e == [i \in 0 .. k + 1 |-> IF i = k + 1 THEN h[<<i, f[k]>>] ELSE f[i]]
  <2>3. f[k] \in V
    BY <2>1, <2>2
  <2>4. h[<<k + 1, f[k]>>] \in V
    <3>1. <<k + 1, f[k]>> \in Nat \X V
      BY <2>2, <2>3
    <3> QED
      BY <3>1
  <2>5. e \in [0 .. k + 1 -> V]
    BY <2>1, <2>2, <2>4
  <2>6. e[0] = base
    BY <2>1, <2>2 DEF IsRecursion
  <2>7. ASSUME NEW i \in 1 .. k + 1 PROVE e[i] = h[<<i, e[i - 1]>>]
    <3>1. CASE i = k + 1
      <4>1. i - 1 = k /\ e[k] = f[k] /\ e[i] = h[<<i, f[k]>>]
        BY <2>2, <3>1
      <4> QED
        BY <4>1
    <3>2. CASE i # k + 1
      <4>1. i \in 1 .. k /\ i - 1 \in 0 .. k
        BY <2>2, <3>2
      <4>2. e[i] = f[i] /\ e[i - 1] = f[i - 1]
        BY <2>2, <4>1
      <4> QED
        BY <2>1, <4>1, <4>2 DEF IsRecursion
    <3> QED
      BY <3>1, <3>2
  <2> HIDE DEF e
  <2>8. IsRecursion(e, k + 1, base, h)
    BY <2>6, <2>7 DEF IsRecursion
  <2> QED
    BY <2>2, <2>5, <2>8 DEF A
<1> HIDE DEF A
<1>3. A = Nat
  <2>1. A \subseteq Nat
    BY DEF A
  <2> QED
    BY <1>1, <1>2, <2>1, NatSetInduction
<1> QED
  BY <1>3 DEF A

-----------------------------------------------------------------------------
(* Residues. *)

\* Quotient and remainder of an integer.
LEMMA ModDef ==
    ASSUME NEW a \in Int, NEW m \in Nat \ {0}
    PROVE  a % m \in 0 .. m - 1 /\ a \div m \in Int /\ a = m * (a \div m) + (a % m)
  BY SMT

\* There is one residue.
LEMMA ModUnique ==
    ASSUME NEW m \in Nat \ {0}, NEW k \in Int, NEW s \in 0 .. m - 1
    PROVE  (m * k + s) % m = s
<1> DEFINE a == m * k + s
           d == a \div m
           e == a % m
<1>1. a \in Int
  OBVIOUS
<1>2. d \in Int /\ e \in 0 .. m - 1 /\ a = m * d + e
  <2> HIDE DEF a
  <2> QED
    BY <1>1, ModDef
<1> HIDE DEF d, e
<1>3. m * (k - d) = e - s
  BY <1>2
<1>4. CASE k - d >= 1
  <2>1. m * (k - d) >= m
    BY <1>2, <1>4, SMT
  <2> QED
    BY <1>2, <1>3, <2>1
<1>5. CASE k - d <= -1
  <2>1. m * (k - d) <= -m
    BY <1>2, <1>5, SMT
  <2> QED
    BY <1>2, <1>3, <2>1
<1>6. CASE k - d = 0
  <2>1. m * (k - d) = 0
    BY <1>6
  <2>2. e = s
    BY <1>2, <1>3, <2>1
  <2> QED
    BY <2>2 DEF e
<1> QED
  BY <1>2, <1>4, <1>5, <1>6

\* A residue is its own residue.
LEMMA ModSmall ==
    ASSUME NEW m \in Nat \ {0}, NEW s \in 0 .. m - 1
    PROVE  s % m = s
<1>1. m * 0 + s = s
  OBVIOUS
<1> QED
  BY <1>1, ModUnique

\* A multiple of the modulus does not matter.
LEMMA ModShift ==
    ASSUME NEW m \in Nat \ {0}, NEW k \in Int, NEW a \in Int
    PROVE  (m * k + a) % m = a % m
<1> DEFINE d == a \div m
           e == a % m
<1>1. d \in Int /\ e \in 0 .. m - 1 /\ a = m * d + e
  BY ModDef
<1> HIDE DEF d, e
<1>2. m * k + a = m * (k + d) + e
  BY <1>1
<1>3. (m * (k + d) + e) % m = e
  BY <1>1, ModUnique
<1> QED
  BY <1>2, <1>3 DEF e

\* A factor may be reduced first.
LEMMA ModTimes ==
    ASSUME NEW m \in Nat \ {0}, NEW a \in Int, NEW b \in Int
    PROVE  ((a % m) * b) % m = (a * b) % m
<1> DEFINE d == a \div m
           e == a % m
<1>1. d \in Int /\ e \in 0 .. m - 1 /\ a = m * d + e
  BY ModDef
<1> HIDE DEF d, e
<1>2. a * b = m * (d * b) + e * b
  BY <1>1
<1>3. d * b \in Int /\ e * b \in Int
  BY <1>1
<1>4. (m * (d * b) + e * b) % m = (e * b) % m
  BY <1>3, ModShift
<1> QED
  BY <1>2, <1>4 DEF e

\* Multiplication modulo m is associative.
LEMMA ModAssoc ==
    ASSUME NEW m \in Nat \ {0}, NEW a \in Int, NEW b \in Int, NEW c \in Int
    PROVE  (((a * b) % m) * c) % m = (a * ((b * c) % m)) % m
<1>1. a * b \in Int /\ b * c \in Int
  OBVIOUS
<1>2. (((a * b) % m) * c) % m = ((a * b) * c) % m
  BY <1>1, ModTimes
<1>3. (((b * c) % m) * a) % m = ((b * c) * a) % m
  BY <1>1, ModTimes
<1>4. (a * b) * c = (b * c) * a
  OBVIOUS
<1>5. (b * c) % m \in Int
  BY <1>1, ModDef
<1>6. ((b * c) % m) * a = a * ((b * c) % m)
  BY <1>5
<1> QED
  BY <1>2, <1>3, <1>4, <1>6

-----------------------------------------------------------------------------
\* A one-to-one correspondence keeps the number of elements.
LEMMA SameSize ==
    ASSUME NEW S, NEW T, IsFiniteSet(S), NEW F \in [S -> T],
           \A a, b \in S : F[a] = F[b] => a = b, \A t \in T : \E a \in S : F[a] = t
    PROVE  IsFiniteSet(T) /\ Cardinality(T) = Cardinality(S)
<1>1. F \in Bijection(S, T)
  BY Fun_IsBij
<1>2. ExistsBijection(S, T)
  BY <1>1, Fun_ExistsBij
<1> QED
  BY <1>2, FS_Bijection

\* The powers of two, counted as subsets.
LEMMA TwoZero == 2^0 = 1
  BY SMT

\* ... and doubled by every further element.
LEMMA TwoStep ==
    ASSUME NEW n \in Nat
    PROVE  2^(n + 1) = 2 * 2^n /\ 2^n \in Nat
<1> DEFINE S == 1 .. n
           A == SUBSET S
           B == {X \cup {n + 1} : X \in A}
           F == [X \in A |-> X \cup {n + 1}]
<1>1. IsFiniteSet(S) /\ Cardinality(S) = n
  BY FS_Interval
<1>2. IsFiniteSet(1 .. n + 1) /\ Cardinality(1 .. n + 1) = n + 1
  BY FS_Interval
<1>3. IsFiniteSet(A) /\ Cardinality(A) = 2^n
  BY <1>1, FS_SUBSET
<1>4. Cardinality(SUBSET (1 .. n + 1)) = 2^(n + 1)
  BY <1>2, FS_SUBSET
<1>5. n + 1 \notin S /\ 1 .. n + 1 = S \cup {n + 1}
  OBVIOUS
<1> HIDE DEF S
<1>6. SUBSET (1 .. n + 1) = A \cup B /\ A \cap B = {}
  <2>1. ASSUME NEW Y \in SUBSET (1 .. n + 1) PROVE Y \in A \cup B
    <3>1. CASE n + 1 \notin Y
      BY <1>5, <3>1
    <3>2. CASE n + 1 \in Y
      <4>1. Y \ {n + 1} \in A /\ Y = (Y \ {n + 1}) \cup {n + 1}
        BY <1>5, <3>2
      <4> QED
        BY <4>1
    <3> QED
      BY <3>1, <3>2
  <2>2. ASSUME NEW Y \in A \cup B PROVE Y \in SUBSET (1 .. n + 1)
    BY <1>5
  <2>3. A \cap B = {}
    BY <1>5
  <2> QED
    BY <2>1, <2>2, <2>3
<1>7. IsFiniteSet(B) /\ Cardinality(B) = Cardinality(A)
  <2>1. F \in [A -> B] /\ \A t \in B : \E a \in A : F[a] = t
    OBVIOUS
  <2>2. ASSUME NEW a \in A, NEW b \in A, F[a] = F[b] PROVE a = b
    <3>1. a \cup {n + 1} = b \cup {n + 1} /\ n + 1 \notin a /\ n + 1 \notin b
      BY <1>5, <2>2
    <3> QED
      BY <3>1
  <2> HIDE DEF A, B, F
  <2> QED
    BY <1>3, <2>1, <2>2, SameSize
<1>8. Cardinality(A) \in Nat
  BY <1>3, FS_CardinalityType
<1> HIDE DEF A, B
<1>9. Cardinality(A \cup B) = Cardinality(A) + Cardinality(B) - Cardinality(A \cap B)
  BY <1>3, <1>7, FS_Union
<1>10. Cardinality(A \cap B) = 0
  BY <1>6, FS_EmptySet
<1>11. 2^(n + 1) = Cardinality(A) + Cardinality(A) - 0
  BY <1>4, <1>6, <1>7, <1>9, <1>10
<1> QED
  BY <1>3, <1>8, <1>11

\* A power of two exceeds its exponent.
LEMMA TwoPositive ==
    ASSUME NEW n \in Nat
    PROVE  2^n \in Nat \ {0} /\ n < 2^n
<1> DEFINE A == {k \in Nat : 2^k \in Nat /\ 2^k > k}
<1>1. 0 \in A
  BY TwoZero
<1>2. ASSUME NEW k \in A PROVE k + 1 \in A
  <2>1. 2^(k + 1) = 2 * 2^k /\ 2^k \in Nat /\ 2^k > k /\ k \in Nat
    BY TwoStep
  <2> QED
    BY <2>1
<1> HIDE DEF A
<1>3. A = Nat
  <2>1. A \subseteq Nat
    BY DEF A
  <2> QED
    BY <1>1, <1>2, <2>1, NatSetInduction
<1>4. 2^n \in Nat /\ 2^n > n
  BY <1>3 DEF A
<1> QED
  BY <1>4

\* Exponents add.
LEMMA TwoAdd ==
    ASSUME NEW a \in Nat, NEW b \in Nat
    PROVE  2^(a + b) = 2^a * 2^b
<1> DEFINE A == {k \in Nat : 2^(a + k) = 2^a * 2^k}
<1>0. 2^a \in Nat
  BY TwoStep
<1>1. 0 \in A
  <2>1. a + 0 = a /\ 2^a * 1 = 2^a
    BY <1>0
  <2> QED
    BY <2>1, TwoZero
<1>2. ASSUME NEW k \in A PROVE k + 1 \in A
  <2>1. 2^(k + 1) = 2 * 2^k /\ 2^k \in Nat /\ k \in Nat
    BY TwoStep
  <2>2. 2^((a + k) + 1) = 2 * 2^(a + k)
    BY <2>1, TwoStep
  <2>3. 2^(a + k) = 2^a * 2^k
    OBVIOUS
  <2>4. a + (k + 1) = (a + k) + 1
    BY <2>1
  <2> DEFINE x == 2^a
             y == 2^k
  <2>5. 2 * (x * y) = x * (2 * y)
    <3>1. x \in Nat /\ y \in Nat
      BY <1>0, <2>1
    <3> HIDE DEF x, y
    <3> QED
      BY <3>1
  <2>6. 2^(a + (k + 1)) = 2^a * 2^(k + 1)
    BY <2>1, <2>2, <2>3, <2>4, <2>5
  <2> QED
    BY <2>1, <2>6
<1> HIDE DEF A
<1>3. A = Nat
  <2>1. A \subseteq Nat
    BY DEF A
  <2> QED
    BY <1>1, <1>2, <2>1, NatSetInduction
<1> QED
  BY <1>3 DEF A

=============================================================================
