----------------------------- MODULE ElGamalProofs -----------------------------
(***************************************************************************)
(* The encrypted inner product is right for every modulus, key, vector and *)
(* team of threads.                                                        *)
(*                                                                         *)
(* The argument: a ciphertext of m with randomness k is the pair of powers *)
(* of g with exponents k and r * k + m.  Raising to d[i] and multiplying   *)
(* act on the exponents as a linear map, so a thread's product over its    *)
(* share has the sums over that share as exponents, and each merge adds    *)
(* the sums over a disjoint share.  At the join the exponents are K and    *)
(* r * K + (the inner product), and decryption cancels r * K.              *)
(***************************************************************************)
EXTENDS ElGamal, ArithmeticLemmas

\* What the constants are assumed to be; the order q of the generator is positive.
LEMMA Constants ==
    /\ p \in Nat \ {0} /\ p > 2 /\ g \in Nat /\ r \in Nat /\ Size \in Nat \ {0}
    /\ NumThreads \in Nat \ {0} /\ q \in Nat \ {0}
    /\ Pow(g, q) = 1
<1>1. p \in Nat /\ p > 2 /\ g \in Nat /\ r \in Nat /\ Size \in Nat \ {0} /\ NumThreads \in Nat \ {0} /\ Pow(g, q) = 1
  <2> HIDE DEF q
  <2> QED
  BY ElGamalAssumption
<1>2. (p - 1) \div 2 \in Nat \ {0}
  BY <1>1
<1> QED
  BY <1>1, <1>2 DEF q

\* The residues modulo p.
Res == 0 .. p - 1

\* The generator is an integer.
LEMMA GInt == g \in Int
  BY Constants

\* The vectors are finite.
LEMMA FiniteIdx == IsFiniteSet(Idx)
<1>1. Size - 1 \in Int
  BY Constants
<1> QED
  BY <1>1, FS_Interval DEF Idx

\* f is a table of the powers of b, up to n.
IsPow(f, n, b) == f[0] = 1 /\ \A i \in 1 .. n : f[i] = (f[i - 1] * b) % p

\* Pow reads its value from such a table.
LEMMA PowTable ==
    ASSUME NEW b \in Int, NEW n \in Nat
    PROVE  \E f : IsPow(f, n, b) /\ Pow(b, n) = f[n]
<1> DEFINE h == [a \in Nat \X Res |-> (a[2] * b) % p]
           IsIt(f) == f = [i \in 0 .. n |-> IF i = 0 THEN 1 ELSE (f[i - 1] * b) % p]
<1>1. h \in [Nat \X Res -> Res]
  <2>1. ASSUME NEW a \in Nat \X Res PROVE (a[2] * b) % p \in Res
    <3>1. a[2] * b \in Int
      BY Constants DEF Res
    <3> QED
      BY <3>1, Constants, ModDef DEF Res
  <2> QED
    BY <2>1
<1>2. 1 \in Res
  BY Constants DEF Res
<1>3. PICK f \in [0 .. n -> Res] : IsRecursion(f, n, 1, h)
  <2> HIDE DEF h
  <2> QED
    BY <1>1, <1>2, RecursionExists
<1>4. \A i \in 1 .. n : f[i] = (f[i - 1] * b) % p
  <2> SUFFICES ASSUME NEW i \in 1 .. n PROVE f[i] = (f[i - 1] * b) % p
    OBVIOUS
  <2>1. f[i - 1] \in Res /\ <<i, f[i - 1]>> \in Nat \X Res
    BY <1>3
  <2>2. f[i] = h[<<i, f[i - 1]>>]
    BY <1>3 DEF IsRecursion
  <2> QED
    BY <2>1, <2>2
<1>5. IsIt(f)
  BY <1>3, <1>4 DEF IsRecursion
<1> DEFINE e == CHOOSE e : IsIt(e)
<1>6. IsIt(e)
  BY <1>5, Zenon
<1>7. Pow(b, n) = e[n]
  BY DEF Pow
<1> HIDE DEF e
<1>8. IsPow(e, n, b)
  BY <1>6 DEF IsPow
<1> QED
  BY <1>7, <1>8

\* Tables for different exponents agree.
LEMMA PowTables ==
    ASSUME NEW b, NEW n \in Nat, NEW m \in Nat, n <= m, NEW f, NEW e,
           IsPow(f, n, b), IsPow(e, m, b)
    PROVE  f[n] = e[n]
<1> DEFINE A == {k \in Nat : k <= n => f[k] = e[k]}
<1>1. 0 \in A
  BY DEF IsPow
<1>2. ASSUME NEW k \in A PROVE k + 1 \in A
  <2>1. k \in Nat /\ (k <= n => f[k] = e[k])
    OBVIOUS
  <2>2. ASSUME k + 1 <= n PROVE f[k + 1] = e[k + 1]
    <3>1. k + 1 \in 1 .. n /\ k + 1 \in 1 .. m /\ (k + 1) - 1 = k /\ k <= n
      BY <2>1, <2>2
    <3> QED
      BY <2>1, <3>1 DEF IsPow
  <2> QED
    BY <2>1, <2>2
<1> HIDE DEF A
<1>3. A = Nat
  <2>1. A \subseteq Nat
    BY DEF A
  <2> QED
    BY <1>1, <1>2, <2>1, NatSetInduction
<1> QED
  BY <1>3 DEF A

\* The laws of powers modulo p, from the table: zero ...
LEMMA PowZero ==
    ASSUME NEW b \in Int
    PROVE  Pow(b, 0) = 1
  BY PowTable DEF IsPow

\* ... one more factor ...
LEMMA PowStep ==
    ASSUME NEW b \in Int, NEW n \in Nat
    PROVE  Pow(b, n + 1) = (Pow(b, n) * b) % p
<1>1. PICK f : IsPow(f, n, b) /\ Pow(b, n) = f[n]
  BY PowTable
<1>2. PICK e : IsPow(e, n + 1, b) /\ Pow(b, n + 1) = e[n + 1]
  BY PowTable
<1>3. f[n] = e[n]
  BY <1>1, <1>2, PowTables
<1>4. e[n + 1] = (e[(n + 1) - 1] * b) % p /\ (n + 1) - 1 = n
  BY <1>2 DEF IsPow
<1> QED
  BY <1>1, <1>2, <1>3, <1>4

\* ... and every power is a residue.
LEMMA PowType ==
    ASSUME NEW b \in Int, NEW n \in Nat
    PROVE  Pow(b, n) \in Res
<1> DEFINE A == {k \in Nat : Pow(b, k) \in Res}
<1>1. 0 \in A
  BY PowZero, Constants DEF Res
<1>2. ASSUME NEW k \in A PROVE k + 1 \in A
  <2>1. Pow(b, k + 1) = (Pow(b, k) * b) % p
    BY PowStep
  <2>2. Pow(b, k) * b \in Int
    BY Constants DEF Res
  <2>3. (Pow(b, k) * b) % p \in Res
    BY <2>2, Constants, ModDef DEF Res
  <2> QED
    BY <2>1, <2>3
<1> HIDE DEF A
<1>3. A = Nat
  <2>1. A \subseteq Nat
    BY DEF A
  <2> QED
    BY <1>1, <1>2, <2>1, NatSetInduction
<1> QED
  BY <1>3 DEF A

\* b^(m+n) = b^m * b^n.
LEMMA PowAdd ==
    ASSUME NEW b \in Int, NEW m \in Nat, NEW n \in Nat
    PROVE  Pow(b, m + n) = (Pow(b, m) * Pow(b, n)) % p
<1> DEFINE A == {k \in Nat : Pow(b, m + k) = (Pow(b, m) * Pow(b, k)) % p}
<1>0. Pow(b, m) \in Res /\ Pow(b, m) \in Int
  BY PowType DEF Res
<1>1. 0 \in A
  <2>1. Pow(b, m) % p = Pow(b, m)
    BY <1>0, Constants, ModSmall DEF Res
  <2>2. Pow(b, m) * 1 = Pow(b, m) /\ m + 0 = m
    BY <1>0
  <2> QED
    BY <2>1, <2>2, PowZero
<1>2. ASSUME NEW k \in A PROVE k + 1 \in A
  <2>1. k \in Nat /\ m + k \in Nat /\ m + (k + 1) = (m + k) + 1
    OBVIOUS
  <2>2. Pow(b, k) \in Int
    BY <2>1, PowType DEF Res
  <2>3. Pow(b, (m + k) + 1) = (Pow(b, m + k) * b) % p
    BY <2>1, PowStep
  <2>4. Pow(b, m + k) = (Pow(b, m) * Pow(b, k)) % p
    OBVIOUS
  <2>5. (((Pow(b, m) * Pow(b, k)) % p) * b) % p = (Pow(b, m) * ((Pow(b, k) * b) % p)) % p
    BY <1>0, <2>2, Constants, ModAssoc
  <2>6. Pow(b, k + 1) = (Pow(b, k) * b) % p
    BY <2>1, PowStep
  <2>7. Pow(b, m + (k + 1)) = (Pow(b, m) * Pow(b, k + 1)) % p
    BY <2>1, <2>3, <2>4, <2>5, <2>6
  <2> QED
    BY <2>1, <2>7
<1> HIDE DEF A
<1>3. A = Nat
  <2>1. A \subseteq Nat
    BY DEF A
  <2> QED
    BY <1>1, <1>2, <2>1, NatSetInduction
<1> QED
  BY <1>3 DEF A

\* (b^m)^n = b^(m*n).
LEMMA PowTimes ==
    ASSUME NEW b \in Int, NEW m \in Nat, NEW n \in Nat
    PROVE  Pow(Pow(b, m), n) = Pow(b, m * n)
<1> DEFINE A == {k \in Nat : Pow(Pow(b, m), k) = Pow(b, m * k)}
<1>0. Pow(b, m) \in Int
  BY PowType DEF Res
<1>1. 0 \in A
  <2>1. m * 0 = 0
    OBVIOUS
  <2> QED
    BY <1>0, <2>1, PowZero
<1>2. ASSUME NEW k \in A PROVE k + 1 \in A
  <2>1. k \in Nat /\ m * k \in Nat /\ m * (k + 1) = (m * k) + m
    OBVIOUS
  <2>2. Pow(Pow(b, m), k + 1) = (Pow(Pow(b, m), k) * Pow(b, m)) % p
    BY <1>0, <2>1, PowStep
  <2>3. Pow(Pow(b, m), k) = Pow(b, m * k)
    OBVIOUS
  <2>4. Pow(b, (m * k) + m) = (Pow(b, m * k) * Pow(b, m)) % p
    BY <2>1, PowAdd
  <2>5. Pow(Pow(b, m), k + 1) = Pow(b, m * (k + 1))
    BY <2>1, <2>2, <2>3, <2>4
  <2> QED
    BY <2>1, <2>5
<1> HIDE DEF A
<1>3. A = Nat
  <2>1. A \subseteq Nat
    BY DEF A
  <2> QED
    BY <1>1, <1>2, <2>1, NatSetInduction
<1> QED
  BY <1>3 DEF A

\* All powers of 1 are 1.
LEMMA PowOne ==
    ASSUME NEW n \in Nat
    PROVE  Pow(1, n) = 1
<1> DEFINE A == {k \in Nat : Pow(1, k) = 1}
<1>1. 0 \in A
  BY PowZero
<1>2. ASSUME NEW k \in A PROVE k + 1 \in A
  <2>1. Pow(1, k + 1) = (Pow(1, k) * 1) % p /\ Pow(1, k) = 1
    BY PowStep
  <2>2. 1 % p = 1
    BY Constants, ModSmall
  <2>3. 1 * 1 = 1
    OBVIOUS
  <2> QED
    BY <2>1, <2>2, <2>3
<1> HIDE DEF A
<1>3. A = Nat
  <2>1. A \subseteq Nat
    BY DEF A
  <2> QED
    BY <1>1, <1>2, <2>1, NatSetInduction
<1> QED
  BY <1>3 DEF A

\* Exponents count modulo the order of the generator.
LEMMA PowOrder ==
    ASSUME NEW n \in Nat
    PROVE  Pow(g, q * n) = 1 /\ Pow(g, n) = Pow(g, n % q)
<1>1. ASSUME NEW k \in Nat PROVE Pow(g, q * k) = 1
  <2>1. Pow(Pow(g, q), k) = Pow(g, q * k)
    BY Constants, PowTimes
  <2> QED
    BY <2>1, Constants, PowOne
<1> DEFINE w == n \div q
           e == n % q
<1>2. w \in Nat /\ e \in Nat /\ n = q * w + e
  <2>0. q \in Nat \ {0} /\ n \in Int
    BY Constants
  <2>1. w \in Int /\ e \in 0 .. q - 1 /\ n = q * w + e
    BY <2>0, ModDef
  <2>2. w >= 0
    BY <2>0, SMT
  <2> QED
    BY <2>1, <2>2
<1> HIDE DEF w, e
<1>3. Pow(g, q * w + e) = (Pow(g, q * w) * Pow(g, e)) % p
  <2>1. q * w \in Nat
    BY <1>2, Constants
  <2> QED
    BY <1>2, <2>1, Constants, PowAdd
<1>4. 1 * Pow(g, e) = Pow(g, e) /\ Pow(g, e) % p = Pow(g, e)
  <2>1. Pow(g, e) \in Res
    BY <1>2, GInt, PowType
  <2>2. Pow(g, e) \in 0 .. p - 1 /\ p \in Nat \ {0}
    BY <2>1, Constants DEF Res
  <2> QED
    BY <2>2, ModSmall
<1>5. Pow(g, n) = Pow(g, e)
  BY <1>1, <1>2, <1>3, <1>4
<1> QED
  BY <1>1, <1>5 DEF e

-----------------------------------------------------------------------------
(* The partial products of the threads. *)

\* A product of powers of the generator is the power to the sum of the exponents.
LEMMA SpowmPower ==
    ASSUME NEW off \in Int, NEW S \in SUBSET Idx, NEW e,
           \A i \in S : e[i] \in Nat /\ Pow(file[off + i], d[i]) = Pow(g, e[i])
    PROVE  Spowm(off, S) = Pow(g, SumFunctionOnSet(e, S))
<1> DEFINE f == [i \in Idx |-> Pow(file[off + i], d[i])]
           IsIt(it) == it = [T \in SUBSET S |-> IF T = {} THEN 1 ELSE (f[Chosen(T)] * it[T \ {Chosen(T)}]) % p]
           it0 == CHOOSE it : IsIt(it)
           h == [a \in (SUBSET S) \X Res |-> IF a[1] = {} THEN 1 ELSE (f[Chosen(a[1])] * a[2]) % p]
<1>1. Spowm(off, S) = it0[S]
  BY DEF Spowm, FoldFunctionOnSet, MapThenFoldSet, Chosen
<1>2. IsFiniteSet(S)
  BY FiniteIdx, FS_Subset
<1>3. \A i \in S : f[i] = Pow(g, e[i]) /\ f[i] \in Res /\ f[i] \in Int
  <2> SUFFICES ASSUME NEW i \in S PROVE f[i] = Pow(g, e[i]) /\ f[i] \in Res /\ f[i] \in Int
    OBVIOUS
  <2>1. f[i] = Pow(g, e[i])
    OBVIOUS
  <2>2. Pow(g, e[i]) \in Res
    BY GInt, PowType
  <2> QED
    BY <2>1, <2>2 DEF Res
<1> HIDE DEF f
<1>4. \A T \in SUBSET S : T # {} => Chosen(T) \in T
  BY DEF Chosen
<1>5. h \in [(SUBSET S) \X Res -> Res]
  <2>1. 1 \in Res
    BY Constants DEF Res
  <2>2. ASSUME NEW a \in (SUBSET S) \X Res, a[1] # {}
        PROVE  (f[Chosen(a[1])] * a[2]) % p \in Res
    <3>1. Chosen(a[1]) \in S /\ a[2] \in Int
      BY <1>4, <2>2 DEF Res
    <3>2. f[Chosen(a[1])] * a[2] \in Int
      BY <1>3, <3>1
    <3> QED
      BY <3>2, Constants, ModDef DEF Res
  <2> QED
    BY <2>1, <2>2
<1>6. PICK it \in [SUBSET S -> Res] : IsFold(it, S, 1, h)
  <2>1. 1 \in Res
    BY Constants DEF Res
  <2> HIDE DEF h
  <2> QED
    BY <1>2, <1>5, <2>1, FoldExists
<1>7. IsIt(it)
  <2>1. ASSUME NEW T \in SUBSET S, T # {}
        PROVE  h[<<T, it[T \ {Chosen(T)}]>>] = (f[Chosen(T)] * it[T \ {Chosen(T)}]) % p
    <3>1. it[T \ {Chosen(T)}] \in Res
      BY <1>6
    <3>2. <<T, it[T \ {Chosen(T)}]>> \in (SUBSET S) \X Res
      BY <3>1
    <3> QED
      BY <3>2, <2>1
  <2> HIDE DEF h
  <2> QED
    BY <1>6, <2>1 DEF IsFold
<1>8. IsIt(it0)
  BY <1>7, Zenon
<1> HIDE DEF it0, h
<1> DEFINE A == {T \in SUBSET S : it0[T] = Pow(g, SumFunctionOnSet(e, T))}
<1>9. {} \in A
  BY <1>8, SumEmpty, PowZero, Constants
<1>10. ASSUME NEW T \in SUBSET S, T # {}, \A x \in T : T \ {x} \in A
       PROVE  T \in A
  <2> DEFINE x == Chosen(T)
             R == T \ {x}
             u == SumFunctionOnSet(e, R)
  <2>1. x \in T
    BY <1>4, <1>10
  <2>2. it0[T] = (f[x] * it0[R]) % p
    BY <1>8, <1>10
  <2>3. it0[R] = Pow(g, u) /\ f[x] = Pow(g, e[x])
    BY <1>3, <1>10, <2>1
  <2>4. IsFiniteSet(T) /\ IsFiniteSet(R) /\ \A y \in T : e[y] \in Nat /\ e[y] \in Int
    BY <1>2, FS_Subset
  <2>5. e[x] \in Nat /\ u \in Nat
    BY <2>1, <2>4, SumNat
  <2>6. SumFunctionOnSet(e, T) = e[x] + u
    BY <2>1, <2>4, SumRemove
  <2> HIDE DEF x, R, u
  <2>7. Pow(g, e[x] + u) = (Pow(g, e[x]) * Pow(g, u)) % p
    BY <2>5, GInt, PowAdd
  <2> QED
    BY <2>2, <2>3, <2>6, <2>7
<1> HIDE DEF A
<1>11. \A T \in SUBSET S : T \in A
  BY <1>2, <1>9, <1>10, SubsetInduction
<1> QED
  BY <1>1, <1>11 DEF A

\* A pair of powers of the generator.
Powers(a, b) == [c1 |-> Pow(g, a), c2 |-> Pow(g, b)]

\* elgamal_hadd adds the exponents.
LEMMA PowersHadd ==
    ASSUME NEW a1 \in Nat, NEW b1 \in Nat, NEW a2 \in Nat, NEW b2 \in Nat
    PROVE  elgamal_hadd(Powers(a1, b1), Powers(a2, b2)) = Powers(a1 + a2, b1 + b2)
<1>1. Pow(g, a1 + a2) = (Pow(g, a1) * Pow(g, a2)) % p
  BY GInt, PowAdd
<1>2. Pow(g, b1 + b2) = (Pow(g, b1) * Pow(g, b2)) % p
  BY GInt, PowAdd
<1> QED
  BY <1>1, <1>2 DEF elgamal_hadd, Powers

\* The loop of the other build gives the same pair of powers.
LEMMA HaddsPower ==
    ASSUME NEW S \in SUBSET Idx, NEW e1, NEW e2,
           \A i \in S : /\ e1[i] \in Nat /\ e2[i] \in Nat
                        /\ elgamal_smul([c1 |-> file[i], c2 |-> file[Size + i]], d[i])
                             = Powers(e1[i], e2[i])
    PROVE  Hadds(S) = Powers(SumFunctionOnSet(e1, S), SumFunctionOnSet(e2, S))
<1> DEFINE f == [i \in Idx |-> elgamal_smul([c1 |-> file[i], c2 |-> file[Size + i]], d[i])]
           V == {Powers(a, b) : a \in Nat, b \in Nat}
           IsIt(it) == it = [T \in SUBSET S |->
                               IF T = {} THEN One ELSE elgamal_hadd(f[Chosen(T)], it[T \ {Chosen(T)}])]
           it0 == CHOOSE it : IsIt(it)
           h == [a \in (SUBSET S) \X V |->
                   IF a[1] = {} THEN One ELSE elgamal_hadd(f[Chosen(a[1])], a[2])]
<1>1. Hadds(S) = it0[S]
  BY DEF Hadds, FoldFunctionOnSet, MapThenFoldSet, Chosen
<1>2. IsFiniteSet(S)
  BY FiniteIdx, FS_Subset
<1>3. \A i \in S : f[i] = Powers(e1[i], e2[i]) /\ e1[i] \in Nat /\ e2[i] \in Nat
  OBVIOUS
<1> HIDE DEF f
<1>4. \A T \in SUBSET S : T # {} => Chosen(T) \in T
  BY DEF Chosen
<1>0. One = Powers(0, 0) /\ One \in V
  <2>1. One = Powers(0, 0)
    BY GInt, PowZero DEF One, Powers
  <2>2. Powers(0, 0) \in V
    OBVIOUS
  <2> QED
    BY <2>1, <2>2
<1>5. h \in [(SUBSET S) \X V -> V]
  <2>2. ASSUME NEW T \in SUBSET S, NEW v \in V, T # {}
        PROVE  elgamal_hadd(f[Chosen(T)], v) \in V
    <3>1. Chosen(T) \in S
      BY <1>4, <2>2
    <3>2. PICK a \in Nat, b \in Nat : v = Powers(a, b)
      OBVIOUS
    <3> DEFINE x1 == e1[Chosen(T)]
               x2 == e2[Chosen(T)]
    <3>3. x1 \in Nat /\ x2 \in Nat /\ f[Chosen(T)] = Powers(x1, x2)
      BY <1>3, <3>1
    <3> HIDE DEF x1, x2
    <3>4. elgamal_hadd(Powers(x1, x2), Powers(a, b)) = Powers(x1 + a, x2 + b)
      BY <3>3, PowersHadd
    <3>5. x1 + a \in Nat /\ x2 + b \in Nat
      BY <3>3
    <3> QED
      BY <3>2, <3>3, <3>4, <3>5
  <2> HIDE DEF V
  <2>3. ASSUME NEW x \in (SUBSET S) \X V
        PROVE  (IF x[1] = {} THEN One ELSE elgamal_hadd(f[Chosen(x[1])], x[2])) \in V
    BY <1>0, <2>2
  <2> QED
    BY <2>3
<1> HIDE DEF V
<1>6. PICK it \in [SUBSET S -> V] : IsFold(it, S, One, h)
  <2> HIDE DEF h
  <2> QED
    BY <1>0, <1>2, <1>5, FoldExists
<1>7. IsIt(it)
  <2>1. ASSUME NEW T \in SUBSET S, T # {}
        PROVE  h[<<T, it[T \ {Chosen(T)}]>>] = elgamal_hadd(f[Chosen(T)], it[T \ {Chosen(T)}])
    <3>1. it[T \ {Chosen(T)}] \in V
      BY <1>6
    <3>2. <<T, it[T \ {Chosen(T)}]>> \in (SUBSET S) \X V
      BY <3>1
    <3> QED
      BY <3>2, <2>1
  <2> HIDE DEF h
  <2> QED
    BY <1>6, <2>1 DEF IsFold
<1>8. IsIt(it0)
  BY <1>7, Zenon
<1> HIDE DEF it0, h
<1> DEFINE A == {T \in SUBSET S :
                   it0[T] = Powers(SumFunctionOnSet(e1, T), SumFunctionOnSet(e2, T))}
<1>9. {} \in A
  BY <1>0, <1>8, SumEmpty
<1>10. ASSUME NEW T \in SUBSET S, T # {}, \A x \in T : T \ {x} \in A
       PROVE  T \in A
  <2> DEFINE x == Chosen(T)
             R == T \ {x}
             u1 == SumFunctionOnSet(e1, R)
             u2 == SumFunctionOnSet(e2, R)
  <2>1. x \in T
    BY <1>4, <1>10
  <2>2. it0[T] = elgamal_hadd(f[x], it0[R])
    BY <1>8, <1>10
  <2>3. it0[R] = Powers(u1, u2) /\ f[x] = Powers(e1[x], e2[x])
    BY <1>3, <1>10, <2>1
  <2>4. /\ IsFiniteSet(T) /\ IsFiniteSet(R)
        /\ \A y \in T : e1[y] \in Nat /\ e1[y] \in Int /\ e2[y] \in Nat /\ e2[y] \in Int
    <3>1. IsFiniteSet(T) /\ IsFiniteSet(R)
      BY <1>2, FS_Subset
    <3>2. \A y \in T : e1[y] \in Nat /\ e2[y] \in Nat
      BY <1>3
    <3> QED
      BY <3>1, <3>2
  <2>5. e1[x] \in Nat /\ u1 \in Nat /\ e2[x] \in Nat /\ u2 \in Nat
    BY <2>1, <2>4, SumNat
  <2>6. SumFunctionOnSet(e1, T) = e1[x] + u1 /\ SumFunctionOnSet(e2, T) = e2[x] + u2
    BY <2>1, <2>4, SumRemove
  <2> HIDE DEF x, R, u1, u2
  <2>7. elgamal_hadd(Powers(e1[x], e2[x]), Powers(u1, u2)) = Powers(e1[x] + u1, e2[x] + u2)
    <3>1. Pow(g, e1[x] + u1) = (Pow(g, e1[x]) * Pow(g, u1)) % p
      BY <2>5, GInt, PowAdd
    <3>2. Pow(g, e2[x] + u2) = (Pow(g, e2[x]) * Pow(g, u2)) % p
      BY <2>5, GInt, PowAdd
    <3> QED
      BY <3>1, <3>2 DEF elgamal_hadd, Powers
  <2> QED
    BY <2>2, <2>3, <2>6, <2>7
<1> HIDE DEF A
<1>11. \A T \in SUBSET S : T \in A
  BY <1>2, <1>9, <1>10, SubsetInduction
<1> QED
  BY <1>1, <1>11 DEF A

-----------------------------------------------------------------------------
(* Ciphertexts. *)

\* Encryption gives powers of the generator: g^k and g^(r*k + m).
LEMMA EncPowers ==
    ASSUME NEW m \in Nat, NEW k \in Nat
    PROVE  elgamal_enc(m, k) = Powers(k, r * k + m)
<1>1. r * k \in Nat /\ r \in Nat
  BY Constants
<1>2. Pow(gr, k) = Pow(g, r * k)
  BY <1>1, GInt, PowTimes DEF gr
<1>3. Pow(g, r * k + m) = (Pow(g, r * k) * Pow(g, m)) % p
  BY <1>1, GInt, PowAdd
<1> QED
  BY <1>2, <1>3 DEF elgamal_enc, Powers

\* elgamal_smul multiplies the exponents, also where it answers One without
\* exponentiation.
LEMMA SmulPowers ==
    ASSUME NEW a \in Nat, NEW b \in Nat, NEW c \in Nat
    PROVE  elgamal_smul(Powers(a, b), c) = Powers(a * c, b * c)
<1>1. CASE c = 0
  <2>1. a * c = 0 /\ b * c = 0
    BY <1>1
  <2>2. One = Powers(0, 0)
    BY GInt, PowZero DEF One, Powers
  <2> QED
    BY <1>1, <2>1, <2>2 DEF elgamal_smul
<1>2. CASE c # 0
  <2>1. Pow(Pow(g, a), c) = Pow(g, a * c) /\ Pow(Pow(g, b), c) = Pow(g, b * c)
    BY GInt, PowTimes
  <2> QED
    BY <1>2, <2>1 DEF elgamal_smul, Powers
<1> QED
  BY <1>1, <1>2

\* Decryption: c2 over c1^r is what is left of the exponent.
LEMMA DecPowers ==
    ASSUME NEW a \in Nat, NEW m \in Nat
    PROVE  elgamal_dec(Powers(a, r * a + m)) = Pow(g, m % q)
<1> DEFINE n == r * a
           s == Pow(g, n)
           inv == CHOOSE v \in 0 .. p - 1 : (v * s) % p = 1
<1>1. n \in Nat /\ q \in Nat \ {0} /\ r \in Nat /\ p \in Nat \ {0}
  BY Constants
<1>2. Pow(Pow(g, a), r) = s
  <2>1. Pow(Pow(g, a), r) = Pow(g, a * r)
    BY <1>1, GInt, PowTimes
  <2>2. a * r = n
    BY <1>1
  <2> QED
    BY <2>1, <2>2
<1>3. s \in Res /\ Pow(g, m) \in Res /\ s \in Int /\ Pow(g, m) \in Int
  BY <1>1, GInt, PowType DEF Res
<1>4. \E v \in 0 .. p - 1 : (v * s) % p = 1
  <2> DEFINE x == (q - 1) * n
  <2>1. x \in Nat /\ x + n = q * n
    BY <1>1
  <2> HIDE DEF x
  <2>2. Pow(g, x + n) = (Pow(g, x) * s) % p
    <3> HIDE DEF n
    <3> QED
      BY <1>1, <2>1, GInt, PowAdd
  <2>3. Pow(g, q * n) = 1
    <3> HIDE DEF n
    <3> QED
      BY <1>1, PowOrder
  <2>4. Pow(g, x) \in 0 .. p - 1
    BY <2>1, GInt, PowType DEF Res
  <2> QED
    BY <2>1, <2>2, <2>3, <2>4
<1>5. inv \in 0 .. p - 1 /\ (inv * s) % p = 1
  <2> HIDE DEF s
  <2> QED
    BY <1>4
<1>6. Pow(g, n + m) = (s * Pow(g, m)) % p
  <2> HIDE DEF n
  <2> QED
    BY <1>1, GInt, PowAdd
<1>7. elgamal_dec(Powers(a, n + m)) = (inv * Pow(g, n + m)) % p
  <2> HIDE DEF n
  <2>1. Powers(a, n + m).c1 = Pow(g, a) /\ Powers(a, n + m).c2 = Pow(g, n + m)
    BY DEF Powers
  <2> QED
    BY <1>2, <2>1 DEF elgamal_dec
<1> HIDE DEF inv, s
<1>8. (inv * ((s * Pow(g, m)) % p)) % p = (((inv * s) % p) * Pow(g, m)) % p
  <2>1. inv \in Int
    BY <1>5
  <2> QED
    BY <1>1, <1>3, <2>1, ModAssoc
<1>9. 1 * Pow(g, m) = Pow(g, m) /\ Pow(g, m) % p = Pow(g, m)
  BY <1>1, <1>3, ModSmall DEF Res
<1>10. Pow(g, m) = Pow(g, m % q)
  BY PowOrder
<1> QED
  BY <1>5, <1>6, <1>7, <1>8, <1>9, <1>10

-----------------------------------------------------------------------------
(* The inductive invariant.  k is the randomness that was drawn. *)

\* The exponents that element i adds to the two halves of the product.
Exp1(k) == [i \in Idx |-> k[i] * d[i]]
Exp2(k) == [i \in Idx |-> (r * k[i] + plain[i]) * d[i]]

\* The product over the elements S.
Part(k, S) == Powers(SumFunctionOnSet(Exp1(k), S), SumFunctionOnSet(Exp2(k), S))

\* The threads that have merged their part, and the elements they multiplied.
Joined == {t \in Threads : tpc[t] = "joined"}
Merged == UNION {share[t] : t \in Joined}

\* The types.
TypeOK ==
    /\ pc \in {"encrypt", "dump", "dot_product", "done"}
    /\ plain \in [Idx -> Nat] /\ d \in [Idx -> Nat]
    /\ tpc \in [Threads -> {"block", "merge", "critical", "joined"}]
    /\ priv = [t \in Threads |-> priv[t]] /\ seen = [t \in Threads |-> seen[t]]
    /\ share \in [Threads -> SUBSET Idx]
    /\ simul \in BOOLEAN

\* Every element belongs to one thread.
SharesPartition ==
    /\ \A t, u \in Threads : t # u => share[t] \cap share[u] = {}
    /\ \A i \in Idx : \E t \in Threads : i \in share[t]

\* The critical section holds at most one thread, and what it read is current.
Exclusion ==
    /\ \A t \in Threads : tpc[t] = "critical" <=> lock = t
    /\ \A t \in Threads : tpc[t] = "critical" => seen[t] = output

\* What the two vectors and the threads have computed so far.
Progress(k) ==
    /\ pc \in {"encrypt", "dump"} => \A t \in Threads : tpc[t] = "block"
    /\ pc # "encrypt" => \A i \in Idx : cipher[i] = Powers(k[i], r * k[i] + plain[i])
    /\ pc \in {"dot_product", "done"} =>
         \A i \in Idx : file[i] = Pow(g, k[i]) /\ file[Size + i] = Pow(g, r * k[i] + plain[i])
    /\ \A t \in Threads : tpc[t] # "block" => priv[t] = Part(k, share[t])
    /\ output = Part(k, Merged)
    /\ pc = "done" => opened = elgamal_dec(output) /\ \A t \in Threads : tpc[t] = "joined"

\* The inductive invariant: some randomness k explains every ciphertext and
\* every partial product, and the joined threads' parts are in the output once.
ElGamalInv == TypeOK /\ SharesPartition /\ Exclusion /\ \E k \in [Idx -> Nat] : Progress(k)

\* The exponents are natural numbers.
LEMMA ExpNat ==
    ASSUME TypeOK, NEW k \in [Idx -> Nat], NEW i \in Idx
    PROVE  /\ r * k[i] + plain[i] \in Nat
           /\ Exp1(k)[i] = k[i] * d[i] /\ Exp1(k)[i] \in Nat
           /\ Exp2(k)[i] = (r * k[i] + plain[i]) * d[i] /\ Exp2(k)[i] \in Nat
<1>1. k[i] \in Nat /\ plain[i] \in Nat /\ d[i] \in Nat /\ r \in Nat
  BY Constants DEF TypeOK
<1>2. r * k[i] + plain[i] \in Nat
  BY <1>1
<1>3. k[i] * d[i] \in Nat /\ (r * k[i] + plain[i]) * d[i] \in Nat
  BY <1>1, <1>2
<1> QED
  BY <1>2, <1>3 DEF Exp1, Exp2

\* No element: the output before the first merge.
LEMMA PartEmpty ==
    ASSUME NEW k
    PROVE  Part(k, {}) = One
  BY SumEmpty, GInt, PowZero DEF Part, Powers, One

\* Merging the parts of disjoint sets gives the part of their union.
LEMMA PartUnion ==
    ASSUME TypeOK, NEW k \in [Idx -> Nat], NEW S \in SUBSET Idx, NEW R \in SUBSET Idx, S \cap R = {}
    PROVE  elgamal_hadd(Part(k, S), Part(k, R)) = Part(k, S \cup R)
<1> DEFINE a1 == SumFunctionOnSet(Exp1(k), S)
           b1 == SumFunctionOnSet(Exp2(k), S)
           a2 == SumFunctionOnSet(Exp1(k), R)
           b2 == SumFunctionOnSet(Exp2(k), R)
<1>1. IsFiniteSet(S) /\ IsFiniteSet(R)
  BY FiniteIdx, FS_Subset
<1>2. \A i \in Idx : Exp1(k)[i] \in Nat /\ Exp2(k)[i] \in Nat /\ Exp1(k)[i] \in Int /\ Exp2(k)[i] \in Int
  BY ExpNat
<1>3. a1 \in Nat /\ b1 \in Nat /\ a2 \in Nat /\ b2 \in Nat
  BY <1>1, <1>2, SumNat
<1>4. SumFunctionOnSet(Exp1(k), S \cup R) = a1 + a2
  BY <1>1, <1>2, SumUnion
<1>5. SumFunctionOnSet(Exp2(k), S \cup R) = b1 + b2
  BY <1>1, <1>2, SumUnion
<1> HIDE DEF a1, b1, a2, b2
<1>6. Pow(g, a1 + a2) = (Pow(g, a1) * Pow(g, a2)) % p
  BY <1>3, GInt, PowAdd
<1>7. Pow(g, b1 + b2) = (Pow(g, b1) * Pow(g, b2)) % p
  BY <1>3, GInt, PowAdd
<1>8. elgamal_hadd(Powers(a1, b1), Powers(a2, b2)) = Powers(a1 + a2, b1 + b2)
  BY <1>6, <1>7 DEF elgamal_hadd, Powers
<1> QED
  BY <1>4, <1>5, <1>8 DEF Part, a1, b1, a2, b2

-----------------------------------------------------------------------------
(* Init. *)

\* The blocks of the team tile the vector.
LEMMA BlocksPartition ==
    /\ \A t \in Threads : Block(t) \subseteq Idx
    /\ \A t, u \in Threads : t # u => Block(t) \cap Block(u) = {}
    /\ \A i \in Idx : \E t \in Threads : i \in Block(t)
<1> DEFINE k == Size \div NumThreads
           m == NumThreads
           End(t) == IF t = m - 1 THEN Size ELSE (t + 1) * k
<1>1. k \in Nat /\ m \in Nat \ {0} /\ Size \in Nat /\ m * k <= Size
  BY Constants, DivMod
<1>2. Threads = 0 .. m - 1 /\ Idx = 0 .. Size - 1 /\ \A t : Block(t) = t * k .. End(t) - 1
  BY DEF Threads, Idx, Block
<1> HIDE DEF k, m
<1>3. ASSUME NEW t \in 0 .. m - 1
      PROVE  t * k \in Nat /\ End(t) \in Nat /\ (t + 1) * k <= End(t) /\ End(t) <= Size
  <2>1. (t + 1) * k <= m * k /\ t * k \in Nat /\ (t + 1) * k \in Nat
    BY <1>1, MulMono
  <2> QED
    BY <1>1, <2>1
<1>4. ASSUME NEW t \in 0 .. m - 1, NEW u \in 0 .. m - 1, t < u
      PROVE  End(t) <= u * k
  <2>1. t # m - 1 /\ End(t) = (t + 1) * k
    BY <1>1, <1>4
  <2>2. (t + 1) * k <= u * k
    BY <1>1, <1>4, MulMono
  <2> QED
    BY <2>1, <2>2
<1>5. ASSUME NEW i \in 0 .. Size - 1
      PROVE  \E t \in 0 .. m - 1 : i \in t * k .. End(t) - 1
  <2>0. m - 1 \in 0 .. m - 1 /\ (m - 1) * k \in Nat /\ i \in Nat
    BY <1>1
  <2>1. CASE i >= (m - 1) * k
    <3>1. i \in (m - 1) * k .. End(m - 1) - 1
      BY <1>1, <2>0, <2>1
    <3> QED
      BY <2>0, <3>1
  <2>2. CASE i < (m - 1) * k
    <3>1. k # 0
      BY <1>1, <2>0, <2>2
    <3> DEFINE t == i \div k
    <3>2. t \in Nat /\ t * k <= i /\ i <= t * k + k - 1
      BY <1>1, <2>0, <3>1, BlockOf
    <3>3. t < m - 1
      <4>1. m - 1 \in Nat
        BY <1>1
      <4> QED
        BY <1>1, <2>0, <2>2, <3>1, <4>1, BlockBelow
    <3> HIDE DEF t
    <3>4. t \in 0 .. m - 1 /\ End(t) = (t + 1) * k /\ (t + 1) * k = t * k + k /\ t * k \in Nat
      BY <1>1, <3>2, <3>3
    <3>5. i \in t * k .. End(t) - 1
      BY <1>1, <3>2, <3>4
    <3> QED
      BY <3>4, <3>5
  <2> QED
    BY <2>0, <2>1, <2>2
<1> HIDE DEF End
<1>6. \A t \in Threads : Block(t) \subseteq Idx
  <2> SUFFICES ASSUME NEW t \in Threads PROVE Block(t) \subseteq Idx
    OBVIOUS
  <2>1. t * k \in Nat /\ End(t) \in Nat /\ End(t) <= Size
    BY <1>2, <1>3
  <2>2. t * k .. End(t) - 1 \subseteq 0 .. Size - 1
    BY <1>1, <2>1
  <2> QED
    BY <1>2, <2>2
<1>7. \A t, u \in Threads : t # u => Block(t) \cap Block(u) = {}
  <2> SUFFICES ASSUME NEW t \in Threads, NEW u \in Threads, t # u PROVE Block(t) \cap Block(u) = {}
    OBVIOUS
  <2>1. t \in 0 .. m - 1 /\ u \in 0 .. m - 1 /\ t \in Int /\ u \in Int
    BY <1>1, <1>2
  <2>2. t * k \in Nat /\ u * k \in Nat /\ End(t) \in Nat /\ End(u) \in Nat
    BY <1>3, <2>1
  <2>3. End(t) <= u * k \/ End(u) <= t * k
    BY <1>4, <2>1
  <2> QED
    BY <1>2, <2>2, <2>3
<1>8. \A i \in Idx : \E t \in Threads : i \in Block(t)
  BY <1>2, <1>5
<1> QED
  BY <1>6, <1>7, <1>8

\* Either build starts with a partition of the elements and nothing merged.
LEMMA InitInv == Init => ElGamalInv
<1> SUFFICES ASSUME Init PROVE ElGamalInv
  OBVIOUS
<1>1. share \in [Threads -> SUBSET Idx] /\ SharesPartition
  <2>1. CASE simul
    <3>1. share = [t \in Threads |-> Block(t)]
      BY <2>1 DEF Init
    <3> QED
      BY <3>1, BlocksPartition DEF SharesPartition
  <2>2. CASE ~simul
    <3>1. PICK of \in [Idx -> Threads] : share = [t \in Threads |-> {i \in Idx : of[i] = t}]
      BY <2>2 DEF Init, OmpFor
    <3> QED
      BY <3>1 DEF SharesPartition
  <2> QED
    BY <2>1, <2>2
<1>2. TypeOK
  <2>1. plain \in [Idx -> Nat] /\ d \in [Idx -> Nat]
    BY ElGamalAssumption DEF Init
  <2>2. priv = [t \in Threads |-> priv[t]] /\ seen = [t \in Threads |-> seen[t]]
    BY DEF Init
  <2> QED
    BY <1>1, <2>1, <2>2 DEF Init, TypeOK
<1>3. Exclusion
  BY Constants DEF Init, Exclusion, NoThread, Threads
<1>4. Progress([i \in Idx |-> 0])
  <2>1. Merged = {}
    BY DEF Init, Merged, Joined
  <2>2. output = Part([i \in Idx |-> 0], Merged)
    BY <2>1, PartEmpty DEF Init
  <2> QED
    BY <2>2 DEF Init, Progress
<1>5. [i \in Idx |-> 0] \in [Idx -> Nat]
  OBVIOUS
<1> QED
  BY <1>1, <1>2, <1>3, <1>4, <1>5 DEF ElGamalInv

-----------------------------------------------------------------------------
(* One lemma per action. *)

\* elgamal_enc_vec: the randomness drawn is the witness k from here on.
LEMMA StepEncrypt == ElGamalInv /\ elgamal_enc_vec => ElGamalInv'
<1> SUFFICES ASSUME ElGamalInv, elgamal_enc_vec PROVE ElGamalInv'
  OBVIOUS
<1>0. /\ pc = "encrypt" /\ pc' = "dump"
      /\ UNCHANGED <<plain, d, file, output, tpc, priv, seen, lock, share, simul, opened>>
  BY DEF elgamal_enc_vec, threadVars, team
<1>1. PICK k \in [Idx -> Rands] : cipher' = [i \in Idx |-> elgamal_enc(plain[i], k[i])]
  BY DEF elgamal_enc_vec
<1>2. k \in [Idx -> Nat]
  BY ElGamalAssumption
<1>3. PICK k0 \in [Idx -> Nat] : Progress(k0)
  BY DEF ElGamalInv
<1>4. TypeOK' /\ SharesPartition' /\ Exclusion'
  BY <1>0 DEF ElGamalInv, TypeOK, SharesPartition, Exclusion
<1>5. \A i \in Idx : cipher'[i] = Powers(k[i], r * k[i] + plain[i])
  <2> SUFFICES ASSUME NEW i \in Idx PROVE cipher'[i] = Powers(k[i], r * k[i] + plain[i])
    OBVIOUS
  <2>1. k[i] \in Nat /\ plain[i] \in Nat
    BY <1>2 DEF ElGamalInv, TypeOK
  <2> QED
    BY <1>1, <2>1, EncPowers
<1>6. \A t \in Threads : tpc[t] = "block"
  BY <1>0, <1>3 DEF Progress
<1>7. Merged = {} /\ Merged' = {}
  BY <1>0, <1>6 DEF Merged, Joined
<1>8. output' = Part(k, Merged)'
  <2>1. Part(k0, Merged) = One /\ output = Part(k0, Merged)
    BY <1>3, <1>7, PartEmpty DEF Progress
  <2>2. Part(k, {}) = One
    BY PartEmpty
  <2>3. Part(k, {})' = Part(k, {})
    BY <1>0 DEF Part, Exp1, Exp2
  <2>4. Part(k, Merged)' = Part(k, {})'
    BY <1>7 DEF Part, Exp1, Exp2
  <2> QED
    BY <1>0, <2>1, <2>2, <2>3, <2>4
<1>9. Progress(k)'
  BY <1>0, <1>5, <1>6, <1>8 DEF Progress
<1> QED
  BY <1>2, <1>4, <1>9 DEF ElGamalInv

\* What no action after the encryption changes.
LEMMA PartSame ==
    ASSUME UNCHANGED <<plain, d>>, NEW k, NEW S
    PROVE  Part(k, S)' = Part(k, S)
  BY DEF Part, Exp1, Exp2

\* dump_vector_interleaved: each half of the file holds one component.
LEMMA StepDump == ElGamalInv /\ dump_vector_interleaved => ElGamalInv'
<1> SUFFICES ASSUME ElGamalInv, dump_vector_interleaved PROVE ElGamalInv'
  OBVIOUS
<1>0. /\ pc = "dump" /\ pc' = "dot_product" /\ file' = Interleaved(cipher)
      /\ UNCHANGED <<plain, d, cipher, output, tpc, priv, seen, lock, share, simul, opened>>
  BY DEF dump_vector_interleaved, threadVars, team
<1>1. PICK k \in [Idx -> Nat] : Progress(k)
  BY DEF ElGamalInv
<1>2. TypeOK' /\ SharesPartition' /\ Exclusion'
  BY <1>0 DEF ElGamalInv, TypeOK, SharesPartition, Exclusion
<1>3. \A i \in Idx : file'[i] = Pow(g, k[i]) /\ file'[Size + i] = Pow(g, r * k[i] + plain[i])
  <2> SUFFICES ASSUME NEW i \in Idx
               PROVE  file'[i] = Pow(g, k[i]) /\ file'[Size + i] = Pow(g, r * k[i] + plain[i])
    OBVIOUS
  <2>1. cipher[i] = Powers(k[i], r * k[i] + plain[i])
    BY <1>0, <1>1 DEF Progress
  <2>2. /\ i \in 0 .. 2 * Size - 1 /\ Size + i \in 0 .. 2 * Size - 1
        /\ i < Size /\ ~(Size + i < Size) /\ (Size + i) - Size = i
    BY Constants DEF Idx
  <2>3. file'[i] = cipher[i].c1 /\ file'[Size + i] = cipher[i].c2
    BY <1>0, <2>2 DEF Interleaved
  <2> QED
    BY <2>1, <2>3 DEF Powers
<1>4. Merged' = Merged
  BY <1>0 DEF Merged, Joined
<1>5. \A t \in Threads : Part(k, share[t])' = Part(k, share[t])
  BY <1>0, PartSame
<1>6. Part(k, Merged)' = Part(k, Merged)
  BY <1>0, <1>4, PartSame DEF Part, Exp1, Exp2
<1>7. Progress(k)'
  BY <1>0, <1>1, <1>3, <1>5, <1>6 DEF Progress
<1> QED
  BY <1>1, <1>2, <1>7 DEF ElGamalInv

\* Either way a thread computes the product over its share.
LEMMA SharesMultiplied ==
    ASSUME TypeOK, NEW k \in [Idx -> Nat], Progress(k), pc = "dot_product", NEW S \in SUBSET Idx
    PROVE  /\ [c1 |-> Spowm(0, S), c2 |-> Spowm(Size, S)] = Part(k, S)
           /\ Hadds(S) = Part(k, S)
<1> DEFINE e1 == Exp1(k)
           e2 == Exp2(k)
           n(i) == r * k[i] + plain[i]
<1>1. ASSUME NEW i \in S
      PROVE  /\ e1[i] \in Nat /\ e2[i] \in Nat
             /\ Pow(file[0 + i], d[i]) = Pow(g, e1[i])
             /\ Pow(file[Size + i], d[i]) = Pow(g, e2[i])
             /\ elgamal_smul([c1 |-> file[i], c2 |-> file[Size + i]], d[i]) = Powers(e1[i], e2[i])
  <2>1. /\ n(i) \in Nat /\ e1[i] = k[i] * d[i] /\ e1[i] \in Nat
        /\ e2[i] = n(i) * d[i] /\ e2[i] \in Nat
    BY ExpNat
  <2>2. file[i] = Pow(g, k[i]) /\ file[Size + i] = Pow(g, n(i))
    BY DEF Progress
  <2>3. k[i] \in Nat /\ d[i] \in Nat /\ 0 + i = i
    BY DEF TypeOK, Idx
  <2> HIDE DEF n, e1, e2
  <2>4. Pow(Pow(g, k[i]), d[i]) = Pow(g, k[i] * d[i])
    BY <2>3, GInt, PowTimes
  <2>5. Pow(Pow(g, n(i)), d[i]) = Pow(g, n(i) * d[i])
    BY <2>1, <2>3, GInt, PowTimes
  <2>6. elgamal_smul(Powers(k[i], n(i)), d[i]) = Powers(k[i] * d[i], n(i) * d[i])
    BY <2>1, <2>3, SmulPowers
  <2>7. [c1 |-> file[i], c2 |-> file[Size + i]] = Powers(k[i], n(i))
    BY <2>2 DEF Powers
  <2> QED
    BY <2>1, <2>2, <2>3, <2>4, <2>5, <2>6, <2>7
<1>2. Size \in Int /\ 0 \in Int
  BY Constants
<1> HIDE DEF e1, e2
<1>3. Spowm(0, S) = Pow(g, SumFunctionOnSet(e1, S))
  BY <1>1, <1>2, SpowmPower
<1>4. Spowm(Size, S) = Pow(g, SumFunctionOnSet(e2, S))
  BY <1>1, <1>2, SpowmPower
<1>5. Hadds(S) = Powers(SumFunctionOnSet(e1, S), SumFunctionOnSet(e2, S))
  BY <1>1, HaddsPower
<1> QED
  BY <1>3, <1>4, <1>5 DEF Part, Powers, e1, e2

\* A thread computes the product of its own elements.
LEMMA StepThread ==
    ASSUME ElGamalInv, NEW t \in Threads, ThreadBlock(t) \/ ThreadLoop(t)
    PROVE  ElGamalInv'
<1>1. PICK k \in [Idx -> Nat] : Progress(k)
  BY DEF ElGamalInv
<1>2. TypeOK /\ share[t] \in SUBSET Idx /\ pc = "dot_product"
  BY DEF ElGamalInv, TypeOK, ThreadBlock, ThreadLoop
<1>3. /\ [c1 |-> Spowm(0, share[t]), c2 |-> Spowm(Size, share[t])] = Part(k, share[t])
      /\ Hadds(share[t]) = Part(k, share[t])
  BY <1>1, <1>2, SharesMultiplied
<1>4. /\ tpc[t] = "block"
      /\ priv' = [priv EXCEPT ![t] = Part(k, share[t])]
      /\ tpc' = [tpc EXCEPT ![t] = "merge"]
      /\ UNCHANGED <<pc, plain, d, cipher, file, output, seen, lock, share, simul, opened>>
  BY <1>3 DEF ThreadBlock, ThreadLoop, team
<1>5. TypeOK'
  <2>1. priv' = [u \in Threads |-> priv'[u]] /\ tpc' \in [Threads -> {"block", "merge", "critical", "joined"}]
    BY <1>2, <1>4 DEF TypeOK
  <2> QED
    BY <1>2, <1>4, <2>1 DEF TypeOK
<1>6. SharesPartition'
  BY <1>4 DEF ElGamalInv, SharesPartition
<1>7. \A u \in Threads : /\ u # t => tpc'[u] = tpc[u] /\ priv'[u] = priv[u]
                         /\ tpc'[t] = "merge" /\ priv'[t] = Part(k, share[t])
  BY <1>2, <1>4 DEF TypeOK
<1>8. Exclusion'
  BY <1>4, <1>7 DEF ElGamalInv, Exclusion
<1>9. Merged' = Merged
  BY <1>4, <1>7 DEF Merged, Joined
<1>10. Part(k, Merged)' = Part(k, Merged) /\ \A u \in Threads : Part(k, share[u])' = Part(k, share[u])
  BY <1>4, <1>9 DEF Part, Exp1, Exp2
<1>11. Progress(k)'
  <2>1. output' = Part(k, Merged)'
    BY <1>1, <1>4, <1>10 DEF Progress
  <2>2. ASSUME NEW u \in Threads, tpc'[u] # "block" PROVE priv'[u] = Part(k, share[u])'
    BY <1>1, <1>7, <1>10, <2>2 DEF Progress
  <2> QED
    BY <1>1, <1>2, <1>4, <2>1, <2>2 DEF Progress
<1> QED
  BY <1>1, <1>5, <1>6, <1>8, <1>11 DEF ElGamalInv

\* Entering the critical section: what is read stays current.
LEMMA StepEnter ==
    ASSUME ElGamalInv, NEW t \in Threads, EnterCritical(t)
    PROVE  ElGamalInv'
<1>1. PICK k \in [Idx -> Nat] : Progress(k)
  BY DEF ElGamalInv
<1>2. /\ tpc[t] = "merge" /\ lock = NoThread
      /\ seen' = [seen EXCEPT ![t] = output] /\ lock' = t
      /\ tpc' = [tpc EXCEPT ![t] = "critical"]
      /\ UNCHANGED <<pc, plain, d, cipher, file, output, priv, share, simul, opened>>
  BY DEF EnterCritical, team
<1>3. TypeOK
  BY DEF ElGamalInv
<1>5. TypeOK'
  <2>1. seen' = [u \in Threads |-> seen'[u]] /\ tpc' \in [Threads -> {"block", "merge", "critical", "joined"}]
    BY <1>2, <1>3 DEF TypeOK
  <2> QED
    BY <1>2, <1>3, <2>1 DEF TypeOK
<1>6. SharesPartition'
  BY <1>2 DEF ElGamalInv, SharesPartition
<1>7. \A u \in Threads : /\ u # t => tpc'[u] = tpc[u] /\ seen'[u] = seen[u]
                         /\ tpc'[t] = "critical" /\ seen'[t] = output
  BY <1>2, <1>3 DEF TypeOK
<1>8. \A u \in Threads : u # NoThread /\ tpc[u] # "critical"
  <2>1. \A u \in Threads : u # NoThread
    BY Constants DEF Threads, NoThread
  <2> QED
    BY <1>2, <2>1 DEF ElGamalInv, Exclusion
<1>9. Exclusion'
  BY <1>2, <1>7, <1>8 DEF Exclusion
<1>10. Merged' = Merged
  BY <1>2, <1>7 DEF Merged, Joined
<1>11. Part(k, Merged)' = Part(k, Merged) /\ \A u \in Threads : Part(k, share[u])' = Part(k, share[u])
  BY <1>2, <1>10 DEF Part, Exp1, Exp2
<1>12. Progress(k)'
  <2>1. output' = Part(k, Merged)'
    BY <1>1, <1>2, <1>11 DEF Progress
  <2>2. ASSUME NEW u \in Threads, tpc'[u] # "block" PROVE priv'[u] = Part(k, share[u])'
    BY <1>1, <1>2, <1>7, <1>11, <2>2 DEF Progress
  <2>3. pc \notin {"encrypt", "dump", "done"}
    BY <1>1, <1>2, <1>3 DEF Progress
  <2> QED
    BY <1>1, <1>2, <2>1, <2>2, <2>3 DEF Progress
<1> QED
  BY <1>1, <1>5, <1>6, <1>9, <1>12 DEF ElGamalInv

\* Leaving it: the output gains the elements of one thread, none of them twice.
LEMMA StepLeave ==
    ASSUME ElGamalInv, NEW t \in Threads, LeaveCritical(t)
    PROVE  ElGamalInv'
<1>1. PICK k \in [Idx -> Nat] : Progress(k)
  BY DEF ElGamalInv
<1>2. /\ tpc[t] = "critical"
      /\ output' = elgamal_hadd(seen[t], priv[t]) /\ lock' = NoThread
      /\ tpc' = [tpc EXCEPT ![t] = "joined"]
      /\ UNCHANGED <<pc, plain, d, cipher, file, priv, seen, share, simul, opened>>
  BY DEF LeaveCritical, team
<1>3. TypeOK /\ SharesPartition /\ Exclusion
  BY DEF ElGamalInv
<1>5. TypeOK'
  <2>1. tpc' \in [Threads -> {"block", "merge", "critical", "joined"}]
    BY <1>2, <1>3 DEF TypeOK
  <2> QED
    BY <1>2, <1>3, <2>1 DEF TypeOK
<1>6. SharesPartition'
  BY <1>2, <1>3 DEF SharesPartition
<1>7. \A u \in Threads : (u # t => tpc'[u] = tpc[u]) /\ tpc'[t] = "joined"
  BY <1>2, <1>3 DEF TypeOK
<1>8. \A u \in Threads : u # NoThread /\ (u # t => tpc[u] # "critical")
  <2>1. \A u \in Threads : u # NoThread
    BY Constants DEF Threads, NoThread
  <2>2. lock = t
    BY <1>2, <1>3 DEF Exclusion
  <2> QED
    BY <1>3, <2>1, <2>2 DEF Exclusion
<1>9. Exclusion'
  BY <1>2, <1>7, <1>8 DEF Exclusion
<1>10. Merged' = Merged \cup share[t]
  <2>1. Joined' = Joined \cup {t}
    BY <1>7 DEF Joined
  <2> QED
    BY <1>2, <2>1 DEF Merged
<1>11. Merged \in SUBSET Idx /\ share[t] \in SUBSET Idx /\ Merged \cap share[t] = {}
  <2>1. t \notin Joined /\ Joined \subseteq Threads
    BY <1>2 DEF Joined
  <2> QED
    BY <1>3, <2>1 DEF Merged, TypeOK, SharesPartition
<1>12. output' = Part(k, Merged \cup share[t])
  <2>1. seen[t] = Part(k, Merged) /\ priv[t] = Part(k, share[t])
    BY <1>1, <1>2, <1>3 DEF Progress, Exclusion
  <2> QED
    BY <1>2, <1>3, <1>11, <2>1, PartUnion
<1>13. /\ Part(k, Merged)' = Part(k, Merged \cup share[t])
       /\ \A u \in Threads : Part(k, share[u])' = Part(k, share[u])
  BY <1>2, <1>10 DEF Part, Exp1, Exp2
<1>14. Progress(k)'
  <2>1. output' = Part(k, Merged)'
    BY <1>12, <1>13
  <2>2. ASSUME NEW u \in Threads, tpc'[u] # "block" PROVE priv'[u] = Part(k, share[u])'
    BY <1>1, <1>2, <1>7, <1>13, <2>2 DEF Progress
  <2>3. pc \notin {"encrypt", "dump", "done"}
    BY <1>1, <1>2, <1>3 DEF Progress
  <2> QED
    BY <1>1, <1>2, <2>1, <2>2, <2>3 DEF Progress
<1> QED
  BY <1>1, <1>5, <1>6, <1>9, <1>14 DEF ElGamalInv

\* The join: all elements are in the output.
LEMMA StepJoin == ElGamalInv /\ JoinAndDecrypt => ElGamalInv'
<1> SUFFICES ASSUME ElGamalInv, JoinAndDecrypt PROVE ElGamalInv'
  OBVIOUS
<1>0. /\ pc = "dot_product" /\ pc' = "done" /\ opened' = elgamal_dec(output)
      /\ \A t \in Threads : tpc[t] = "joined"
      /\ UNCHANGED <<plain, d, cipher, file, output, tpc, priv, seen, lock, share, simul>>
  BY DEF JoinAndDecrypt, threadVars, team
<1>1. PICK k \in [Idx -> Nat] : Progress(k)
  BY DEF ElGamalInv
<1>2. TypeOK' /\ SharesPartition' /\ Exclusion'
  BY <1>0 DEF ElGamalInv, TypeOK, SharesPartition, Exclusion
<1>4. Merged' = Merged
  BY <1>0 DEF Merged, Joined
<1>5. Part(k, Merged)' = Part(k, Merged) /\ \A u \in Threads : Part(k, share[u])' = Part(k, share[u])
  BY <1>0, <1>4 DEF Part, Exp1, Exp2
<1>6. Progress(k)'
  <2>1. opened' = elgamal_dec(output')
    BY <1>0
  <2>2. \A t \in Threads : priv'[t] = Part(k, share[t])'
    BY <1>0, <1>1, <1>5 DEF Progress
  <2>3. output' = Part(k, Merged)'
    BY <1>0, <1>1, <1>5 DEF Progress
  <2>4. elgamal_dec(output)' = elgamal_dec(output')
    BY DEF elgamal_dec, Pow
  <2> QED
    BY <1>0, <1>1, <2>1, <2>2, <2>3, <2>4 DEF Progress
<1> QED
  BY <1>1, <1>2, <1>6 DEF ElGamalInv

\* A stuttering step.
LEMMA StutterInv == ElGamalInv /\ UNCHANGED vars => ElGamalInv'
<1> SUFFICES ASSUME ElGamalInv, UNCHANGED vars PROVE ElGamalInv'
  OBVIOUS
<1>0. UNCHANGED <<pc, plain, d, cipher, file, output, tpc, priv, seen, lock, share, simul, opened>>
  BY DEF vars
<1>1. PICK k \in [Idx -> Nat] : Progress(k)
  BY DEF ElGamalInv
<1>2. TypeOK' /\ SharesPartition' /\ Exclusion'
  BY <1>0 DEF ElGamalInv, TypeOK, SharesPartition, Exclusion
<1>4. Merged' = Merged
  BY <1>0 DEF Merged, Joined
<1>5. Part(k, Merged)' = Part(k, Merged) /\ \A u \in Threads : Part(k, share[u])' = Part(k, share[u])
  BY <1>0, <1>4 DEF Part, Exp1, Exp2
<1>6. Progress(k)'
  BY <1>0, <1>1, <1>5 DEF Progress
<1> QED
  BY <1>1, <1>2, <1>6 DEF ElGamalInv

-----------------------------------------------------------------------------
(* The theorem. *)

\* What the verifier decrypts when the team has joined.
LEMMA InvDecrypts == ElGamalInv => DecryptsInnerProduct
<1> SUFFICES ASSUME ElGamalInv, pc = "done"
             PROVE  opened = Pow(g, SumFunction([i \in Idx |-> plain[i] * d[i]]) % q)
  BY DEF DecryptsInnerProduct
<1>1. PICK k \in [Idx -> Nat] : Progress(k)
  BY DEF ElGamalInv
<1> DEFINE b == [i \in Idx |-> plain[i] * d[i]]
           K == SumFunctionOnSet(Exp1(k), Idx)
           M == SumFunctionOnSet(b, Idx)
<1>2. Merged = Idx
  <2>1. Joined = Threads
    BY <1>1 DEF Progress, Joined
  <2> QED
    BY <2>1 DEF Merged, ElGamalInv, TypeOK, SharesPartition
<1>3. \A i \in Idx : /\ Exp1(k)[i] \in Nat /\ b[i] \in Nat
                     /\ Exp1(k)[i] \in Int /\ b[i] \in Int
                     /\ Exp2(k)[i] = r * Exp1(k)[i] + b[i]
  <2> SUFFICES ASSUME NEW i \in Idx
               PROVE  /\ Exp1(k)[i] \in Nat /\ b[i] \in Nat
                      /\ Exp2(k)[i] = r * Exp1(k)[i] + b[i]
    OBVIOUS
  <2>1. /\ Exp1(k)[i] = k[i] * d[i] /\ Exp1(k)[i] \in Nat
        /\ Exp2(k)[i] = (r * k[i] + plain[i]) * d[i]
    BY ExpNat DEF ElGamalInv
  <2>2. k[i] \in Nat /\ d[i] \in Nat /\ plain[i] \in Nat /\ r \in Nat
    BY Constants DEF ElGamalInv, TypeOK
  <2>3. plain[i] * d[i] \in Nat /\ (r * k[i] + plain[i]) * d[i] = r * (k[i] * d[i]) + plain[i] * d[i]
    BY <2>2
  <2> QED
    BY <2>1, <2>3
<1>4. SumFunctionOnSet(Exp2(k), Idx) = r * K + M
  <2>1. r \in Int
    BY Constants
  <2> HIDE DEF b
  <2> QED
    BY <1>3, <2>1, FiniteIdx, SumLinear
<1>5. K \in Nat /\ M \in Nat
  <2> HIDE DEF b
  <2> QED
    BY <1>3, FiniteIdx, SumNat
<1>6. output = Powers(K, r * K + M)
  BY <1>1, <1>2, <1>4 DEF Progress, Part
<1>7. SumFunction(b) = M
  BY DEF SumFunction, FoldFunction, SumFunctionOnSet
<1>8. opened = elgamal_dec(output)
  BY <1>1 DEF Progress
<1> HIDE DEF K, M, b
<1>9. elgamal_dec(Powers(K, r * K + M)) = Pow(g, M % q)
  BY <1>5, DecPowers
<1>10. opened = Pow(g, SumFunction(b) % q)
  BY <1>6, <1>7, <1>8, <1>9
<1> QED
  BY <1>10 DEF b

\* Whatever the modulus, the generator, the key, the vectors and the team are,
\* every state of the inner product satisfies the inductive invariant.
\* The ciphertexts, the partial products and the shared output are powers of g
\* with the exponents of the invariant, for every prime size, key, vector, team
\* and schedule (elgamal_enc_with_rand, dot_product_simel_enc,
\* dot_product_regular_enc).
THEOREM InvariantAlways == Spec => []ElGamalInv
<1>1. Init => ElGamalInv
  BY InitInv
<1>2. ElGamalInv /\ [Next]_vars => ElGamalInv'
  BY StepEncrypt, StepDump, StepThread, StepEnter, StepLeave, StepJoin, StutterInv DEF Next, ThreadStep
<1> QED
  BY <1>1, <1>2, PTL DEF Spec

\* The verifier decrypts g to the inner product of the two vectors, for every
\* modulus, key, randomness, vector length and number of threads, in either build
\* and in whichever order the threads enter the critical section
\* (dot_product_simel_enc, dot_product_regular_enc, elgamal_dec).
THEOREM DecryptsInnerProductAlways == Spec => []DecryptsInnerProduct
  BY InvariantAlways, InvDecrypts, PTL

===============================================================================
