------------------------- MODULE ZaatarArgumentProofs -------------------------
(***************************************************************************)
(* Proof that the consistency query of Zaatar's argument matches the       *)
(* queries the prover derives (ConsistencyQueryMatches), for every prime,  *)
(* constraint system, number of repetitions and seed.                      *)
(*                                                                         *)
(* Neither side sees the other's queries: the verifier adds its queries,   *)
(* times its coins, into the consistency query and forgets them, the       *)
(* prover writes its own into files.  The invariant therefore names the    *)
(* queries by what both must be, a function Query of the public seed and   *)
(* the number of the answer, and says of the verifier that its consistency *)
(* query is the sum over the answers so far, of the prover that its files  *)
(* are Query, and of both that their position in the public stream is the  *)
(* one that answer starts at.                                              *)
(*                                                                         *)
(* The sums are sums of integers only if every query is one, and so the    *)
(* first part types the numbers: inverses modulo a prime exist, products,  *)
(* powers and the recursive arrays of Qap have integer entries.            *)
(***************************************************************************)
EXTENDS ZaatarArgument, ArithmeticLemmas

-----------------------------------------------------------------------------
(* The field. *)

\* A set of natural numbers has a least element.
LEMMA LeastExists ==
    ASSUME NEW S, S \subseteq Nat, S # {}
    PROVE  \E x \in S : \A y \in S : x <= y
<1> DEFINE A == {n \in Nat : \A k \in 0 .. n : k \notin S}
<1>1. SUFFICES ASSUME \A x \in S : \E y \in S : y < x PROVE FALSE
  OBVIOUS
<1>2. 0 \in A
  BY <1>1
<1>3. ASSUME NEW n \in A PROVE n + 1 \in A
  <2>1. n \in Nat /\ \A k \in 0 .. n : k \notin S
    OBVIOUS
  <2>2. n + 1 \notin S
    BY <1>1, <2>1
  <2>3. \A k \in 0 .. n + 1 : k = n + 1 \/ k \in 0 .. n
    BY <2>1
  <2> QED
    BY <2>1, <2>2, <2>3
<1> HIDE DEF A
<1>4. A = Nat
  <2>1. A \subseteq Nat
    BY DEF A
  <2> QED
    BY <1>2, <1>3, <2>1, NatSetInduction
<1>5. PICK x : x \in S
  OBVIOUS
<1>6. x \in A /\ x \in 0 .. x
  BY <1>4, <1>5
<1> QED
  BY <1>5, <1>6 DEF A

\* The prime as a number.
LEMMA PrimePositive == prime \in Nat \ {0} /\ prime > 2
  BY PrimeAssumption

\* A residue is an integer.
LEMMA ModInt ==
    ASSUME NEW a \in Int
    PROVE  a % prime \in Int
<1>1. a % prime \in 0 .. prime - 1
  BY PrimePositive, ModDef
<1> QED
  BY <1>1, PrimePositive

\* Every number that prime does not divide has an inverse: the least positive
\* residue among its multiples divides prime, and so is 1.
LEMMA InverseExists ==
    ASSUME NEW a \in Int, a % prime # 0
    PROVE  \E b \in Zp : modmult(a, b) = 1
<1> DEFINE p == prime
           S == {x \in 1 .. p - 1 : \E v \in Int : (a * v) % p = x}
<1>0. p \in Nat \ {0} /\ p > 2
  BY PrimePositive
<1>1. \A v \in Int : (a * v) % p \in 0 .. p - 1 /\ (a * v) \div p \in Int
                       /\ a * v = p * ((a * v) \div p) + ((a * v) % p)
  <2> HIDE DEF p
  <2> SUFFICES ASSUME NEW v \in Int
               PROVE  (a * v) % p \in 0 .. p - 1 /\ (a * v) \div p \in Int
                       /\ a * v = p * ((a * v) \div p) + ((a * v) % p)
    OBVIOUS
  <2>1. a * v \in Int
    OBVIOUS
  <2> QED
    BY <1>0, <2>1, ModDef
<1>2. S \subseteq Nat /\ S # {}
  <2>1. a * 1 = a
    OBVIOUS
  <2>2. a % p \in 0 .. p - 1
    <3> HIDE DEF p
    <3> QED
      BY <1>0, ModDef
  <2>3. a % p \in 1 .. p - 1
    BY <2>2, PrimePositive
  <2>4. \E v \in Int : (a * v) % p = a % p
    <3>1. (a * 1) % p = a % p /\ 1 \in Int
      BY <2>1
    <3> QED
      BY <3>1, Zenon
  <2>5. a % p \in S
    BY <2>3, <2>4, Zenon
  <2>6. S \subseteq Nat
    BY <1>0
  <2> QED
    BY <2>5, <2>6
<1>3. PICK d \in S : \A y \in S : d <= y
  <2> HIDE DEF S
  <2> QED
    BY <1>2, LeastExists
<1>4. PICK v \in Int : (a * v) % p = d
  BY <1>3
<1> DEFINE s == p \div d
           e == p % d
           k == (a * v) \div p
<1>5. d \in Nat \ {0} /\ d < p
  BY <1>0, <1>3
<1>6. s \in Nat /\ e \in 0 .. d - 1 /\ p = d * s + e
  <2> HIDE DEF p
  <2>1. p \in Nat
    BY <1>0
  <2> QED
    BY <1>5, <2>1, DivMod
<1>7. k \in Int /\ a * v = p * k + d
  BY <1>1, <1>4
<1> HIDE DEF s, e, k
<1>8. e = 0
  <2> SUFFICES ASSUME e # 0 PROVE FALSE
    OBVIOUS
  <2>1. a * (- (s * v)) = p * (- (s * k) - 1) + e
    <3> HIDE DEF p
    <3>1. a * (- (s * v)) = - (s * (a * v))
      BY <1>6
    <3>2. s * (a * v) = s * (p * k + d)
      BY <1>7
    <3>3. s * (p * k + d) = p * (s * k) + d * s
      BY <1>0, <1>5, <1>6, <1>7
    <3>4. PICK z \in Int : z = s * k
      BY <1>6, <1>7
    <3>5. p * (- z - 1) + e = - (p * z + d * s)
      <4>1. PICK w \in Int : w = p * z
        BY <1>0
      <4>2. p * (- z - 1) = - w - p
        BY <1>0, <4>1
      <4>3. PICK y \in Int : y = d * s
        BY <1>5, <1>6
      <4> QED
        BY <1>0, <1>6, <4>1, <4>2, <4>3
    <3> QED
      BY <3>1, <3>2, <3>3, <3>4, <3>5
  <2>2. e \in 0 .. p - 1
    BY <1>0, <1>5, <1>6
  <2>3. - (s * k) - 1 \in Int /\ - (s * v) \in Int
    BY <1>6, <1>7
  <2>4. (p * (- (s * k) - 1) + e) % p = e
    <3> HIDE DEF p
    <3> QED
      BY <1>0, <2>2, <2>3, ModUnique
  <2>5. e \in S
    <3>1. (a * (- (s * v))) % p = e
      BY <2>1, <2>4
    <3>2. e \in 1 .. p - 1
      BY <2>2
    <3> QED
      BY <2>3, <3>1, <3>2
  <2> QED
    BY <1>3, <1>6, <2>5
<1>9. d = 1
  <2> SUFFICES ASSUME d # 1 PROVE FALSE
    OBVIOUS
  <2>1. p = d * s
    <3>1. d * s \in Int
      BY <1>5, <1>6
    <3> QED
      BY <1>6, <1>8, <3>1
  <2>2. s # 0 /\ s # 1
    BY <1>0, <1>5, <2>1
  <2>3. s < p
    <3>1. s \in Nat /\ s >= 2 /\ d >= 2
      BY <1>5, <1>6, <2>2
    <3>2. 2 * s <= d * s
      BY <1>5, <3>1, MulMono
    <3> QED
      BY <2>1, <3>1, <3>2
  <2>4. d \in 2 .. p - 1 /\ s \in 2 .. p - 1
    BY <1>0, <1>5, <1>6, <2>2, <2>3
  <2> QED
    BY <2>1, <2>4, PrimeAssumption
<1> DEFINE b == v % p
           c == v \div p
<1>10. b \in 0 .. p - 1 /\ c \in Int /\ v = p * c + b
  <2> HIDE DEF p
  <2> QED
    BY <1>0, ModDef
<1> HIDE DEF b, c
<1>11. a * b = p * (k - a * c) + 1
  <2> HIDE DEF p
  <2>1. a * v = a * (p * c) + a * b
    BY <1>0, <1>10
  <2>2. a * (p * c) = p * (a * c)
    BY <1>0, <1>10
  <2>3. p * (k - a * c) = p * k - p * (a * c)
    BY <1>0, <1>7, <1>10
  <2>4. PICK x \in Int, y \in Int, z \in Int : x = p * k /\ y = p * (a * c) /\ z = a * b
    BY <1>0, <1>7, <1>10
  <2> QED
    BY <1>7, <1>9, <2>1, <2>2, <2>3, <2>4
<1>12. (a * b) % p = 1
  <2>1. k - a * c \in Int /\ 1 \in 0 .. p - 1
    BY <1>0, <1>7, <1>10
  <2> HIDE DEF p
  <2>2. (p * (k - a * c) + 1) % p = 1
    BY <1>0, <2>1, ModUnique
  <2> QED
    BY <1>11, <2>2
<1> QED
  BY <1>10, <1>12 DEF modmult, Zp

\* Products modulo the prime are integers (modmult).
LEMMA ModmultType ==
    ASSUME NEW a \in Int, NEW b \in Int
    PROVE  modmult(a, b) \in Int
<1>1. a * b \in Int
  OBVIOUS
<1> QED
  BY <1>1, ModInt DEF modmult

\* So are inverses (mpz_invert): the CHOOSE of Invert has a witness.
LEMMA InvertType ==
    ASSUME NEW a \in Int
    PROVE  Invert(a) \in Int
<1>1. CASE a % prime = 0
  BY <1>1 DEF Invert
<1>2. CASE a % prime # 0
  <2>1. \E b \in Zp : modmult(a, b) = 1
    BY <1>2, InverseExists
  <2>2. (CHOOSE b \in Zp : modmult(a, b) = 1) \in Zp
    BY <2>1
  <2>3. Invert(a) \in Zp
    BY <1>2, <2>2 DEF Invert
  <2> QED
    BY <2>3, PrimePositive DEF Zp
<1> QED
  BY <1>1, <1>2

\* A product of integers modulo prime.
LEMMA ProductType ==
    ASSUME NEW f, IsFiniteSet(DOMAIN f), \A x \in DOMAIN f : f[x] \in Int
    PROVE  Product(f) \in Int
<1> DEFINE S == DOMAIN f
           IsIt(it) == it = [T \in SUBSET S |-> IF T = {} THEN 1 ELSE (f[Chosen(T)] * it[T \ {Chosen(T)}]) % prime]
           it0 == CHOOSE it : IsIt(it)
           h == [a \in (SUBSET S) \X Int |-> IF a[1] = {} THEN 1 ELSE (f[Chosen(a[1])] * a[2]) % prime]
<1>1. Product(f) = it0[S]
  BY DEF Product, FoldFunction, FoldFunctionOnSet, MapThenFoldSet, Chosen
<1>2. IsFiniteSet(S) /\ \A x \in S : f[x] \in Int
  OBVIOUS
<1> HIDE DEF S
<1>4. \A T \in SUBSET S : T # {} => Chosen(T) \in T
  BY DEF Chosen
<1>5. h \in [(SUBSET S) \X Int -> Int]
  <2>1. 1 \in Int
    OBVIOUS
  <2>2. ASSUME NEW a \in (SUBSET S) \X Int, a[1] # {}
        PROVE  (f[Chosen(a[1])] * a[2]) % prime \in Int
    <3>1. Chosen(a[1]) \in S /\ a[2] \in Int
      BY <1>4, <2>2
    <3>2. f[Chosen(a[1])] * a[2] \in Int
      BY <1>2, <3>1
    <3> QED
      BY <3>2, ModInt
  <2> QED
    BY <2>1, <2>2
<1>6. PICK it \in [SUBSET S -> Int] : IsFold(it, S, 1, h)
  <2>1. 1 \in Int
    OBVIOUS
  <2> HIDE DEF h
  <2> QED
    BY <1>2, <1>5, <2>1, FoldExists
<1>7. IsIt(it)
  <2>1. ASSUME NEW T \in SUBSET S, T # {}
        PROVE  h[<<T, it[T \ {Chosen(T)}]>>] = (f[Chosen(T)] * it[T \ {Chosen(T)}]) % prime
    <3>1. it[T \ {Chosen(T)}] \in Int
      BY <1>6
    <3>2. <<T, it[T \ {Chosen(T)}]>> \in (SUBSET S) \X Int
      BY <3>1
    <3> QED
      BY <3>2, <2>1
  <2> HIDE DEF h
  <2> QED
    BY <1>6, <2>1 DEF IsFold
<1>8. IsIt(it0)
  BY <1>7, Zenon
<1> HIDE DEF it0, h
<1>9. it0[{}] = 1 /\ \A T \in SUBSET S : T # {} => it0[T] = (f[Chosen(T)] * it0[T \ {Chosen(T)}]) % prime
  BY <1>8
<1> DEFINE A == {T \in SUBSET S : it0[T] \in Int}
<1>10. {} \in A
  BY <1>9
<1>11. ASSUME NEW T \in SUBSET S, T # {}, \A x \in T : T \ {x} \in A
       PROVE  T \in A
  <2>1. Chosen(T) \in T
    BY <1>4, <1>11
  <2>2. f[Chosen(T)] * it0[T \ {Chosen(T)}] \in Int
    <3>1. it0[T \ {Chosen(T)}] \in Int
      BY <1>11, <2>1
    <3>2. f[Chosen(T)] \in Int
      BY <1>2, <2>1
    <3> QED
      BY <3>1, <3>2
  <2>3. (f[Chosen(T)] * it0[T \ {Chosen(T)}]) % prime \in Int
    BY <2>2, ModInt
  <2> QED
    BY <1>9, <1>11, <2>3
<1> HIDE DEF A
<1>12. \A T \in SUBSET S : T \in A
  BY <1>2, <1>10, <1>11, SubsetInduction
<1>13. it0[S] \in Int
  BY <1>12 DEF A
<1> QED
  BY <1>1, <1>13

\* A sum of integers modulo prime.
LEMMA SumModType ==
    ASSUME NEW f, IsFiniteSet(DOMAIN f), \A x \in DOMAIN f : f[x] \in Int
    PROVE  SumMod(f) \in Int
<1>1. SumFunction(f) = SumFunctionOnSet(f, DOMAIN f)
  BY DEF SumFunction, FoldFunction, SumFunctionOnSet
<1>2. SumFunctionOnSet(f, DOMAIN f) \in Int
  BY SumType
<1> QED
  BY <1>1, <1>2, ModInt DEF SumMod

\* ... and powers.
LEMMA PowerType ==
    ASSUME NEW b \in Int, NEW n \in Int
    PROVE  Power(b, n) \in Int
<1> DEFINE f == [i \in 1 .. n |-> b]
<1>1. IsFiniteSet(1 .. n)
  BY FS_Interval
<1>2. DOMAIN f = 1 .. n /\ \A x \in DOMAIN f : f[x] \in Int
  OBVIOUS
<1> HIDE DEF f
<1>3. Product(f) \in Int
  BY <1>1, <1>2, ProductType
<1> QED
  BY <1>3 DEF Power, f

-----------------------------------------------------------------------------
(* The numbers of the queries are integers. *)

\* The sizes of the vectors.
LEMMA Sizes ==
    /\ Size1 \in Nat \ {0} /\ Size2 \in Nat \ {0} /\ NumAll \in Nat /\ Chi \in Nat
    /\ Size2 = Chi + 1 /\ Size1 <= NumAll
<1>1. NumVars \in Nat \ {0} /\ Chi \in Nat \ {0} /\ SizeIO \in Nat \ {0}
  BY QapAssumption
<1> QED
  BY <1>1 DEF Size1, Size2, NumAll

\* The root of unity, from the non-residue the code searches for.
LEMMA OmegaType == omega \in Int
<1> DEFINE x == CHOOSE x \in Zp \ {0} : Power(x, (prime - 1) \div 2) # 1
           n == (prime - 1) \div Size2
<1>1. x \in Zp \ {0}
  BY NonResidueExists
<1>2. x \in Int
  BY <1>1, PrimePositive DEF Zp
<1>3. n \in Int
  BY PrimePositive, Sizes
<1>4. omega = Power(x, n)
  BY DEF omega
<1> HIDE DEF x, n
<1> QED
  BY <1>2, <1>3, <1>4, PowerType

\* The interpolation points of every build.
LEMMA RootsType ==
    ASSUME NEW j \in 0 .. Size2 - 1
    PROVE  powers_of_omega[j] \in Int /\ \A bd \in Builds : qap_roots[bd][j] \in Int
<1>1. j \in Int
  BY Sizes
<1>2. Power(omega, j) \in Int
  BY <1>1, OmegaType, PowerType
<1>3. powers_of_omega[j] \in Int
  BY <1>2 DEF powers_of_omega
<1>4. ASSUME NEW bd \in Builds PROVE qap_roots[bd][j] \in Int
  <2>1. qap_roots[bd] = IF bd = "tree" THEN [i \in 0 .. Size2 - 1 |-> i] ELSE powers_of_omega
    BY DEF qap_roots
  <2> QED
    BY <1>1, <1>3, <2>1
<1> QED
  BY <1>3, <1>4

\* set_v of the FFT builds: each entry from the one before it.
LEMMA SetVOmegaType ==
    ASSUME NEW j \in 0 .. Size2 - 1
    PROVE  set_v_omega[j] \in Int
<1> DEFINE n == Size2 - 1
           f0 == [i \in 1 .. Size2 - 1 |-> powers_of_omega[0] - powers_of_omega[i]]
           base == Invert(Product(f0))
           w == Invert(powers_of_omega[Size2 - 1])
           h == [a \in Nat \X Int |-> modmult(a[2], w)]
           IsIt(v) == v = [i \in 0 .. Size2 - 1 |-> IF i = 0 THEN base ELSE modmult(v[i - 1], w)]
           e == CHOOSE v : IsIt(v)
<1>0. n \in Nat /\ 0 \in 0 .. Size2 - 1 /\ Size2 - 1 \in 0 .. Size2 - 1 /\ \A i \in 1 .. Size2 - 1 : i \in 0 .. Size2 - 1
  BY Sizes
<1>1. base \in Int
  <2>1. DOMAIN f0 = 1 .. Size2 - 1 /\ IsFiniteSet(1 .. Size2 - 1)
    BY Sizes, FS_Interval
  <2>2. ASSUME NEW i \in 1 .. Size2 - 1 PROVE f0[i] \in Int
    <3>1. powers_of_omega[0] \in Int /\ powers_of_omega[i] \in Int
      BY <1>0, RootsType
    <3> QED
      BY <3>1
  <2> HIDE DEF f0
  <2>3. Product(f0) \in Int
    BY <2>1, <2>2, ProductType
  <2> QED
    BY <2>3, InvertType
<1>2. w \in Int
  BY <1>0, RootsType, InvertType
<1>3. set_v_omega = e
  BY DEF set_v_omega
<1> HIDE DEF base, w
<1>4. h \in [Nat \X Int -> Int]
  <2>1. \A a \in Nat \X Int : modmult(a[2], w) \in Int
    BY <1>2, ModmultType
  <2> QED
    BY <2>1
<1>5. PICK v \in [0 .. n -> Int] : IsRecursion(v, n, base, h)
  <2> HIDE DEF h, n
  <2> QED
    BY <1>0, <1>1, <1>4, RecursionExists
<1>6. \A i \in 1 .. n : v[i] = modmult(v[i - 1], w)
  <2> SUFFICES ASSUME NEW i \in 1 .. n PROVE v[i] = modmult(v[i - 1], w)
    OBVIOUS
  <2>0. i \in Nat /\ i - 1 \in 0 .. n
    BY Sizes
  <2>1. v[i - 1] \in Int /\ <<i, v[i - 1]>> \in Nat \X Int
    <3> HIDE DEF n, h
    <3>1. v[i - 1] \in Int
      BY <1>5, <2>0
    <3> QED
      BY <2>0, <3>1
  <2>2. v[i] = h[<<i, v[i - 1]>>]
    BY <1>5 DEF IsRecursion
  <2> QED
    BY <2>1, <2>2
<1>7. IsIt(v)
  BY <1>0, <1>5, <1>6 DEF IsRecursion
<1>8. IsIt(e)
  BY <1>7, Zenon
<1> HIDE DEF e
<1>9. e[0] = base /\ \A i \in 1 .. n : e[i] = modmult(e[i - 1], w)
  BY <1>0, <1>8
<1> HIDE DEF IsIt
<1> DEFINE A == {k \in Nat : k <= n => e[k] \in Int}
<1>10. 0 \in A
  BY <1>1, <1>9
<1>11. ASSUME NEW k \in A PROVE k + 1 \in A
  <2>1. k \in Nat /\ (k <= n => e[k] \in Int)
    OBVIOUS
  <2>2. ASSUME k + 1 <= n PROVE e[k + 1] \in Int
    <3>1. k + 1 \in 1 .. n /\ (k + 1) - 1 = k /\ e[k] \in Int
      BY <1>0, <2>1, <2>2
    <3>2. e[k + 1] = modmult(e[k], w)
      BY <1>9, <3>1
    <3> QED
      BY <1>2, <3>1, <3>2, ModmultType
  <2> QED
    BY <2>1, <2>2
<1> HIDE DEF A
<1>12. A = Nat
  <2>1. A \subseteq Nat
    BY DEF A
  <2> QED
    BY <1>10, <1>11, <2>1, NatSetInduction
<1> QED
  BY <1>0, <1>3, <1>12 DEF A

\* set_v of the tree build.
LEMMA SetVIntegersType ==
    ASSUME NEW j \in 0 .. Size2 - 1
    PROVE  set_v_integers[j] \in Int
<1> DEFINE n == Size2 - 1
           f0 == [i \in 1 .. Size2 - 1 |-> -i]
           base == Invert(Product(f0))
           Step(i, x) == modmult(modmult(x, Invert(i)), i - Size2)
           h == [a \in Nat \X Int |-> Step(a[1], a[2])]
           IsIt(v) == v = [i \in 0 .. Size2 - 1 |-> IF i = 0 THEN base ELSE Step(i, v[i - 1])]
           e == CHOOSE v : IsIt(v)
<1>0. n \in Nat /\ 0 \in 0 .. Size2 - 1
  BY Sizes
<1>1. base \in Int
  <2>1. DOMAIN f0 = 1 .. Size2 - 1 /\ IsFiniteSet(1 .. Size2 - 1)
    BY Sizes, FS_Interval
  <2>2. ASSUME NEW i \in 1 .. Size2 - 1 PROVE f0[i] \in Int
    BY Sizes
  <2> HIDE DEF f0
  <2>3. Product(f0) \in Int
    BY <2>1, <2>2, ProductType
  <2> QED
    BY <2>3, InvertType
<1>2. ASSUME NEW i \in Nat, NEW x \in Int PROVE Step(i, x) \in Int
  <2>1. i \in Int /\ i - Size2 \in Int
    BY Sizes
  <2>2. modmult(x, Invert(i)) \in Int
    BY <2>1, InvertType, ModmultType
  <2> QED
    BY <2>1, <2>2, ModmultType
<1>3. set_v_integers = e
  BY DEF set_v_integers
<1> HIDE DEF base, Step
<1>4. h \in [Nat \X Int -> Int]
  <2>1. \A a \in Nat \X Int : Step(a[1], a[2]) \in Int
    BY <1>2
  <2> QED
    BY <2>1
<1>5. PICK v \in [0 .. n -> Int] : IsRecursion(v, n, base, h)
  <2> HIDE DEF h, n
  <2> QED
    BY <1>0, <1>1, <1>4, RecursionExists
<1>6. \A i \in 1 .. n : v[i] = Step(i, v[i - 1])
  <2> SUFFICES ASSUME NEW i \in 1 .. n PROVE v[i] = Step(i, v[i - 1])
    OBVIOUS
  <2>1. v[i - 1] \in Int /\ <<i, v[i - 1]>> \in Nat \X Int
    BY <1>0, <1>5
  <2>2. v[i] = h[<<i, v[i - 1]>>]
    BY <1>5 DEF IsRecursion
  <2> QED
    BY <2>1, <2>2
<1>7. IsIt(v)
  BY <1>0, <1>5, <1>6 DEF IsRecursion
<1>8. IsIt(e)
  BY <1>7, Zenon
<1> HIDE DEF e
<1>9. e[0] = base /\ \A i \in 1 .. n : e[i] = Step(i, e[i - 1])
  BY <1>0, <1>8
<1> HIDE DEF IsIt
<1> DEFINE A == {k \in Nat : k <= n => e[k] \in Int}
<1>10. 0 \in A
  BY <1>1, <1>9
<1>11. ASSUME NEW k \in A PROVE k + 1 \in A
  <2>1. k \in Nat /\ (k <= n => e[k] \in Int)
    OBVIOUS
  <2>2. ASSUME k + 1 <= n PROVE e[k + 1] \in Int
    <3>1. k + 1 \in 1 .. n /\ (k + 1) - 1 = k /\ e[k] \in Int /\ k + 1 \in Nat
      BY <1>0, <2>1, <2>2
    <3>2. e[k + 1] = Step(k + 1, e[k])
      BY <1>9, <3>1
    <3> QED
      BY <1>2, <3>1, <3>2
  <2> QED
    BY <2>1, <2>2
<1> HIDE DEF A
<1>12. A = Nat
  <2>1. A \subseteq Nat
    BY DEF A
  <2> QED
    BY <1>10, <1>11, <2>1, NatSetInduction
<1> QED
  BY <1>0, <1>3, <1>12 DEF A

\* A matrix: lines with a variable, a constraint and a coefficient.
IsPoly(poly) ==
    /\ IsFiniteSet(DOMAIN poly)
    /\ \A k \in DOMAIN poly : poly[k] \in [i : 0 .. NumAll, j : 0 .. Chi, c : Int]

\* The three matrices of the QAP file.
LEMMA PolyTypes == IsPoly(PolyA) /\ IsPoly(PolyB) /\ IsPoly(PolyC)
<1> DEFINE Lines == [i : 0 .. NumAll, j : 0 .. Chi, c : Int]
           n == Len(QapFile)
<1>1. QapFile \in Seq(Lines) /\ num_aij \in Nat /\ num_bij \in Nat /\ num_aij + num_bij <= n
  BY QapAssumption
<1> HIDE DEF Lines
<1>2. n \in Nat /\ \A k \in 1 .. n : QapFile[k] \in Lines
  BY <1>1
<1> HIDE DEF n
<1>3. ASSUME NEW a \in Nat, NEW b \in Int, a + b <= n, NEW P, P = [k \in 0 .. b - 1 |-> Line(a + k)]
      PROVE  IsFiniteSet(DOMAIN P) /\ \A k \in DOMAIN P : P[k] \in Lines
  <2>1. DOMAIN P = 0 .. b - 1 /\ IsFiniteSet(0 .. b - 1)
    BY <1>3, FS_Interval
  <2>2. ASSUME NEW k \in 0 .. b - 1 PROVE P[k] \in Lines
    <3>1. (a + k) + 1 \in 1 .. n
      BY <1>2, <1>3
    <3>2. P[k] = QapFile[(a + k) + 1]
      BY <1>3 DEF Line
    <3> QED
      BY <1>2, <3>1, <3>2
  <2> QED
    BY <2>1, <2>2
<1>4. IsPoly(PolyA)
  <2>1. PolyA = [k \in 0 .. num_aij - 1 |-> Line(0 + k)]
    BY <1>1 DEF PolyA
  <2>2. 0 + num_aij <= n /\ 0 \in Nat /\ num_aij \in Int
    BY <1>1, <1>2
  <2> QED
    BY <1>3, <2>1, <2>2 DEF IsPoly, Lines
<1>5. IsPoly(PolyB)
  <2>1. num_aij + num_bij <= n /\ num_bij \in Int
    BY <1>1, <1>2
  <2> QED
    BY <1>1, <1>3, <2>1 DEF IsPoly, Lines, PolyB
<1>6. IsPoly(PolyC)
  <2> DEFINE a == num_aij + num_bij
             b == n - num_aij - num_bij
  <2>1. a \in Nat /\ b \in Int /\ a + b <= n
    BY <1>1, <1>2
  <2>2. PolyC = [k \in 0 .. b - 1 |-> Line(a + k)]
    BY DEF PolyC, n
  <2> HIDE DEF a, b
  <2> QED
    BY <1>3, <2>1, <2>2 DEF IsPoly, Lines
<1> QED
  BY <1>4, <1>5, <1>6

\* The product of tau - root (l_tau).
LEMMA LTauType ==
    ASSUME NEW bd \in Builds, NEW tau \in Int
    PROVE  l_tau(bd, tau) \in Int
<1> DEFINE f == [i \in 0 .. Size2 - 1 |-> tau - qap_roots[bd][i]]
<1>1. DOMAIN f = 0 .. Size2 - 1 /\ IsFiniteSet(0 .. Size2 - 1)
  BY Sizes, FS_Interval
<1>2. ASSUME NEW i \in 0 .. Size2 - 1 PROVE f[i] \in Int
  <2>1. qap_roots[bd][i] \in Int
    BY RootsType
  <2> QED
    BY <2>1
<1>3. l_tau(bd, tau) = Product(f)
  BY DEF l_tau
<1> HIDE DEF f
<1> QED
  BY <1>1, <1>2, <1>3, ProductType

\* A row of the matrices at tau (eval_poly).
LEMMA EvalPolyType ==
    ASSUME NEW bd \in Builds, NEW poly, IsPoly(poly), NEW tau \in Int, NEW i \in 0 .. NumAll
    PROVE  eval_poly(bd, poly, tau)[i] \in Int
<1> DEFINE term(e) == modmult(set_v[bd][e.j] * e.c, Invert(tau - qap_roots[bd][e.j]))
           f == [k \in DOMAIN poly |-> IF poly[k].i = i THEN term(poly[k]) ELSE 0]
<1>1. eval_poly(bd, poly, tau)[i] = modmult(SumMod(f), l_tau(bd, tau))
  BY DEF eval_poly
<1>2. ASSUME NEW k \in DOMAIN poly PROVE f[k] \in Int
  <2>1. poly[k].j \in 0 .. Chi /\ poly[k].c \in Int
    BY DEF IsPoly
  <2>2. PICK j : j = poly[k].j
    OBVIOUS
  <2>3. j \in 0 .. Size2 - 1
    BY <2>1, <2>2, Sizes
  <2>4. qap_roots[bd][j] \in Int
    BY <2>3, RootsType
  <2>5. set_v[bd][j] \in Int
    <3>1. set_v_omega[j] \in Int /\ set_v_integers[j] \in Int
      BY <2>3, SetVOmegaType, SetVIntegersType
    <3>2. set_v[bd] = IF bd = "tree" THEN set_v_integers ELSE set_v_omega
      BY DEF set_v
    <3> QED
      BY <3>1, <3>2
  <2>6. tau - qap_roots[bd][j] \in Int /\ set_v[bd][j] * poly[k].c \in Int
    BY <2>1, <2>4, <2>5
  <2>7. Invert(tau - qap_roots[bd][j]) \in Int
    BY <2>6, InvertType
  <2>8. modmult(set_v[bd][j] * poly[k].c, Invert(tau - qap_roots[bd][j])) \in Int
    BY <2>6, <2>7, ModmultType
  <2>9. term(poly[k]) \in Int
    BY <2>2, <2>8
  <2> HIDE DEF term
  <2> QED
    BY <2>9
<1>3. IsFiniteSet(DOMAIN poly) /\ DOMAIN f = DOMAIN poly
  BY DEF IsPoly
<1> HIDE DEF f
<1>4. SumMod(f) \in Int
  BY <1>2, <1>3, SumModType
<1> QED
  BY <1>1, <1>4, LTauType, ModmultType

\* The four divisibility queries, for integers that hide them.
LEMMA DivQueriesType ==
    ASSUME NEW bd \in Builds, NEW tau \in Int, NEW cr,
           \A i \in 0 .. Size1 - 1 : cr[1][i] \in Int, \A i \in 0 .. Size2 - 1 : cr[2][i] \in Int
    PROVE  LET q == DivQueries(bd, tau, cr)
           IN  /\ \A i \in 0 .. Size1 - 1 : q.a[i] \in Int /\ q.b[i] \in Int /\ q.c[i] \in Int
               /\ \A i \in 0 .. Size2 - 1 : q.d[i] \in Int
<1> DEFINE q == DivQueries(bd, tau, cr)
           hide(row) == [i \in 0 .. Size1 - 1 |-> (row[i + 1] + cr[1][i]) % prime]
<1>1. /\ q.a = hide(eval_poly(bd, PolyA, tau)) /\ q.b = hide(eval_poly(bd, PolyB, tau))
      /\ q.c = hide(eval_poly(bd, PolyC, tau))
      /\ q.d = [i \in 0 .. Size2 - 1 |-> (Power(tau, i) + cr[2][i]) % prime]
  BY DEF DivQueries
<1> HIDE DEF q
<1>2. ASSUME NEW poly, IsPoly(poly), NEW i \in 0 .. Size1 - 1
      PROVE  hide(eval_poly(bd, poly, tau))[i] \in Int
  <2>1. i + 1 \in 0 .. NumAll
    BY Sizes
  <2>2. PICK x \in Int : x = eval_poly(bd, poly, tau)[i + 1]
    BY <1>2, <2>1, EvalPolyType
  <2>3. x + cr[1][i] \in Int
    OBVIOUS
  <2>4. (x + cr[1][i]) % prime \in Int
    BY <2>3, ModInt
  <2> QED
    BY <2>2, <2>4
<1>3. ASSUME NEW i \in 0 .. Size2 - 1 PROVE q.d[i] \in Int
  <2>1. i \in Int
    BY Sizes
  <2>2. Power(tau, i) \in Int
    BY <2>1, PowerType
  <2>3. Power(tau, i) + cr[2][i] \in Int
    BY <2>2
  <2>4. (Power(tau, i) + cr[2][i]) % prime \in Int
    BY <2>3, ModInt
  <2> QED
    BY <1>1, <2>4
<1> HIDE DEF hide
<1> QED
  BY <1>1, <1>2, <1>3, PolyTypes DEF q

\* A value of a random stream.
LEMMA DrawType ==
    ASSUME NEW seed \in Nat, NEW k \in Nat
    PROVE  Draw(seed, k) \in Int
<1>1. (k + 1)^3 \in Int
  OBVIOUS
<1>2. seed \div prime \in Int /\ k \div prime \in Int
  BY PrimePositive
<1>3. PICK x \in Int, y \in Int, z \in Int : x = (k + 1)^3 /\ y = seed \div prime /\ z = k \div prime
  BY <1>1, <1>2
<1>4. seed * (1 + x) + y * k * k + 5 * z * k \in Int
  OBVIOUS
<1>5. (seed * (1 + x) + y * k * k + 5 * z * k) % prime \in Int
  BY <1>4, ModInt
<1> QED
  BY <1>3, <1>5 DEF Draw

-----------------------------------------------------------------------------
(* The queries of a public seed, as functions of the answer they ask for. *)

\* Values of the public stream that a repetition and a rho take.
PerRep == 2 * (Size1 + Size2)
PerRho == NUM_REPS_LIN * PerRep + 1

\* Where repetition e of rho r starts in the public stream.
Pos(r, e) == r * PerRho + e * PerRep

\* The linearity queries of a repetition, those that hide the divisibility
\* queries of a rho, and the divisibility queries.
Lin1(s, r, e) == LinQueries(s, Pos(r, e), Size1)
Lin2(s, r, e) == LinQueries(s, Pos(r, e) + 2 * Size1, Size2)
Corr(s, r) == <<Lin1(s, r, 0).l1, Lin2(s, r, 0).l1>>
Div(s, bd, r) == DivQueries(bd, Draw(s, Pos(r, NUM_REPS_LIN)), Corr(s, r))

\* Query t of a linearity repetition; 2 and 5 are never built.
LinQuery(s, r, e, t) ==
    IF t = 0 THEN Lin1(s, r, e).l1 ELSE IF t = 1 THEN Lin1(s, r, e).l2
    ELSE IF t = 3 THEN Lin2(s, r, e).l1 ELSE Lin2(s, r, e).l2

\* Divisibility query t of a rho.
DivQuery(s, bd, r, t) ==
    IF t = 0 THEN Div(s, bd, r).a ELSE IF t = 1 THEN Div(s, bd, r).b
    ELSE IF t = 2 THEN Div(s, bd, r).c ELSE Div(s, bd, r).d

\* The query of answer k, unless k is a third answer.
Query(s, bd, k) ==
    LET j == k % NUM_LIN_PCP_QUERIES
        r == k \div NUM_LIN_PCP_QUERIES
    IN  IF j < Q7 THEN LinQuery(s, r, j \div 6, j % 6) ELSE DivQuery(s, bd, r, j - Q7)

\* What answer k is about at position i of its vector.
Asked(s, bd, k, i) ==
    IF IsThird(k) THEN Query(s, bd, k - 2)[i] + Query(s, bd, k - 1)[i] ELSE Query(s, bd, k)[i]

\* The share of each answer in the consistency query of F1 or F2 at position i.
Term(c, s, bd, f, i) ==
    [k \in AnswerIds |-> IF Vector(k) = f THEN c[k] * Asked(s, bd, k, i) ELSE 0]

\* The secret vector's value at position i.
Secret(s, f, i) == Draw(s, (IF f = 1 THEN 0 ELSE Size1) + i)

\* The numbers of queries and of drawn values.
LEMMA Counts ==
    /\ NUM_REPS_PCP \in Nat \ {0} /\ NUM_REPS_LIN \in Nat \ {0}
    /\ Q7 \in Nat /\ Q7 = 6 * NUM_REPS_LIN /\ NUM_LIN_PCP_QUERIES \in Nat \ {0}
    /\ NUM_LIN_PCP_QUERIES = Q7 + 4 /\ Q10 = Q7 + 3
    /\ AnswerIds = 0 .. NUM_REPS_PCP * NUM_LIN_PCP_QUERIES - 1
    /\ NUM_REPS_PCP * NUM_LIN_PCP_QUERIES \in Nat
    /\ PerRep \in Nat /\ PerRho \in Nat
<1>1. NUM_REPS_PCP \in Nat \ {0} /\ NUM_REPS_LIN \in Nat \ {0}
  BY ZaatarAssumption
<1>2. /\ Q7 \in Nat /\ Q7 = 6 * NUM_REPS_LIN /\ NUM_LIN_PCP_QUERIES \in Nat \ {0}
      /\ NUM_LIN_PCP_QUERIES = Q7 + 4 /\ Q10 = Q7 + 3
  BY <1>1 DEF Q7, Q10, NUM_LIN_QUERIES, NUM_LIN_PCP_QUERIES
<1>3. NUM_REPS_PCP * NUM_LIN_PCP_QUERIES \in Nat
  BY <1>1, <1>2
<1>4. PerRep \in Nat
  BY Sizes DEF PerRep
<1>5. PerRho \in Nat
  BY <1>1, <1>4 DEF PerRho
<1> QED
  BY <1>1, <1>2, <1>3, <1>4, <1>5 DEF AnswerIds

\* Quotient and remainder are what the division of n * r + j by n yields.
LEMMA DivisionUnique ==
    ASSUME NEW n \in Nat \ {0}, NEW r \in Nat, NEW j \in 0 .. n - 1
    PROVE  (n * r + j) % n = j /\ (n * r + j) \div n = r
<1> DEFINE a == n * r + j
<1>1. a \in Int /\ a = n * r + j
  OBVIOUS
<1>2. a % n = j
  BY ModUnique
<1> HIDE DEF a
<1>3. PICK d \in Int : d = a \div n /\ a = n * d + (a % n)
  BY <1>1, ModDef
<1>4. PICK x \in Int, y \in Int : x = n * d /\ y = n * r
  OBVIOUS
<1>5. n * d = n * r
  BY <1>1, <1>2, <1>3, <1>4
<1>6. d = r
  BY <1>5
<1> QED
  BY <1>2, <1>3, <1>6 DEF a

\* Where an id of rho r lies.
LEMMA RhoId ==
    ASSUME NEW r \in 0 .. NUM_REPS_PCP - 1, NEW j \in 0 .. NUM_LIN_PCP_QUERIES - 1,
           NEW k, k = r * NUM_LIN_PCP_QUERIES + j
    PROVE  /\ k \in AnswerIds /\ k \in Nat
           /\ k % NUM_LIN_PCP_QUERIES = j /\ k \div NUM_LIN_PCP_QUERIES = r
<1>0. /\ NUM_LIN_PCP_QUERIES \in Nat \ {0} /\ r \in Nat /\ j \in Nat /\ j < NUM_LIN_PCP_QUERIES
      /\ r + 1 <= NUM_REPS_PCP /\ NUM_REPS_PCP \in Nat
  BY Counts
<1>1. k = NUM_LIN_PCP_QUERIES * r + j /\ k \in Nat
  BY <1>0
<1>2. k % NUM_LIN_PCP_QUERIES = j /\ k \div NUM_LIN_PCP_QUERIES = r
  BY <1>0, <1>1, DivisionUnique
<1>4. k < NUM_REPS_PCP * NUM_LIN_PCP_QUERIES
  <2>1. (r + 1) * NUM_LIN_PCP_QUERIES <= NUM_REPS_PCP * NUM_LIN_PCP_QUERIES
    BY <1>0, MulMono
  <2>2. (r + 1) * NUM_LIN_PCP_QUERIES = NUM_LIN_PCP_QUERIES * r + NUM_LIN_PCP_QUERIES
    BY <1>0
  <2>3. PICK x \in Int, y \in Int : x = NUM_REPS_PCP * NUM_LIN_PCP_QUERIES /\ y = NUM_LIN_PCP_QUERIES * r
    BY <1>0
  <2> QED
    BY <1>0, <1>1, <2>1, <2>2, <2>3
<1>5. k \in AnswerIds
  BY <1>0, <1>1, <1>4, Counts
<1> QED
  BY <1>1, <1>2, <1>5

\* The answers of a linearity repetition.
LEMMA LinId ==
    ASSUME NEW r \in 0 .. NUM_REPS_PCP - 1, NEW e \in 0 .. NUM_REPS_LIN - 1, NEW t \in 0 .. 5,
           NEW k, k = r * NUM_LIN_PCP_QUERIES + e * 6 + t
    PROVE  /\ k \in AnswerIds /\ k \in Nat
           /\ IsThird(k) <=> t \in {2, 5}
           /\ Vector(k) = IF t < 3 THEN 1 ELSE 2
           /\ \A s, bd : Query(s, bd, k) = LinQuery(s, r, e, t)
<1> DEFINE n == NUM_LIN_PCP_QUERIES
           j == e * 6 + t
<1>0. n \in Nat \ {0} /\ Q7 \in Nat /\ Q7 = 6 * NUM_REPS_LIN /\ n = Q7 + 4 /\ NUM_REPS_LIN \in Nat /\ NUM_REPS_PCP \in Nat
  BY Counts
<1>1. j \in Nat /\ j < Q7 /\ j < n /\ j = 6 * e + t /\ e \in Nat /\ r \in Nat
  BY <1>0
<1>2. j % 6 = t /\ j \div 6 = e
  BY <1>1
<1>3. (j % 3 = 2) <=> t \in {2, 5}
  BY <1>1
<1>4. k \in AnswerIds /\ k \in Nat /\ k % n = j /\ k \div n = r
  <2>1. j \in 0 .. n - 1
    BY <1>0, <1>1
  <2>2. k = r * n + j
    BY <1>0, <1>1
  <2> QED
    BY <2>1, <2>2, RhoId
<1> HIDE DEF n, j
<1>5. IsThird(k) <=> t \in {2, 5}
  BY <1>1, <1>3, <1>4 DEF IsThird, n
<1>6. Vector(k) = IF t < 3 THEN 1 ELSE 2
  BY <1>1, <1>2, <1>4 DEF Vector, n
<1>7. \A s, bd : Query(s, bd, k) = LinQuery(s, r, e, t)
  BY <1>1, <1>2, <1>4 DEF Query, n
<1> QED
  BY <1>4, <1>5, <1>6, <1>7

\* The answers of the divisibility queries.
LEMMA DivId ==
    ASSUME NEW r \in 0 .. NUM_REPS_PCP - 1, NEW t \in 0 .. 3,
           NEW k, k = r * NUM_LIN_PCP_QUERIES + Q7 + t
    PROVE  /\ k \in AnswerIds /\ k \in Nat
           /\ ~ IsThird(k)
           /\ Vector(k) = IF t < 3 THEN 1 ELSE 2
           /\ \A s, bd : Query(s, bd, k) = DivQuery(s, bd, r, t)
<1> DEFINE n == NUM_LIN_PCP_QUERIES
           j == Q7 + t
<1>0. n \in Nat \ {0} /\ Q7 \in Nat /\ n = Q7 + 4 /\ NUM_REPS_PCP \in Nat /\ Q10 = Q7 + 3
  BY Counts
<1>1. j \in Nat /\ ~ (j < Q7) /\ j < n /\ j - Q7 = t /\ r \in Nat /\ (j < Q10 <=> t < 3)
  BY <1>0
<1>4. k \in AnswerIds /\ k \in Nat /\ k % n = j /\ k \div n = r
  <2>1. j \in 0 .. n - 1
    BY <1>0, <1>1
  <2>2. k = r * n + j
    BY <1>0, <1>1
  <2> QED
    BY <2>1, <2>2, RhoId
<1> HIDE DEF n, j
<1>5. ~ IsThird(k)
  BY <1>1, <1>4 DEF IsThird, n
<1>6. Vector(k) = IF t < 3 THEN 1 ELSE 2
  BY <1>1, <1>4 DEF Vector, n
<1>7. \A s, bd : Query(s, bd, k) = DivQuery(s, bd, r, t)
  BY <1>1, <1>4 DEF Query, n
<1> QED
  BY <1>4, <1>5, <1>6, <1>7

\* Every answer is one or the other.
LEMMA IdCases ==
    ASSUME NEW k \in AnswerIds
    PROVE  \E r \in 0 .. NUM_REPS_PCP - 1 :
             \/ \E e \in 0 .. NUM_REPS_LIN - 1, t \in 0 .. 5 : k = r * NUM_LIN_PCP_QUERIES + e * 6 + t
             \/ \E t \in 0 .. 3 : k = r * NUM_LIN_PCP_QUERIES + Q7 + t
<1> DEFINE n == NUM_LIN_PCP_QUERIES
<1>0. /\ n \in Nat \ {0} /\ Q7 \in Nat /\ Q7 = 6 * NUM_REPS_LIN /\ n = Q7 + 4 /\ NUM_REPS_LIN \in Nat
      /\ NUM_REPS_PCP \in Nat /\ k \in Nat /\ k < NUM_REPS_PCP * n
  BY Counts
<1> HIDE DEF n
<1>1. PICK r \in Nat, j \in Nat : j < n /\ k = n * r + j /\ r = k \div n
  BY <1>0, DivMod
<1>2. r < NUM_REPS_PCP
  BY <1>0, <1>1, BlockBelow
<1>3. r \in 0 .. NUM_REPS_PCP - 1 /\ n * r = r * n
  BY <1>0, <1>1, <1>2
<1>4. CASE j < Q7
  <2>1. PICK e \in Nat, t \in Nat : t < 6 /\ j = 6 * e + t
    <3>1. j \div 6 \in Nat /\ j % 6 \in Nat /\ j % 6 < 6 /\ j = 6 * (j \div 6) + (j % 6)
      OBVIOUS
    <3> QED
      BY <3>1
  <2>2. e \in 0 .. NUM_REPS_LIN - 1 /\ t \in 0 .. 5
    BY <1>0, <1>4, <2>1
  <2>3. k = r * n + e * 6 + t
    BY <1>0, <1>1, <1>3, <2>1
  <2> QED
    BY <1>3, <2>2, <2>3 DEF n
<1>5. CASE ~ (j < Q7)
  <2>1. PICK t \in 0 .. 3 : j = Q7 + t
    <3>1. j - Q7 \in 0 .. 3 /\ j = Q7 + (j - Q7)
      BY <1>0, <1>1, <1>5
    <3> QED
      BY <3>1
  <2>2. k = r * n + Q7 + t
    BY <1>0, <1>1, <1>3, <2>1
  <2> QED
    BY <1>3, <2>1, <2>2 DEF n
<1> QED
  BY <1>4, <1>5

\* Positions in the public stream, and how they follow each other.
LEMMA PosType ==
    ASSUME NEW r \in Nat, NEW e \in Nat
    PROVE  /\ Pos(r, e) \in Nat
           /\ Pos(r, e + 1) = Pos(r, e) + PerRep
           /\ Pos(r + 1, 0) = Pos(r, NUM_REPS_LIN) + 1
           /\ Pos(0, 0) = 0
<1>1. PerRep \in Nat /\ PerRho \in Nat /\ NUM_REPS_LIN \in Nat
  BY Counts
<1>2. PerRho = NUM_REPS_LIN * PerRep + 1
  BY DEF PerRho
<1>3. Pos(r, e) \in Nat
  BY <1>1 DEF Pos
<1>4. Pos(r, e + 1) = Pos(r, e) + PerRep
  <2>1. (e + 1) * PerRep = e * PerRep + PerRep
    BY <1>1
  <2>2. PICK x \in Nat, y \in Nat : x = r * PerRho /\ y = e * PerRep
    BY <1>1
  <2> QED
    BY <1>1, <2>1, <2>2 DEF Pos
<1>5. Pos(r + 1, 0) = Pos(r, NUM_REPS_LIN) + 1
  <2>1. (r + 1) * PerRho = r * PerRho + PerRho /\ 0 * PerRep = 0
    BY <1>1
  <2>2. PICK x \in Nat, y \in Nat : x = r * PerRho /\ y = NUM_REPS_LIN * PerRep
    BY <1>1
  <2> QED
    BY <1>1, <1>2, <2>1, <2>2 DEF Pos
<1>6. Pos(0, 0) = 0
  BY <1>1 DEF Pos
<1> QED
  BY <1>3, <1>4, <1>5, <1>6

\* The linearity queries are integers.
LEMMA LinType ==
    ASSUME NEW s \in Nat, NEW r \in Nat, NEW e \in Nat
    PROVE  /\ \A i \in 0 .. Size1 - 1 : Lin1(s, r, e).l1[i] \in Int /\ Lin1(s, r, e).l2[i] \in Int
           /\ \A i \in 0 .. Size2 - 1 : Lin2(s, r, e).l1[i] \in Int /\ Lin2(s, r, e).l2[i] \in Int
<1>1. Pos(r, e) \in Nat /\ Pos(r, e) + 2 * Size1 \in Nat
  BY PosType, Sizes
<1>2. ASSUME NEW p \in Nat, NEW n \in Nat, NEW i \in 0 .. n - 1
      PROVE  LinQueries(s, p, n).l1[i] \in Int /\ LinQueries(s, p, n).l2[i] \in Int
  <2>1. p + 2 * i \in Nat /\ p + 2 * i + 1 \in Nat
    OBVIOUS
  <2>2. Draw(s, p + 2 * i) \in Int /\ Draw(s, p + 2 * i + 1) \in Int
    BY <2>1, DrawType
  <2> QED
    BY <2>2 DEF LinQueries
<1>3. Size1 \in Nat /\ Size2 \in Nat
  BY Sizes
<1> QED
  BY <1>1, <1>2, <1>3 DEF Lin1, Lin2

\* So are the divisibility queries.
LEMMA DivType ==
    ASSUME NEW s \in Nat, NEW bd \in Builds, NEW r \in Nat
    PROVE  /\ \A i \in 0 .. Size1 - 1 : Div(s, bd, r).a[i] \in Int /\ Div(s, bd, r).b[i] \in Int /\ Div(s, bd, r).c[i] \in Int
           /\ \A i \in 0 .. Size2 - 1 : Div(s, bd, r).d[i] \in Int
<1> DEFINE tau == Draw(s, Pos(r, NUM_REPS_LIN))
           cr == Corr(s, r)
<1>1. NUM_REPS_LIN \in Nat
  BY Counts
<1>2. Pos(r, NUM_REPS_LIN) \in Nat
  BY <1>1, PosType
<1>3. tau \in Int
  BY <1>2, DrawType
<1>4. cr[1] = Lin1(s, r, 0).l1 /\ cr[2] = Lin2(s, r, 0).l1
  BY DEF Corr
<1>5. (\A i \in 0 .. Size1 - 1 : cr[1][i] \in Int) /\ (\A i \in 0 .. Size2 - 1 : cr[2][i] \in Int)
  BY <1>4, LinType
<1>6. Div(s, bd, r) = DivQueries(bd, tau, cr)
  BY DEF Div
<1> HIDE DEF tau, cr
<1> QED
  BY <1>3, <1>5, <1>6, DivQueriesType

\* What is asked is an integer at every position of its vector.
LEMMA AskedType ==
    ASSUME NEW s \in Nat, NEW bd \in Builds, NEW k \in AnswerIds, NEW i \in 0 .. Size(Vector(k)) - 1
    PROVE  Asked(s, bd, k, i) \in Int
<1> DEFINE n == NUM_LIN_PCP_QUERIES
<1>1. PICK r \in 0 .. NUM_REPS_PCP - 1 :
             \/ \E e \in 0 .. NUM_REPS_LIN - 1, t \in 0 .. 5 : k = r * n + e * 6 + t
             \/ \E t \in 0 .. 3 : k = r * n + Q7 + t
  BY IdCases
<1>2. r \in Nat
  BY Counts
<1>3. ASSUME NEW e \in 0 .. NUM_REPS_LIN - 1, NEW t \in 0 .. 5, k = r * n + e * 6 + t
      PROVE  Asked(s, bd, k, i) \in Int
  <2>0. e \in Nat
    BY Counts
  <2>1. e \in Nat /\ Vector(k) = IF t < 3 THEN 1 ELSE 2
    BY <1>3, <2>0, LinId
  <2>2. CASE t \in {2, 5}
    <3>1. IsThird(k)
      BY <1>3, <2>2, LinId
    <3>2. t - 2 \in 0 .. 5 /\ t - 1 \in 0 .. 5
      BY <2>2
    <3>3. k - 2 = r * n + e * 6 + (t - 2) /\ k - 1 = r * n + e * 6 + (t - 1)
      BY <1>2, <1>3, <2>1, Counts
    <3>4. Query(s, bd, k - 2) = LinQuery(s, r, e, t - 2)
      BY <3>2, <3>3, LinId
    <3>5. Query(s, bd, k - 1) = LinQuery(s, r, e, t - 1)
      BY <3>2, <3>3, LinId
    <3>6. LinQuery(s, r, e, t - 2)[i] \in Int /\ LinQuery(s, r, e, t - 1)[i] \in Int
      <4>1. CASE t = 2
        BY <1>2, <2>1, <4>1, LinType DEF LinQuery, Size
      <4>2. CASE t = 5
        BY <1>2, <2>1, <4>2, LinType DEF LinQuery, Size
      <4> QED
        BY <2>2, <4>1, <4>2
    <3> QED
      BY <3>1, <3>4, <3>5, <3>6 DEF Asked
  <2>3. CASE t \notin {2, 5}
    <3>1. ~ IsThird(k)
      BY <1>3, <2>3, LinId
    <3>2. Query(s, bd, k) = LinQuery(s, r, e, t)
      BY <1>3, LinId
    <3>3. LinQuery(s, r, e, t)[i] \in Int
      <4>1. t \in {0, 1, 3, 4}
        BY <2>3
      <4> QED
        BY <1>2, <2>1, <4>1, LinType DEF LinQuery, Size
    <3> QED
      BY <3>1, <3>2, <3>3 DEF Asked
  <2> QED
    BY <2>2, <2>3
<1>4. ASSUME NEW t \in 0 .. 3, k = r * n + Q7 + t
      PROVE  Asked(s, bd, k, i) \in Int
  <2>1. ~ IsThird(k) /\ Vector(k) = IF t < 3 THEN 1 ELSE 2
    BY <1>4, DivId
  <2>2. Query(s, bd, k) = DivQuery(s, bd, r, t)
    BY <1>4, DivId
  <2>3. DivQuery(s, bd, r, t)[i] \in Int
    BY <1>2, <2>1, DivType DEF DivQuery, Size
  <2> QED
    BY <2>1, <2>2, <2>3 DEF Asked
<1> QED
  BY <1>1, <1>3, <1>4

-----------------------------------------------------------------------------
(* Sums over the answers so far. *)

\* An answer's share: an integer, and 0 for the other vector.
LEMMA TermType ==
    ASSUME NEW c \in [AnswerIds -> Int], NEW s \in Nat, NEW bd \in Builds, NEW f \in {1, 2},
           NEW i \in 0 .. Size(f) - 1, NEW k \in AnswerIds
    PROVE  /\ Term(c, s, bd, f, i)[k] \in Int
           /\ Vector(k) = f => Term(c, s, bd, f, i)[k] = c[k] * Asked(s, bd, k, i)
           /\ Vector(k) # f => Term(c, s, bd, f, i)[k] = 0
<1>1. Term(c, s, bd, f, i)[k] = IF Vector(k) = f THEN c[k] * Asked(s, bd, k, i) ELSE 0
  BY DEF Term
<1>2. CASE Vector(k) = f
  <2>1. Asked(s, bd, k, i) \in Int
    BY <1>2, AskedType
  <2>2. c[k] \in Int
    OBVIOUS
  <2>3. c[k] * Asked(s, bd, k, i) \in Int
    BY <2>1, <2>2
  <2> QED
    BY <1>1, <1>2, <2>3
<1> QED
  BY <1>1, <1>2

\* One more value.
LEMMA SumNext ==
    ASSUME NEW g, NEW n \in Int, n >= -1, \A k \in 0 .. n + 1 : g[k] \in Int
    PROVE  /\ SumFunctionOnSet(g, 0 .. n) \in Int
           /\ SumFunctionOnSet(g, 0 .. n + 1) = SumFunctionOnSet(g, 0 .. n) + g[n + 1]
<1>1. IsFiniteSet(0 .. n) /\ n + 1 \notin 0 .. n /\ (0 .. n) \cup {n + 1} = 0 .. n + 1
  BY FS_Interval
<1>2. \A y \in (0 .. n) \cup {n + 1} : g[y] \in Int
  BY <1>1
<1>3. SumFunctionOnSet(g, (0 .. n) \cup {n + 1}) = g[n + 1] + SumFunctionOnSet(g, 0 .. n)
  BY <1>1, <1>2, SumAdd
<1>4. SumFunctionOnSet(g, 0 .. n) \in Int
  BY <1>1, <1>2, SumType
<1>5. g[n + 1] \in Int
  BY <1>1, <1>2
<1>6. SumFunctionOnSet(g, 0 .. n + 1) = SumFunctionOnSet(g, (0 .. n) \cup {n + 1})
  BY <1>1, Zenon
<1>7. PICK x \in Int, y \in Int : x = g[n + 1] /\ y = SumFunctionOnSet(g, 0 .. n)
  BY <1>4, <1>5
<1>8. SumFunctionOnSet(g, 0 .. n + 1) = y + x
  BY <1>3, <1>6, <1>7
<1> QED
  BY <1>7, <1>8

\* The ids below an id.
LEMMA IdsBelow ==
    ASSUME NEW m \in AnswerIds
    PROVE  \A k \in 0 .. m : k \in AnswerIds
<1>1. PICK n \in Nat : n = NUM_REPS_PCP * NUM_LIN_PCP_QUERIES
  BY Counts
<1>2. AnswerIds = 0 .. n - 1
  BY <1>1, Counts
<1> QED
  BY <1>2

\* Four more values, and six.
LEMMA SumFour ==
    ASSUME NEW g, NEW n \in Nat, \A k \in 0 .. n + 3 : g[k] \in Int
    PROVE  /\ SumFunctionOnSet(g, 0 .. n - 1) \in Int
           /\ SumFunctionOnSet(g, 0 .. n + 3)
                = SumFunctionOnSet(g, 0 .. n - 1) + g[n] + g[n + 1] + g[n + 2] + g[n + 3]
<1> DEFINE S(k) == SumFunctionOnSet(g, 0 .. k)
<1>1. ASSUME NEW k \in n - 1 .. n + 2 PROVE S(k) \in Int /\ S(k + 1) = S(k) + g[k + 1] /\ g[k + 1] \in Int
  <2>1. k \in Int /\ k >= -1 /\ k + 1 \in 0 .. n + 3 /\ \A m \in 0 .. k + 1 : m \in 0 .. n + 3
    OBVIOUS
  <2> QED
    BY <2>1, SumNext
<1> HIDE DEF S
<1>2. S(n - 1) \in Int /\ S(n) = S(n - 1) + g[n] /\ g[n] \in Int
  <2>1. n - 1 \in n - 1 .. n + 2 /\ (n - 1) + 1 = n
    OBVIOUS
  <2> QED
    BY <1>1, <2>1
<1>3. S(n + 1) = S(n) + g[n + 1] /\ g[n + 1] \in Int
  BY <1>1
<1>4. S(n + 2) = S(n + 1) + g[n + 2] /\ g[n + 2] \in Int
  <2>1. n + 1 \in n - 1 .. n + 2 /\ (n + 1) + 1 = n + 2
    OBVIOUS
  <2> QED
    BY <1>1, <2>1
<1>5. S(n + 3) = S(n + 2) + g[n + 3] /\ g[n + 3] \in Int
  <2>1. n + 2 \in n - 1 .. n + 2 /\ (n + 2) + 1 = n + 3
    OBVIOUS
  <2> QED
    BY <1>1, <2>1
<1>6. S(n + 3) = S(n - 1) + g[n] + g[n + 1] + g[n + 2] + g[n + 3]
  BY <1>2, <1>3, <1>4, <1>5
<1> QED
  BY <1>2, <1>6 DEF S

\* ... and six more.
LEMMA SumSix ==
    ASSUME NEW g, NEW n \in Nat, \A k \in 0 .. n + 5 : g[k] \in Int
    PROVE  /\ SumFunctionOnSet(g, 0 .. n - 1) \in Int
           /\ SumFunctionOnSet(g, 0 .. n + 5)
                = SumFunctionOnSet(g, 0 .. n - 1) + g[n] + g[n + 1] + g[n + 2] + g[n + 3] + g[n + 4] + g[n + 5]
<1> DEFINE S(k) == SumFunctionOnSet(g, 0 .. k)
<1>1. \A k \in 0 .. n + 3 : g[k] \in Int
  OBVIOUS
<1>2. S(n - 1) \in Int /\ S(n + 3) = S(n - 1) + g[n] + g[n + 1] + g[n + 2] + g[n + 3]
  BY <1>1, SumFour
<1>3. S(n + 3) \in Int /\ S(n + 4) = S(n + 3) + g[n + 4]
  <2>1. n + 3 \in Int /\ n + 3 >= -1 /\ (n + 3) + 1 = n + 4 /\ \A k \in 0 .. (n + 3) + 1 : g[k] \in Int
    OBVIOUS
  <2> QED
    BY <2>1, SumNext
<1>4. S(n + 5) = S(n + 4) + g[n + 5]
  <2>1. n + 4 \in Int /\ n + 4 >= -1 /\ (n + 4) + 1 = n + 5 /\ \A k \in 0 .. (n + 4) + 1 : g[k] \in Int
    OBVIOUS
  <2> QED
    BY <2>1, SumNext
<1>5. {g[n], g[n + 1], g[n + 2], g[n + 3], g[n + 4], g[n + 5]} \subseteq Int
  OBVIOUS
<1> HIDE DEF S
<1>6. S(n + 5) = S(n - 1) + g[n] + g[n + 1] + g[n + 2] + g[n + 3] + g[n + 4] + g[n + 5]
  BY <1>2, <1>3, <1>4, <1>5
<1> QED
  BY <1>2, <1>6 DEF S

\* The first answer of a linearity repetition that is about F1, and about F2,
\* and the queries.
FirstOf(f, n) == IF f = 1 THEN n ELSE n + 3
LinOf(s, r, e, f) == IF f = 1 THEN Lin1(s, r, e) ELSE Lin2(s, r, e)

\* With the coins d the answers from n on add the linearity queries to a
\* vector's sum over the coins c.
LinShare(c, d, s, bd, r, e, n, f, i) ==
    LET m == FirstOf(f, n)
        q == LinOf(s, r, e, f)
    IN  SumFunctionOnSet(Term(d, s, bd, f, i), 0 .. n + 5)
          = SumFunctionOnSet(Term(c, s, bd, f, i), 0 .. n - 1)
              + (d[m] + d[m + 2]) * q.l1[i] + (d[m + 1] + d[m + 2]) * q.l2[i]

\* A vector's share of a linearity repetition.
LEMMA ConLin ==
    ASSUME NEW c \in [AnswerIds -> Int], NEW d \in [AnswerIds -> Int], NEW s \in Nat, NEW bd \in Builds,
           NEW r \in 0 .. NUM_REPS_PCP - 1, NEW e \in 0 .. NUM_REPS_LIN - 1,
           NEW n \in Nat, n = r * NUM_LIN_PCP_QUERIES + e * 6, \A k \in 0 .. n - 1 : d[k] = c[k],
           NEW f \in {1, 2}, NEW i \in 0 .. Size(f) - 1
    PROVE  LinShare(c, d, s, bd, r, e, n, f, i)
<1> DEFINE g == Term(d, s, bd, f, i)
           h == Term(c, s, bd, f, i)
<1>a. PICK m, q : m = FirstOf(f, n) /\ q = LinOf(s, r, e, f)
  OBVIOUS
<1>b. m = (IF f = 1 THEN n ELSE n + 3) /\ q = IF f = 1 THEN Lin1(s, r, e) ELSE Lin2(s, r, e)
  BY <1>a DEF FirstOf, LinOf
<1>0. r \in Nat /\ e \in Nat /\ r * NUM_LIN_PCP_QUERIES \in Nat /\ AnswerIds = 0 .. NUM_REPS_PCP * NUM_LIN_PCP_QUERIES - 1
      /\ NUM_REPS_PCP * NUM_LIN_PCP_QUERIES \in Nat
  BY Counts
<1>1. \A t \in 0 .. 5 : n + t = r * NUM_LIN_PCP_QUERIES + e * 6 + t
  BY <1>0
<1>2. \A t \in 0 .. 5 : n + t \in AnswerIds /\ (IsThird(n + t) <=> t \in {2, 5})
                          /\ Vector(n + t) = (IF t < 3 THEN 1 ELSE 2)
                          /\ Query(s, bd, n + t) = LinQuery(s, r, e, t)
  BY <1>1, LinId
<1>3. \A k \in 0 .. n + 5 : k \in AnswerIds
  <2>1. n + 5 \in AnswerIds
    BY <1>2
  <2> QED
    BY <2>1, IdsBelow
<1>4. \A k \in 0 .. n + 5 : g[k] \in Int /\ h[k] \in Int
  BY <1>3, TermType
<1>5. SumFunctionOnSet(g, 0 .. n - 1) = SumFunctionOnSet(h, 0 .. n - 1)
  <2>1. IsFiniteSet(0 .. n - 1)
    BY FS_Interval
  <2>2. ASSUME NEW k \in 0 .. n - 1 PROVE g[k] \in Int /\ h[k] = g[k]
    <3>1. k \in AnswerIds /\ g[k] \in Int /\ d[k] = c[k]
      BY <1>3, <1>4
    <3>2. h[k] = g[k]
      BY <3>1, TermType
    <3> QED
      BY <3>1, <3>2
  <2> HIDE DEF g, h
  <2> QED
    BY <2>1, <2>2, SumSame
<1>6. /\ SumFunctionOnSet(g, 0 .. n - 1) \in Int
      /\ SumFunctionOnSet(g, 0 .. n + 5)
           = SumFunctionOnSet(g, 0 .. n - 1) + g[n] + g[n + 1] + g[n + 2] + g[n + 3] + g[n + 4] + g[n + 5]
  <2> HIDE DEF g, h
  <2> QED
    BY <1>4, SumSix
<1>7. \A t \in 0 .. 5 : IF Vector(n + t) = f THEN g[n + t] = d[n + t] * Asked(s, bd, n + t, i) ELSE g[n + t] = 0
  BY <1>2, TermType
<1>8. /\ Asked(s, bd, n, i) = LinQuery(s, r, e, 0)[i] /\ Asked(s, bd, n + 1, i) = LinQuery(s, r, e, 1)[i]
      /\ Asked(s, bd, n + 2, i) = LinQuery(s, r, e, 0)[i] + LinQuery(s, r, e, 1)[i]
      /\ Asked(s, bd, n + 3, i) = LinQuery(s, r, e, 3)[i] /\ Asked(s, bd, n + 4, i) = LinQuery(s, r, e, 4)[i]
      /\ Asked(s, bd, n + 5, i) = LinQuery(s, r, e, 3)[i] + LinQuery(s, r, e, 4)[i]
  <2>1. n + 0 = n /\ (n + 2) - 2 = n /\ (n + 2) - 1 = n + 1 /\ (n + 5) - 2 = n + 3 /\ (n + 5) - 1 = n + 4
    OBVIOUS
  <2>2. ~ IsThird(n) /\ ~ IsThird(n + 1) /\ IsThird(n + 2) /\ ~ IsThird(n + 3) /\ ~ IsThird(n + 4) /\ IsThird(n + 5)
    BY <1>2, <2>1
  <2>3. /\ Query(s, bd, n) = LinQuery(s, r, e, 0) /\ Query(s, bd, n + 1) = LinQuery(s, r, e, 1)
        /\ Query(s, bd, n + 3) = LinQuery(s, r, e, 3) /\ Query(s, bd, n + 4) = LinQuery(s, r, e, 4)
    BY <1>2, <2>1
  <2> QED
    BY <2>1, <2>2, <2>3 DEF Asked
<1>9. \A t \in 0 .. 5 : d[n + t] \in Int
  BY <1>2
<1>10. /\ Vector(n) = 1 /\ Vector(n + 1) = 1 /\ Vector(n + 2) = 1
       /\ Vector(n + 3) = 2 /\ Vector(n + 4) = 2 /\ Vector(n + 5) = 2
  <2>1. n + 0 = n
    OBVIOUS
  <2> QED
    BY <1>2, <2>1
<1>11. CASE f = 1
  <2>1. PICK x \in Int, y \in Int : x = q.l1[i] /\ y = q.l2[i]
    BY <1>0, <1>b, <1>11, LinType DEF Size
  <2>2. LinQuery(s, r, e, 0)[i] = x /\ LinQuery(s, r, e, 1)[i] = y
    BY <1>b, <1>11, <2>1 DEF LinQuery
  <2>3. PICK u \in Int, v \in Int, w \in Int : u = d[n] /\ v = d[n + 1] /\ w = d[n + 2]
    <3>1. n + 0 = n
      OBVIOUS
    <3> QED
      BY <1>9, <3>1
  <2>4. g[n] = u * x /\ g[n + 1] = v * y /\ g[n + 2] = w * (x + y) /\ g[n + 3] = 0 /\ g[n + 4] = 0 /\ g[n + 5] = 0
    <3> HIDE DEF g
    <3>1. n + 0 = n
      OBVIOUS
    <3> QED
      BY <1>7, <1>8, <1>10, <1>11, <2>2, <2>3, <3>1
  <2>5. u * x + v * y + w * (x + y) = (u + w) * x + (v + w) * y
    OBVIOUS
  <2>6. PICK z \in Int : z = SumFunctionOnSet(g, 0 .. n - 1)
    BY <1>6
  <2>7. SumFunctionOnSet(g, 0 .. n + 5) = z + (u + w) * x + (v + w) * y
    <3> HIDE DEF g
    <3>1. PICK a1 \in Int, a2 \in Int, a3 \in Int : a1 = u * x /\ a2 = v * y /\ a3 = w * (x + y)
      OBVIOUS
    <3>2. PICK b1 \in Int, b2 \in Int : b1 = (u + w) * x /\ b2 = (v + w) * y
      OBVIOUS
    <3>3. a1 + a2 + a3 = b1 + b2
      BY <2>5, <3>1, <3>2
    <3>4. SumFunctionOnSet(g, 0 .. n + 5) = z + a1 + a2 + a3 + 0 + 0 + 0
      <4>1. g[n] = a1 /\ g[n + 1] = a2 /\ g[n + 2] = a3 /\ g[n + 3] = 0 /\ g[n + 4] = 0 /\ g[n + 5] = 0
        BY <2>4, <3>1
      <4> QED
        BY <1>6, <2>6, <4>1, Zenon
    <3>5. SumFunctionOnSet(g, 0 .. n + 5) = z + b1 + b2
      BY <3>3, <3>4
    <3> QED
      BY <3>2, <3>5
  <2>8. m = n
    BY <1>b, <1>11
  <2> HIDE DEF g, h
  <2>9. SumFunctionOnSet(g, 0 .. n + 5) = SumFunctionOnSet(h, 0 .. n - 1) + (d[m] + d[m + 2]) * q.l1[i] + (d[m + 1] + d[m + 2]) * q.l2[i]
    BY <1>5, <2>1, <2>3, <2>6, <2>7, <2>8
  <2> QED
    BY <1>a, <2>9 DEF g, h, LinShare
<1>12. CASE f = 2
  <2>1. PICK x \in Int, y \in Int : x = q.l1[i] /\ y = q.l2[i]
    BY <1>0, <1>b, <1>12, LinType DEF Size
  <2>2. LinQuery(s, r, e, 3)[i] = x /\ LinQuery(s, r, e, 4)[i] = y
    BY <1>b, <1>12, <2>1 DEF LinQuery
  <2>3. PICK u \in Int, v \in Int, w \in Int : u = d[n + 3] /\ v = d[n + 4] /\ w = d[n + 5]
    BY <1>9
  <2>4. g[n + 3] = u * x /\ g[n + 4] = v * y /\ g[n + 5] = w * (x + y) /\ g[n] = 0 /\ g[n + 1] = 0 /\ g[n + 2] = 0
    <3> HIDE DEF g
    <3>1. n + 0 = n
      OBVIOUS
    <3> QED
      BY <1>7, <1>8, <1>10, <1>12, <2>2, <2>3, <3>1
  <2>5. u * x + v * y + w * (x + y) = (u + w) * x + (v + w) * y
    OBVIOUS
  <2>6. PICK z \in Int : z = SumFunctionOnSet(g, 0 .. n - 1)
    BY <1>6
  <2>7. SumFunctionOnSet(g, 0 .. n + 5) = z + (u + w) * x + (v + w) * y
    <3> HIDE DEF g
    <3>1. PICK a1 \in Int, a2 \in Int, a3 \in Int : a1 = u * x /\ a2 = v * y /\ a3 = w * (x + y)
      OBVIOUS
    <3>2. PICK b1 \in Int, b2 \in Int : b1 = (u + w) * x /\ b2 = (v + w) * y
      OBVIOUS
    <3>3. a1 + a2 + a3 = b1 + b2
      BY <2>5, <3>1, <3>2
    <3>4. SumFunctionOnSet(g, 0 .. n + 5) = z + 0 + 0 + 0 + a1 + a2 + a3
      <4>1. g[n] = 0 /\ g[n + 1] = 0 /\ g[n + 2] = 0 /\ g[n + 3] = a1 /\ g[n + 4] = a2 /\ g[n + 5] = a3
        BY <2>4, <3>1
      <4> QED
        BY <1>6, <2>6, <4>1, Zenon
    <3>5. SumFunctionOnSet(g, 0 .. n + 5) = z + b1 + b2
      BY <3>3, <3>4
    <3> QED
      BY <3>2, <3>5
  <2>8. m = n + 3 /\ m + 1 = n + 4 /\ m + 2 = n + 5
    BY <1>b, <1>12
  <2> HIDE DEF g, h
  <2>9. SumFunctionOnSet(g, 0 .. n + 5) = SumFunctionOnSet(h, 0 .. n - 1) + (d[m] + d[m + 2]) * q.l1[i] + (d[m + 1] + d[m + 2]) * q.l2[i]
    BY <1>5, <2>1, <2>3, <2>6, <2>7, <2>8
  <2> QED
    BY <1>a, <2>9 DEF g, h, LinShare
<1> QED
  BY <1>11, <1>12

\* The same for the divisibility queries.
DivShare(c, d, s, bd, r, n, f, i, q) ==
    SumFunctionOnSet(Term(d, s, bd, f, i), 0 .. n + 3)
      = SumFunctionOnSet(Term(c, s, bd, f, i), 0 .. n - 1)
          + (IF f = 1 THEN d[n] * q.a[i] + d[n + 1] * q.b[i] + d[n + 2] * q.c[i] ELSE d[n + 3] * q.d[i])

\* A vector's share of the divisibility queries of a rho.
LEMMA ConDiv ==
    ASSUME NEW c \in [AnswerIds -> Int], NEW d \in [AnswerIds -> Int], NEW s \in Nat, NEW bd \in Builds,
           NEW r \in 0 .. NUM_REPS_PCP - 1,
           NEW n \in Nat, n = r * NUM_LIN_PCP_QUERIES + Q7, \A k \in 0 .. n - 1 : d[k] = c[k],
           NEW f \in {1, 2}, NEW i \in 0 .. Size(f) - 1,
           NEW q, q = Div(s, bd, r)
    PROVE  DivShare(c, d, s, bd, r, n, f, i, q)
<1> DEFINE g == Term(d, s, bd, f, i)
           h == Term(c, s, bd, f, i)
<1>0. r \in Nat /\ Q7 \in Nat /\ r * NUM_LIN_PCP_QUERIES \in Nat /\ AnswerIds = 0 .. NUM_REPS_PCP * NUM_LIN_PCP_QUERIES - 1
      /\ NUM_REPS_PCP * NUM_LIN_PCP_QUERIES \in Nat
  BY Counts
<1>1. \A t \in 0 .. 3 : n + t = r * NUM_LIN_PCP_QUERIES + Q7 + t
  BY <1>0
<1>2. \A t \in 0 .. 3 : n + t \in AnswerIds /\ ~ IsThird(n + t)
                          /\ Vector(n + t) = (IF t < 3 THEN 1 ELSE 2)
                          /\ Query(s, bd, n + t) = DivQuery(s, bd, r, t)
  BY <1>1, DivId
<1>3. \A k \in 0 .. n + 3 : k \in AnswerIds
  <2>1. n + 3 \in AnswerIds
    BY <1>2
  <2> QED
    BY <2>1, IdsBelow
<1>4. \A k \in 0 .. n + 3 : g[k] \in Int /\ h[k] \in Int
  BY <1>3, TermType
<1>5. SumFunctionOnSet(g, 0 .. n - 1) = SumFunctionOnSet(h, 0 .. n - 1)
  <2>1. IsFiniteSet(0 .. n - 1)
    BY FS_Interval
  <2>2. ASSUME NEW k \in 0 .. n - 1 PROVE g[k] \in Int /\ h[k] = g[k]
    <3>1. k \in AnswerIds /\ g[k] \in Int /\ d[k] = c[k]
      BY <1>3, <1>4
    <3>2. h[k] = g[k]
      BY <3>1, TermType
    <3> QED
      BY <3>1, <3>2
  <2> HIDE DEF g, h
  <2> QED
    BY <2>1, <2>2, SumSame
<1>6. /\ SumFunctionOnSet(g, 0 .. n - 1) \in Int
      /\ SumFunctionOnSet(g, 0 .. n + 3)
           = SumFunctionOnSet(g, 0 .. n - 1) + g[n] + g[n + 1] + g[n + 2] + g[n + 3]
  <2> HIDE DEF g, h
  <2> QED
    BY <1>4, SumFour
<1>7. \A t \in 0 .. 3 : IF Vector(n + t) = f THEN g[n + t] = d[n + t] * Asked(s, bd, n + t, i) ELSE g[n + t] = 0
  BY <1>2, TermType
<1>8. \A t \in 0 .. 3 : Asked(s, bd, n + t, i) = DivQuery(s, bd, r, t)[i]
  BY <1>2 DEF Asked
<1>9. \A t \in 0 .. 3 : d[n + t] \in Int
  BY <1>2
<1>10. Vector(n) = 1 /\ Vector(n + 1) = 1 /\ Vector(n + 2) = 1 /\ Vector(n + 3) = 2 /\ n + 0 = n
  <2>1. n + 0 = n
    OBVIOUS
  <2> QED
    BY <1>2, <2>1
<1>11. CASE f = 1
  <2>1. PICK x \in Int, y \in Int, z \in Int : x = q.a[i] /\ y = q.b[i] /\ z = q.c[i]
    <3>1. i \in 0 .. Size1 - 1
      BY <1>11 DEF Size
    <3>2. r \in Nat
      BY <1>0
    <3>3. Div(s, bd, r).a[i] \in Int /\ Div(s, bd, r).b[i] \in Int /\ Div(s, bd, r).c[i] \in Int
      BY <3>1, <3>2, DivType
    <3> QED
      BY <3>3, Zenon
  <2>2. DivQuery(s, bd, r, 0)[i] = x /\ DivQuery(s, bd, r, 1)[i] = y /\ DivQuery(s, bd, r, 2)[i] = z
    BY <2>1 DEF DivQuery
  <2>3. PICK u \in Int, v \in Int, w \in Int : u = d[n] /\ v = d[n + 1] /\ w = d[n + 2]
    BY <1>9, <1>10
  <2> HIDE DEF g, h
  <2>4. g[n] = u * x /\ g[n + 1] = v * y /\ g[n + 2] = w * z /\ g[n + 3] = 0
    BY <1>7, <1>8, <1>10, <1>11, <2>2, <2>3
  <2>5. PICK a1 \in Int, a2 \in Int, a3 \in Int, a4 \in Int :
           a1 = u * x /\ a2 = v * y /\ a3 = w * z /\ a4 = SumFunctionOnSet(g, 0 .. n - 1)
    BY <1>6
  <2>6. SumFunctionOnSet(g, 0 .. n + 3) = SumFunctionOnSet(h, 0 .. n - 1)
          + (d[n] * q.a[i] + d[n + 1] * q.b[i] + d[n + 2] * q.c[i])
    <3>0. g[n] = a1 /\ g[n + 1] = a2 /\ g[n + 2] = a3 /\ g[n + 3] = 0
      BY <2>4, <2>5
    <3>1. SumFunctionOnSet(g, 0 .. n + 3) = a4 + a1 + a2 + a3 + 0
      BY <1>6, <2>5, <3>0, Zenon
    <3>2. SumFunctionOnSet(g, 0 .. n + 3) = a4 + (a1 + a2 + a3)
      BY <3>1
    <3>3. a1 = d[n] * q.a[i] /\ a2 = d[n + 1] * q.b[i] /\ a3 = d[n + 2] * q.c[i]
      BY <2>1, <2>3, <2>5
    <3>4. a4 = SumFunctionOnSet(h, 0 .. n - 1)
      BY <1>5, <2>5
    <3> QED
      BY <3>2, <3>3, <3>4, Zenon
  <2> QED
    BY <1>11, <2>6 DEF g, h, DivShare
<1>12. CASE f = 2
  <2>1. PICK x \in Int : x = q.d[i]
    <3>1. i \in 0 .. Size2 - 1
      BY <1>12 DEF Size
    <3>2. r \in Nat
      BY <1>0
    <3>3. Div(s, bd, r).d[i] \in Int
      BY <3>1, <3>2, DivType
    <3> QED
      BY <3>3, Zenon
  <2>2. DivQuery(s, bd, r, 3)[i] = x
    BY <2>1 DEF DivQuery
  <2>3. PICK u \in Int : u = d[n + 3]
    BY <1>9
  <2> HIDE DEF g, h
  <2>4. g[n] = 0 /\ g[n + 1] = 0 /\ g[n + 2] = 0 /\ g[n + 3] = u * x
    BY <1>7, <1>8, <1>10, <1>12, <2>2, <2>3
  <2>5. PICK a1 \in Int, a4 \in Int : a1 = u * x /\ a4 = SumFunctionOnSet(g, 0 .. n - 1)
    BY <1>6
  <2>6. SumFunctionOnSet(g, 0 .. n + 3) = SumFunctionOnSet(h, 0 .. n - 1) + d[n + 3] * q.d[i]
    BY <1>5, <1>6, <2>1, <2>3, <2>4, <2>5
  <2> QED
    BY <1>12, <2>6 DEF g, h, DivShare
<1> QED
  BY <1>11, <1>12

\* A sum of zeros.
LEMMA SumZero ==
    ASSUME NEW S, IsFiniteSet(S), NEW g, \A x \in S : g[x] = 0
    PROVE  SumFunctionOnSet(g, S) = 0
<1>1. \A x \in S : g[x] \in Int /\ g[x] = (-1) * g[x] + g[x]
  OBVIOUS
<1>2. SumFunctionOnSet(g, S) \in Int
  BY <1>1, SumType
<1>3. SumFunctionOnSet(g, S) = (-1) * SumFunctionOnSet(g, S) + SumFunctionOnSet(g, S)
  BY <1>1, SumLinear
<1> QED
  BY <1>2, <1>3

-----------------------------------------------------------------------------
(* The inductive invariant. *)

\* Answers whose queries were built, in the phase the protocol is in.
Done == rho * NUM_LIN_PCP_QUERIES + rep * NUM_LIN_QUERIES

\* The two consistency queries are vectors of integers.
ConShape == DOMAIN con = {1, 2} /\ con[1] \in [0 .. Size1 - 1 -> Int] /\ con[2] \in [0 .. Size2 - 1 -> Int]

\* The types of what the argument is about.
Types ==
    /\ pub \in Nat /\ priv \in Nat /\ build \in Builds
    /\ rho \in 0 .. NUM_REPS_PCP - 1 /\ rep \in 0 .. NUM_REPS_LIN
    /\ coins \in [AnswerIds -> Int] /\ kdrawn \in Nat
    /\ ConShape
    /\ pc \in {"commitment_query", "computation", "commitment"} => rho = 0 /\ rep = 0

\* The verifier is as far in the stream and in the coins as in the answers.
VerifierPlace ==
    /\ pc \in {"commitment_query", "computation", "commitment", "verifier_queries"} =>
         /\ filled = Done - 1
         /\ vdrawn = Pos(rho, rep)
         /\ pdrawn = 0
         /\ rep > 0 => corr = Corr(pub, rho)
    /\ pc \in {"prover_queries", "answers"} => filled = NUM_REPS_PCP * NUM_LIN_PCP_QUERIES - 1

\* The consistency queries so far.
ConsistencySoFar ==
    pc \in {"computation", "commitment", "verifier_queries", "prover_queries", "answers"} =>
      \A f \in {1, 2} : \A i \in 0 .. Size(f) - 1 :
        con[f][i] = Secret(priv, f, i) + SumFunctionOnSet(Term(coins, pub, build, f, i), 0 .. filled)

\* The prover's queries of the answers below n.
Dumped(n) ==
    \A k \in 0 .. n - 1 : ~ IsThird(k) => k \in DOMAIN queries /\ queries[k] = Query(pub, build, k)

\* The prover is as far in its copy of the stream as in its query files.
ProverPlace ==
    /\ pc = "prover_queries" =>
         /\ pdrawn = Pos(rho, rep)
         /\ rep > 0 => pcorr = Corr(pub, rho)
         /\ Dumped(Done)
    /\ pc = "answers" => Dumped(NUM_REPS_PCP * NUM_LIN_PCP_QUERIES)

\* The inductive invariant.
ZInv == Types /\ VerifierPlace /\ ConsistencySoFar /\ ProverPlace

-----------------------------------------------------------------------------
(* Every step keeps it. *)

\* Done, by its counters.
LEMMA DoneIs ==
    ASSUME Types
    PROVE  Done = rho * NUM_LIN_PCP_QUERIES + rep * 6 /\ Done \in Nat /\ rho \in Nat /\ rep \in Nat
           /\ rho * NUM_LIN_PCP_QUERIES \in Nat
<1>1. rho \in Nat /\ rep \in Nat /\ NUM_LIN_PCP_QUERIES \in Nat
  BY Counts DEF Types
<1>2. PICK x \in Nat : x = rho * NUM_LIN_PCP_QUERIES
  BY <1>1
<1> QED
  BY <1>1, <1>2 DEF Done, NUM_LIN_QUERIES

\* Both sides start at the beginning of their streams.
LEMMA InitOk == Init => ZInv
<1> SUFFICES ASSUME Init PROVE ZInv
  OBVIOUS
<1> USE DEF Init, VerifierInit, ProverInit
<1>1. Types
  <2>1. pub \in Nat /\ priv \in Nat /\ build \in Builds /\ kdrawn \in Nat
    BY ZaatarAssumption
  <2>2. rho \in 0 .. NUM_REPS_PCP - 1 /\ rep \in 0 .. NUM_REPS_LIN /\ rho = 0 /\ rep = 0
    BY Counts
  <2>3. coins \in [AnswerIds -> Int]
    OBVIOUS
  <2>4. ConShape
    BY DEF ConShape, ZeroVec, Size
  <2> QED
    BY <2>1, <2>2, <2>3, <2>4 DEF Types
<1>2. VerifierPlace
  <2>1. Done = 0
    BY Counts DEF Done, NUM_LIN_QUERIES
  <2>2. Pos(0, 0) = 0
    BY PosType
  <2> QED
    BY <2>1, <2>2 DEF VerifierPlace
<1>3. ConsistencySoFar
  BY DEF ConsistencySoFar
<1>4. ProverPlace
  BY DEF ProverPlace
<1> QED
  BY <1>1, <1>2, <1>3, <1>4 DEF ZInv

\* Only the position in the protocol and what the invariant does not speak of.
LEMMA Moves ==
    ASSUME ZInv, UNCHANGED <<build, pub, priv, rho, rep, verifierQ, proverQ>>,
           \/ pc' = pc
           \/ pc = "computation" /\ pc' = "commitment"
           \/ pc = "commitment" /\ pc' = "verifier_queries"
           \/ pc' \in {"exit", "tests", "done"}
    PROVE  ZInv'
<1> USE DEF verifierQ, proverQ
<1>1. Types'
  BY DEF ZInv, Types, ConShape
<1>2. Done' = Done
  BY DEF Done
<1>3. VerifierPlace'
  BY <1>2 DEF ZInv, VerifierPlace
<1>4. ConsistencySoFar'
  BY DEF ZInv, ConsistencySoFar
<1>6. ProverPlace'
  <2>1. Dumped(Done)' <=> Dumped(Done)
    BY <1>2 DEF Dumped
  <2>2. Dumped(NUM_REPS_PCP * NUM_LIN_PCP_QUERIES)' <=> Dumped(NUM_REPS_PCP * NUM_LIN_PCP_QUERIES)
    BY DEF Dumped
  <2> QED
    BY <2>1, <2>2 DEF ZInv, ProverPlace
<1> QED
  BY <1>1, <1>3, <1>4, <1>6 DEF ZInv

\* create_commitment_query starts the consistency queries at the secret vectors.
LEMMA CommitmentOk == ZInv /\ create_commitment_query => ZInv'
<1> SUFFICES ASSUME ZInv, create_commitment_query PROVE ZInv'
  OBVIOUS
<1> USE DEF create_commitment_query, proverQ
<1>1. priv \in Nat /\ Types /\ rho = 0 /\ rep = 0
  BY DEF ZInv, Types
<1>2. ASSUME NEW f \in {1, 2}, NEW i \in 0 .. Size(f) - 1
      PROVE  con'[f][i] = Secret(priv, f, i) /\ Secret(priv, f, i) \in Int
  <2>1. con'[f][i] = Secret(priv, f, i)
    BY DEF Secret
  <2>2. (IF f = 1 THEN 0 ELSE Size1) + i \in Nat
    BY Sizes DEF Size
  <2>3. Secret(priv, f, i) \in Int
    BY <1>1, <2>2, DrawType DEF Secret
  <2> QED
    BY <2>1, <2>3
<1>3. ConShape'
  <2>1. DOMAIN con' = {1, 2} /\ \A f \in {1, 2} : con'[f] = [i \in 0 .. Size(f) - 1 |-> con'[f][i]]
    OBVIOUS
  <2>2. \A f \in {1, 2} : con'[f] \in [0 .. Size(f) - 1 -> Int]
    BY <1>2, <2>1
  <2> QED
    BY <2>1, <2>2 DEF ConShape, Size
<1>4. Types'
  <2>1. kdrawn' \in Nat
    BY Sizes
  <2> QED
    BY <1>1, <1>3, <2>1 DEF Types
<1>5. Done' = Done /\ Done = 0
  BY <1>1, Counts DEF Done, NUM_LIN_QUERIES
<1>6. VerifierPlace'
  BY <1>5 DEF ZInv, VerifierPlace
<1>7. ConsistencySoFar'
  <2>1. filled = -1
    BY <1>5 DEF ZInv, VerifierPlace
  <2>2. filled' = -1 /\ 0 .. -1 = {}
    BY <2>1
  <2>3. ASSUME NEW f \in {1, 2}, NEW i \in 0 .. Size(f) - 1
        PROVE  con'[f][i] = Secret(priv', f, i) + SumFunctionOnSet(Term(coins', pub', build', f, i), 0 .. filled')
    <3>1. SumFunctionOnSet(Term(coins', pub', build', f, i), 0 .. filled') = 0
      BY <2>2, SumEmpty
    <3>2. PICK x \in Int : x = Secret(priv, f, i)
      BY <1>2
    <3>3. con'[f][i] = x + 0
      BY <1>2, <3>2
    <3> QED
      BY <3>1, <3>2, <3>3
  <2> QED
    BY <2>3 DEF ConsistencySoFar
<1>8. ProverPlace'
  BY DEF ProverPlace
<1> QED
  BY <1>4, <1>6, <1>7, <1>8 DEF ZInv

\* What the coins of n more answers are.
LEMMA FillIs ==
    ASSUME Types, filled \in Int, filled >= -1, NEW n \in Nat
    PROVE  /\ Fill(n) \in [AnswerIds -> Int]
           /\ \A k \in AnswerIds : k <= filled => Fill(n)[k] = coins[k]
           /\ \A j \in 0 .. n - 1 : filled + 1 + j \in AnswerIds => Fill(n)[filled + 1 + j] = Draw(priv, kdrawn + j)
<1>1. priv \in Nat /\ kdrawn \in Nat /\ coins \in [AnswerIds -> Int]
  BY DEF Types
<1>2. AnswerIds \subseteq Nat
  BY Counts
<1>3. \A k \in AnswerIds : Fill(n)[k] = IF k \in filled + 1 .. filled + n
                                THEN Draw(priv, kdrawn + k - (filled + 1)) ELSE coins[k]
  BY DEF Fill
<1>4. ASSUME NEW k \in AnswerIds PROVE Fill(n)[k] \in Int
  <2>1. CASE k \in filled + 1 .. filled + n
    <3>1. kdrawn + k - (filled + 1) \in Nat
      BY <1>1, <1>2, <2>1
    <3>2. Draw(priv, kdrawn + k - (filled + 1)) \in Int
      BY <1>1, <3>1, DrawType
    <3> QED
      BY <1>3, <2>1, <3>2
  <2>2. CASE k \notin filled + 1 .. filled + n
    BY <1>1, <1>3, <2>2
  <2> QED
    BY <2>1, <2>2
<1>5. Fill(n) \in [AnswerIds -> Int]
  <2>1. Fill(n) = [k \in AnswerIds |-> Fill(n)[k]]
    BY DEF Fill
  <2> QED
    BY <1>4, <2>1
<1>6. \A k \in AnswerIds : k <= filled => k \notin filled + 1 .. filled + n
  BY <1>2
<1>7. ASSUME NEW j \in 0 .. n - 1, filled + 1 + j \in AnswerIds
      PROVE  Fill(n)[filled + 1 + j] = Draw(priv, kdrawn + j)
  <2>1. filled + 1 + j \in filled + 1 .. filled + n /\ kdrawn + (filled + 1 + j) - (filled + 1) = kdrawn + j
    BY <1>1
  <2> QED
    BY <1>3, <1>7, <2>1
<1> QED
  BY <1>3, <1>5, <1>6, <1>7

\* The secret vector and the sums so far are integers.
LEMMA SoFarType ==
    ASSUME Types, NEW n \in Nat, n \in AnswerIds, NEW f \in {1, 2}, NEW i \in 0 .. Size(f) - 1
    PROVE  /\ Secret(priv, f, i) \in Int
           /\ SumFunctionOnSet(Term(coins, pub, build, f, i), 0 .. n - 1) \in Int
<1>1. priv \in Nat /\ pub \in Nat /\ build \in Builds /\ coins \in [AnswerIds -> Int]
  BY DEF Types
<1>2. (IF f = 1 THEN 0 ELSE Size1) + i \in Nat
  BY Sizes DEF Size
<1>3. Secret(priv, f, i) \in Int
  BY <1>1, <1>2, DrawType DEF Secret
<1>4. \A k \in 0 .. n : k \in AnswerIds
  BY IdsBelow
<1>5. \A k \in 0 .. n - 1 : Term(coins, pub, build, f, i)[k] \in Int
  <2>1. \A k \in 0 .. n - 1 : k \in AnswerIds
    BY <1>4
  <2> QED
    BY <1>1, <2>1, TermType
<1>6. IsFiniteSet(0 .. n - 1)
  BY FS_Interval
<1>7. SumFunctionOnSet(Term(coins, pub, build, f, i), 0 .. n - 1) \in Int
  BY <1>5, <1>6, SumType
<1> QED
  BY <1>3, <1>7

\* A linearity repetition of create_plain_queries adds, with the coins of its six
\* answers, exactly the queries those answers are asked.
LEMMA VerifierLinOk == ZInv /\ VerifierLinQueries => ZInv'
<1> SUFFICES ASSUME ZInv, VerifierLinQueries PROVE ZInv'
  OBVIOUS
<1> DEFINE n == Done
           q1 == LinQueries(pub, vdrawn, Size1)
           q2 == LinQueries(pub, vdrawn + 2 * Size1, Size2)
           c1 == [j \in 1 .. 3 |-> Draw(priv, kdrawn + j - 1)]
           c2 == [j \in 1 .. 3 |-> Draw(priv, kdrawn + 3 + j - 1)]
<1>1. /\ pc = "verifier_queries" /\ rep < NUM_REPS_LIN
      /\ coins' = Fill(6)
      /\ con' = [con EXCEPT ![1] = AddLin(con[1], c1, q1), ![2] = AddLin(con[2], c2, q2)]
      /\ corr' = (IF rep = 0 THEN <<q1.l1, q2.l1>> ELSE corr)
      /\ vdrawn' = vdrawn + 2 * (Size1 + Size2)
      /\ kdrawn' = kdrawn + 6
      /\ filled' = filled + 6
      /\ rep' = rep + 1
      /\ UNCHANGED <<pc, build, pub, priv, rho, pdrawn>>
  BY DEF VerifierLinQueries, proverQ
<1> HIDE DEF q1, q2, c1, c2
<1>2. Types /\ filled = n - 1 /\ vdrawn = Pos(rho, rep) /\ pdrawn = 0 /\ (rep > 0 => corr = Corr(pub, rho))
  BY <1>1 DEF ZInv, VerifierPlace
<1>3. /\ n = rho * NUM_LIN_PCP_QUERIES + rep * 6 /\ n \in Nat /\ rho \in Nat /\ rep \in Nat
      /\ rho * NUM_LIN_PCP_QUERIES \in Nat
  BY <1>2, DoneIs
<1>4. rep \in 0 .. NUM_REPS_LIN - 1 /\ rho \in 0 .. NUM_REPS_PCP - 1 /\ pub \in Nat /\ priv \in Nat /\ build \in Builds
      /\ kdrawn \in Nat /\ coins \in [AnswerIds -> Int]
  BY <1>1, <1>2, Counts DEF Types
<1>5. Done' = n + 6
  <2>1. Done' = rho * NUM_LIN_PCP_QUERIES + (rep + 1) * 6
    BY <1>1 DEF Done, NUM_LIN_QUERIES
  <2> QED
    BY <1>3, <2>1
<1> HIDE DEF n
<1>6. q1 = Lin1(pub, rho, rep) /\ q2 = Lin2(pub, rho, rep)
  BY <1>2 DEF q1, q2, Lin1, Lin2
<1>7. \A j \in 0 .. 5 : n + j \in AnswerIds
  <2>1. \A j \in 0 .. 5 : n + j = rho * NUM_LIN_PCP_QUERIES + rep * 6 + j
    BY <1>3
  <2> QED
    BY <1>4, <2>1, LinId
<1>8. /\ coins' \in [AnswerIds -> Int]
      /\ \A k \in 0 .. n - 1 : coins'[k] = coins[k]
      /\ \A j \in 0 .. 5 : coins'[n + j] = Draw(priv, kdrawn + j)
  <2>1. filled \in Int /\ filled >= -1 /\ filled + 1 = n
    BY <1>2, <1>3
  <2>2. \A k \in 0 .. n - 1 : k \in AnswerIds /\ k <= filled
    <3>1. n + 0 \in AnswerIds /\ n + 0 = n
      BY <1>3, <1>7
    <3>2. \A k \in 0 .. n : k \in AnswerIds
      BY <3>1, IdsBelow
    <3> QED
      BY <1>2, <1>3, <3>2
  <2>3. /\ Fill(6) \in [AnswerIds -> Int]
        /\ \A k \in AnswerIds : k <= filled => Fill(6)[k] = coins[k]
        /\ \A j \in 0 .. 6 - 1 : filled + 1 + j \in AnswerIds => Fill(6)[filled + 1 + j] = Draw(priv, kdrawn + j)
    <3>1. 6 \in Nat
      OBVIOUS
    <3> QED
      BY <1>2, <2>1, <3>1, FillIs, Zenon
  <2> QED
    BY <1>1, <1>7, <2>1, <2>2, <2>3
<1>9. /\ c1[1] = coins'[n] /\ c1[2] = coins'[n + 1] /\ c1[3] = coins'[n + 2]
      /\ c2[1] = coins'[n + 3] /\ c2[2] = coins'[n + 4] /\ c2[3] = coins'[n + 5]
  <2>1. /\ c1[1] = Draw(priv, kdrawn + 1 - 1) /\ c1[2] = Draw(priv, kdrawn + 2 - 1) /\ c1[3] = Draw(priv, kdrawn + 3 - 1)
        /\ c2[1] = Draw(priv, kdrawn + 3 + 1 - 1) /\ c2[2] = Draw(priv, kdrawn + 3 + 2 - 1)
        /\ c2[3] = Draw(priv, kdrawn + 3 + 3 - 1)
    BY DEF c1, c2
  <2>2. /\ kdrawn + 1 - 1 = kdrawn + 0 /\ kdrawn + 2 - 1 = kdrawn + 1 /\ kdrawn + 3 - 1 = kdrawn + 2
        /\ kdrawn + 3 + 1 - 1 = kdrawn + 3 /\ kdrawn + 3 + 2 - 1 = kdrawn + 4 /\ kdrawn + 3 + 3 - 1 = kdrawn + 5
        /\ n + 0 = n
    BY <1>3, <1>4
  <2>3. /\ coins'[n + 0] = Draw(priv, kdrawn + 0) /\ coins'[n + 1] = Draw(priv, kdrawn + 1)
        /\ coins'[n + 2] = Draw(priv, kdrawn + 2) /\ coins'[n + 3] = Draw(priv, kdrawn + 3)
        /\ coins'[n + 4] = Draw(priv, kdrawn + 4) /\ coins'[n + 5] = Draw(priv, kdrawn + 5)
    BY <1>8
  <2> QED
    BY <2>1, <2>2, <2>3
<1>10. \A j \in 0 .. 5 : coins'[n + j] \in Int
  BY <1>7, <1>8
<1> DEFINE m(f) == IF f = 1 THEN n ELSE n + 3
           q(f) == IF f = 1 THEN q1 ELSE q2
<1>11. ASSUME NEW f \in {1, 2}, NEW i \in 0 .. Size(f) - 1
       PROVE  /\ con'[f][i] = con[f][i] + (coins'[m(f)] + coins'[m(f) + 2]) * q(f).l1[i]
                                + (coins'[m(f) + 1] + coins'[m(f) + 2]) * q(f).l2[i]
              /\ con[f][i] \in Int /\ q(f).l1[i] \in Int /\ q(f).l2[i] \in Int
              /\ coins'[m(f)] \in Int /\ coins'[m(f) + 1] \in Int /\ coins'[m(f) + 2] \in Int
              /\ m(f) \in Nat
  <2>1. DOMAIN con = {1, 2} /\ con[1] \in [0 .. Size1 - 1 -> Int] /\ con[2] \in [0 .. Size2 - 1 -> Int]
    BY <1>2 DEF Types, ConShape
  <2>2. con'[1] = AddLin(con[1], c1, q1) /\ con'[2] = AddLin(con[2], c2, q2)
    BY <1>1, <2>1
  <2>3. n + 0 = n /\ (n + 3) + 1 = n + 4 /\ (n + 3) + 2 = n + 5
    BY <1>3
  <2>4. CASE f = 1
    <3>1. con'[1][i] = con[1][i] + (c1[1] + c1[3]) * q1.l1[i] + (c1[2] + c1[3]) * q1.l2[i]
      BY <2>1, <2>2, <2>4 DEF AddLin, Size
    <3>2. con[1][i] \in Int
      BY <2>1, <2>4 DEF Size
    <3>3. q1.l1[i] \in Int /\ q1.l2[i] \in Int
      BY <1>3, <1>4, <1>6, <2>4, LinType DEF Size
    <3>4. m(f) = n /\ q(f) = q1
      BY <2>4
    <3>5. coins'[n] \in Int /\ coins'[n + 1] \in Int /\ coins'[n + 2] \in Int
      BY <1>10, <2>3
    <3> HIDE DEF m, q
    <3> QED
      BY <1>3, <1>9, <2>4, <3>1, <3>2, <3>3, <3>4, <3>5
  <2>5. CASE f = 2
    <3>1. con'[2][i] = con[2][i] + (c2[1] + c2[3]) * q2.l1[i] + (c2[2] + c2[3]) * q2.l2[i]
      BY <2>1, <2>2, <2>5 DEF AddLin, Size
    <3>2. con[2][i] \in Int
      BY <2>1, <2>5 DEF Size
    <3>3. q2.l1[i] \in Int /\ q2.l2[i] \in Int
      <4>1. i \in 0 .. Size2 - 1
        BY <2>5 DEF Size
      <4> QED
        BY <1>3, <1>4, <1>6, <4>1, LinType
    <3>4. m(f) = n + 3 /\ q(f) = q2 /\ m(f) + 1 = n + 4 /\ m(f) + 2 = n + 5
      BY <2>3, <2>5
    <3>5. coins'[n + 3] \in Int /\ coins'[n + 4] \in Int /\ coins'[n + 5] \in Int
      BY <1>10
    <3>6. n + 3 \in Nat
      BY <1>3
    <3> HIDE DEF m, q
    <3> QED
      BY <1>9, <2>5, <3>1, <3>2, <3>3, <3>4, <3>5, <3>6
  <2> QED
    BY <2>4, <2>5
<1> HIDE DEF m, q
<1>12. ConShape'
  <2>1. DOMAIN con' = {1, 2} /\ con'[1] = AddLin(con[1], c1, q1) /\ con'[2] = AddLin(con[2], c2, q2)
    BY <1>1, <1>2 DEF Types, ConShape
  <2>2. DOMAIN con[1] = 0 .. Size1 - 1 /\ DOMAIN con[2] = 0 .. Size2 - 1
    BY <1>2 DEF Types, ConShape
  <2>3. con'[1] = [i \in 0 .. Size1 - 1 |-> con'[1][i]] /\ con'[2] = [i \in 0 .. Size2 - 1 |-> con'[2][i]]
    BY <2>1, <2>2 DEF AddLin
  <2>4. ASSUME NEW f \in {1, 2}, NEW i \in 0 .. Size(f) - 1 PROVE con'[f][i] \in Int
    <3>1. PICK x \in Int, y \in Int, z \in Int, u \in Int, v \in Int, w \in Int :
             /\ x = con[f][i] /\ y = q(f).l1[i] /\ z = q(f).l2[i]
             /\ u = coins'[m(f)] /\ v = coins'[m(f) + 1] /\ w = coins'[m(f) + 2]
      BY <1>11
    <3>2. con'[f][i] = x + (u + w) * y + (v + w) * z
      BY <1>11, <3>1
    <3>3. x + (u + w) * y + (v + w) * z \in Int
      OBVIOUS
    <3> QED
      BY <3>2, <3>3
  <2>5. (\A i \in 0 .. Size1 - 1 : con'[1][i] \in Int) /\ (\A i \in 0 .. Size2 - 1 : con'[2][i] \in Int)
    BY <2>4 DEF Size
  <2> QED
    BY <2>1, <2>3, <2>5 DEF ConShape
<1>13. Types'
  <2>1. kdrawn' \in Nat /\ rep' \in 0 .. NUM_REPS_LIN
    BY <1>1, <1>3, <1>4, Counts
  <2> QED
    BY <1>1, <1>2, <1>8, <1>12, <2>1 DEF Types
<1>14. VerifierPlace'
  <2>1. filled' = Done' - 1
    BY <1>1, <1>2, <1>3, <1>5
  <2>2. vdrawn' = Pos(rho, rep + 1)
    BY <1>1, <1>2, <1>3, PosType DEF PerRep
  <2>3. corr' = Corr(pub, rho)
    <3>1. CASE rep = 0
      BY <1>1, <1>6, <3>1 DEF Corr
    <3>2. CASE rep # 0
      BY <1>1, <1>2, <1>3, <3>2
    <3> QED
      BY <3>1, <3>2
  <2> QED
    BY <1>1, <1>2, <2>1, <2>2, <2>3 DEF VerifierPlace
<1>15. ConsistencySoFar'
  <2> SUFFICES ASSUME NEW f \in {1, 2}, NEW i \in 0 .. Size(f) - 1
               PROVE  con'[f][i] = Secret(priv, f, i) + SumFunctionOnSet(Term(coins', pub, build, f, i), 0 .. filled')
    BY <1>1 DEF ConsistencySoFar
  <2>1. con[f][i] = Secret(priv, f, i) + SumFunctionOnSet(Term(coins, pub, build, f, i), 0 .. n - 1)
    BY <1>1, <1>2 DEF ZInv, ConsistencySoFar
  <2>2. SumFunctionOnSet(Term(coins', pub, build, f, i), 0 .. n + 5)
             = SumFunctionOnSet(Term(coins, pub, build, f, i), 0 .. n - 1)
                 + (coins'[m(f)] + coins'[m(f) + 2]) * q(f).l1[i] + (coins'[m(f) + 1] + coins'[m(f) + 2]) * q(f).l2[i]
    <3>1. LinShare(coins, coins', pub, build, rho, rep, n, f, i)
      BY <1>3, <1>4, <1>8, ConLin
    <3>2. m(f) = FirstOf(f, n) /\ q(f) = LinOf(pub, rho, rep, f)
      BY <1>6 DEF m, q, FirstOf, LinOf
    <3> QED
      BY <3>1, <3>2 DEF LinShare
  <2>3. filled' = n + 5
    BY <1>1, <1>2, <1>3
  <2>6. PICK x \in Int, y \in Int : x = Secret(priv, f, i) /\ y = SumFunctionOnSet(Term(coins, pub, build, f, i), 0 .. n - 1)
    <3>1. n \in AnswerIds
      <4>1. n + 0 \in AnswerIds /\ n + 0 = n
        BY <1>3, <1>7
      <4> QED
        BY <4>1
    <3> QED
      BY <1>2, <1>3, <3>1, SoFarType
  <2>7. PICK a \in Int, b \in Int :
           /\ a = (coins'[m(f)] + coins'[m(f) + 2]) * q(f).l1[i]
           /\ b = (coins'[m(f) + 1] + coins'[m(f) + 2]) * q(f).l2[i]
    <3>1. (coins'[m(f)] + coins'[m(f) + 2]) * q(f).l1[i] \in Int
      BY <1>11
    <3>2. (coins'[m(f) + 1] + coins'[m(f) + 2]) * q(f).l2[i] \in Int
      BY <1>11
    <3> QED
      BY <3>1, <3>2
  <2>8. con'[f][i] = (x + y) + a + b
    <3>1. con'[f][i] = con[f][i] + a + b
      BY <1>11, <2>7
    <3> QED
      BY <2>1, <2>6, <3>1
  <2>9. SumFunctionOnSet(Term(coins', pub, build, f, i), 0 .. filled') = y + a + b
    BY <2>2, <2>3, <2>6, <2>7
  <2>10. (x + y) + a + b = x + (y + a + b)
    OBVIOUS
  <2> QED
    BY <2>6, <2>8, <2>9, <2>10
<1>16. ProverPlace'
  BY <1>1 DEF ProverPlace
<1> QED
  BY <1>13, <1>14, <1>15, <1>16 DEF ZInv

\* So do the divisibility queries, hidden by the first linearity queries of the rho.
LEMMA VerifierDivOk == ZInv /\ VerifierDivQueries => ZInv'
<1> SUFFICES ASSUME ZInv, VerifierDivQueries PROVE ZInv'
  OBVIOUS
<1> DEFINE n == Done
           q == DivQueries(build, Draw(pub, vdrawn), corr)
           c == [j \in 1 .. 4 |-> Draw(priv, kdrawn + j - 1)]
           a1 == [i \in DOMAIN con[1] |-> con[1][i] + c[1] * q.a[i] + c[2] * q.b[i] + c[3] * q.c[i]]
           a2 == [i \in DOMAIN con[2] |-> con[2][i] + c[4] * q.d[i]]
<1>1. /\ pc = "verifier_queries" /\ rep = NUM_REPS_LIN
      /\ coins' = Fill(4)
      /\ con' = [con EXCEPT ![1] = a1, ![2] = a2]
      /\ vdrawn' = vdrawn + 1
      /\ kdrawn' = kdrawn + 4
      /\ filled' = filled + 4
      /\ NextRho("prover_queries")
      /\ UNCHANGED <<build, pub, priv, corr, pdrawn>>
  BY DEF VerifierDivQueries, proverQ
<1>2. Types /\ filled = n - 1 /\ vdrawn = Pos(rho, rep) /\ pdrawn = 0 /\ (rep > 0 => corr = Corr(pub, rho))
  BY <1>1 DEF ZInv, VerifierPlace
<1> HIDE DEF q, c
<1>3. /\ n = rho * NUM_LIN_PCP_QUERIES + Q7 /\ n \in Nat /\ rho \in Nat
      /\ rho * NUM_LIN_PCP_QUERIES \in Nat
  <2>1. n = rho * NUM_LIN_PCP_QUERIES + rep * 6 /\ n \in Nat /\ rho \in Nat /\ rho * NUM_LIN_PCP_QUERIES \in Nat
    BY <1>2, DoneIs
  <2> QED
    BY <1>1, <2>1, Counts
<1>4. rho \in 0 .. NUM_REPS_PCP - 1 /\ pub \in Nat /\ priv \in Nat /\ build \in Builds
      /\ kdrawn \in Nat /\ coins \in [AnswerIds -> Int]
  BY <1>2 DEF Types
<1> HIDE DEF n
<1>6. q = Div(pub, build, rho)
  <2>1. rep > 0
    BY <1>1, Counts
  <2> QED
    BY <1>1, <1>2, <2>1 DEF q, Div
<1>7. \A j \in 0 .. 3 : n + j \in AnswerIds
  <2>1. \A j \in 0 .. 3 : n + j = rho * NUM_LIN_PCP_QUERIES + Q7 + j
    BY <1>3, Counts
  <2> QED
    BY <1>4, <2>1, DivId
<1>7a. n \in AnswerIds /\ \A k \in 0 .. n - 1 : k \in AnswerIds
  <2>1. n + 0 \in AnswerIds /\ n + 0 = n
    BY <1>3, <1>7
  <2>2. \A k \in 0 .. n : k \in AnswerIds
    BY <2>1, IdsBelow
  <2> QED
    BY <1>3, <2>1, <2>2
<1>8. /\ coins' \in [AnswerIds -> Int]
      /\ \A k \in 0 .. n - 1 : coins'[k] = coins[k]
      /\ \A j \in 0 .. 3 : coins'[n + j] = Draw(priv, kdrawn + j)
  <2>1. filled \in Int /\ filled >= -1 /\ filled + 1 = n /\ 4 \in Nat
    BY <1>2, <1>3
  <2>2. \A k \in 0 .. n - 1 : k \in AnswerIds /\ k <= filled
    BY <1>2, <1>3, <1>7a
  <2>3. /\ Fill(4) \in [AnswerIds -> Int]
        /\ \A k \in AnswerIds : k <= filled => Fill(4)[k] = coins[k]
        /\ \A j \in 0 .. 4 - 1 : filled + 1 + j \in AnswerIds => Fill(4)[filled + 1 + j] = Draw(priv, kdrawn + j)
    BY <1>2, <2>1, FillIs, Zenon
  <2> QED
    BY <1>1, <1>7, <2>1, <2>2, <2>3
<1>9. c[1] = coins'[n] /\ c[2] = coins'[n + 1] /\ c[3] = coins'[n + 2] /\ c[4] = coins'[n + 3]
  <2>1. /\ c[1] = Draw(priv, kdrawn + 1 - 1) /\ c[2] = Draw(priv, kdrawn + 2 - 1)
        /\ c[3] = Draw(priv, kdrawn + 3 - 1) /\ c[4] = Draw(priv, kdrawn + 4 - 1)
    BY DEF c
  <2>2. /\ kdrawn + 1 - 1 = kdrawn + 0 /\ kdrawn + 2 - 1 = kdrawn + 1 /\ kdrawn + 3 - 1 = kdrawn + 2
        /\ kdrawn + 4 - 1 = kdrawn + 3 /\ n + 0 = n
    BY <1>3, <1>4
  <2>3. /\ coins'[n + 0] = Draw(priv, kdrawn + 0) /\ coins'[n + 1] = Draw(priv, kdrawn + 1)
        /\ coins'[n + 2] = Draw(priv, kdrawn + 2) /\ coins'[n + 3] = Draw(priv, kdrawn + 3)
    BY <1>8
  <2> QED
    BY <2>1, <2>2, <2>3
<1>10. coins'[n] \in Int /\ coins'[n + 1] \in Int /\ coins'[n + 2] \in Int /\ coins'[n + 3] \in Int
  <2>1. n + 0 = n
    BY <1>3
  <2> QED
    BY <1>7, <1>8, <2>1
<1> DEFINE share(f, i) == IF f = 1 THEN coins'[n] * q.a[i] + coins'[n + 1] * q.b[i] + coins'[n + 2] * q.c[i]
                          ELSE coins'[n + 3] * q.d[i]
<1>11. ASSUME NEW f \in {1, 2}, NEW i \in 0 .. Size(f) - 1
       PROVE  con'[f][i] = con[f][i] + share(f, i) /\ con[f][i] \in Int /\ share(f, i) \in Int
  <2>1. DOMAIN con = {1, 2} /\ con[1] \in [0 .. Size1 - 1 -> Int] /\ con[2] \in [0 .. Size2 - 1 -> Int]
    BY <1>2 DEF Types, ConShape
  <2>2. con'[1] = a1 /\ con'[2] = a2
    BY <1>1, <2>1
  <2>4. CASE f = 1
    <3>0. i \in 0 .. Size1 - 1
      BY <2>4 DEF Size
    <3>1. con'[1][i] = con[1][i] + c[1] * q.a[i] + c[2] * q.b[i] + c[3] * q.c[i]
      BY <2>1, <2>2, <3>0
    <3>2. PICK y \in Int : y = con[1][i]
      BY <2>1, <3>0
    <3>3. q.a[i] \in Int /\ q.b[i] \in Int /\ q.c[i] \in Int
      BY <1>3, <1>4, <1>6, <3>0, DivType
    <3>4. PICK u \in Int, v \in Int, w \in Int : u = c[1] * q.a[i] /\ v = c[2] * q.b[i] /\ w = c[3] * q.c[i]
      <4>1. c[1] * q.a[i] \in Int /\ c[2] * q.b[i] \in Int /\ c[3] * q.c[i] \in Int
        BY <1>9, <1>10, <3>3
      <4> QED
        BY <4>1
    <3>5. share(f, i) = u + v + w
      BY <1>9, <2>4, <3>4
    <3>6. con'[1][i] = y + u + v + w
      BY <3>1, <3>2, <3>4
    <3> HIDE DEF share
    <3>7. con'[1][i] = y + (u + v + w)
      BY <3>6
    <3> QED
      BY <2>4, <3>2, <3>5, <3>7
  <2>5. CASE f = 2
    <3>0. i \in 0 .. Size2 - 1
      BY <2>5 DEF Size
    <3>1. con'[2][i] = con[2][i] + c[4] * q.d[i]
      BY <2>1, <2>2, <3>0
    <3>2. con[2][i] \in Int
      BY <2>1, <3>0
    <3>3. q.d[i] \in Int
      BY <1>3, <1>4, <1>6, <3>0, DivType
    <3>4. c[4] * q.d[i] \in Int
      BY <1>9, <1>10, <3>3
    <3>5. share(f, i) = c[4] * q.d[i]
      BY <1>9, <2>5
    <3> HIDE DEF share
    <3> QED
      BY <2>5, <3>1, <3>2, <3>4, <3>5
  <2> QED
    BY <2>4, <2>5
<1>12. ConShape'
  <2>1. DOMAIN con' = {1, 2} /\ con'[1] = a1 /\ con'[2] = a2
    BY <1>1, <1>2 DEF Types, ConShape
  <2>2. DOMAIN con[1] = 0 .. Size1 - 1 /\ DOMAIN con[2] = 0 .. Size2 - 1
    BY <1>2 DEF Types, ConShape
  <2>3. con'[1] = [i \in 0 .. Size1 - 1 |-> con'[1][i]] /\ con'[2] = [i \in 0 .. Size2 - 1 |-> con'[2][i]]
    BY <2>1, <2>2
  <2> HIDE DEF share
  <2>4. \A f \in {1, 2} : \A i \in 0 .. Size(f) - 1 : con'[f][i] \in Int
    BY <1>11
  <2>5. (\A i \in 0 .. Size1 - 1 : con'[1][i] \in Int) /\ (\A i \in 0 .. Size2 - 1 : con'[2][i] \in Int)
    BY <2>4 DEF Size
  <2> QED
    BY <2>1, <2>3, <2>5 DEF ConShape
<1> HIDE DEF share, a1, a2
<1>13. ASSUME NEW f \in {1, 2}, NEW i \in 0 .. Size(f) - 1
       PROVE  con'[f][i] = Secret(priv, f, i) + SumFunctionOnSet(Term(coins', pub, build, f, i), 0 .. filled')
  <2>1. con[f][i] = Secret(priv, f, i) + SumFunctionOnSet(Term(coins, pub, build, f, i), 0 .. n - 1)
    BY <1>1, <1>2 DEF ZInv, ConsistencySoFar
  <2>2. SumFunctionOnSet(Term(coins', pub, build, f, i), 0 .. n + 3)
             = SumFunctionOnSet(Term(coins, pub, build, f, i), 0 .. n - 1) + share(f, i)
    <3>1. DivShare(coins, coins', pub, build, rho, n, f, i, q)
      BY <1>3, <1>4, <1>6, <1>8, ConDiv
    <3> QED
      BY <3>1 DEF DivShare, share
  <2>3. filled' = n + 3
    BY <1>1, <1>2, <1>3
  <2>4. PICK x \in Int, y \in Int : x = Secret(priv, f, i) /\ y = SumFunctionOnSet(Term(coins, pub, build, f, i), 0 .. n - 1)
    BY <1>2, <1>3, <1>7a, SoFarType
  <2>5. PICK z \in Int : z = share(f, i)
    BY <1>11
  <2>6. con'[f][i] = (x + y) + z
    BY <1>11, <2>1, <2>4, <2>5
  <2>7. SumFunctionOnSet(Term(coins', pub, build, f, i), 0 .. filled') = y + z
    BY <2>2, <2>3, <2>4, <2>5
  <2>8. (x + y) + z = x + (y + z)
    OBVIOUS
  <2> QED
    BY <2>4, <2>6, <2>7, <2>8
<1>14. ConsistencySoFar'
  BY <1>1, <1>13 DEF ConsistencySoFar
<1>15. kdrawn' \in Nat /\ n + 4 = (rho + 1) * NUM_LIN_PCP_QUERIES /\ filled' = n + 3
  <2>1. (rho + 1) * NUM_LIN_PCP_QUERIES = rho * NUM_LIN_PCP_QUERIES + NUM_LIN_PCP_QUERIES
    BY <1>3, Counts
  <2> QED
    BY <1>1, <1>2, <1>3, <1>4, <2>1, Counts
<1>16. CASE rho < NUM_REPS_PCP - 1
  <2>1. rep' = 0 /\ rho' = rho + 1 /\ pc' = "verifier_queries"
    BY <1>1, <1>16 DEF NextRho
  <2>2. Types'
    <3>1. rho' \in 0 .. NUM_REPS_PCP - 1 /\ rep' \in 0 .. NUM_REPS_LIN
      BY <1>3, <1>16, <2>1, Counts
    <3> QED
      BY <1>1, <1>4, <1>8, <1>12, <1>15, <2>1, <3>1 DEF Types
  <2>3. Done' = n + 4
    <3>1. Done' = rho' * NUM_LIN_PCP_QUERIES + rep' * 6
      BY DEF Done, NUM_LIN_QUERIES
    <3>2. PICK x \in Int : x = (rho + 1) * NUM_LIN_PCP_QUERIES
      BY <1>3, <1>15
    <3> QED
      BY <1>15, <2>1, <3>1, <3>2
  <2>4. VerifierPlace'
    <3>1. filled' = Done' - 1
      BY <1>3, <1>15, <2>3
    <3>2. vdrawn' = Pos(rho + 1, 0)
      <4>1. Pos(rho + 1, 0) = Pos(rho, NUM_REPS_LIN) + 1
        BY <1>3, PosType
      <4> QED
        BY <1>1, <1>2, <4>1
    <3> QED
      BY <1>1, <1>2, <2>1, <3>1, <3>2 DEF VerifierPlace
  <2>5. ProverPlace'
    BY <2>1 DEF ProverPlace
  <2> QED
    BY <1>14, <2>2, <2>4, <2>5 DEF ZInv
<1>17. CASE ~ (rho < NUM_REPS_PCP - 1)
  <2>1. rep' = 0 /\ rho' = 0 /\ pc' = "prover_queries"
    BY <1>1, <1>17 DEF NextRho
  <2>2. Types'
    <3>1. rho' \in 0 .. NUM_REPS_PCP - 1 /\ rep' \in 0 .. NUM_REPS_LIN
      BY <2>1, Counts
    <3> QED
      BY <1>1, <1>4, <1>8, <1>12, <1>15, <2>1, <3>1 DEF Types
  <2>3. rho + 1 = NUM_REPS_PCP
    BY <1>4, <1>17, Counts
  <2>4. VerifierPlace'
    <3>1. n + 4 = NUM_REPS_PCP * NUM_LIN_PCP_QUERIES
      BY <1>15, <2>3
    <3>2. filled' = NUM_REPS_PCP * NUM_LIN_PCP_QUERIES - 1
      BY <1>3, <1>15, <3>1
    <3> QED
      BY <2>1, <3>2 DEF VerifierPlace
  <2>5. ProverPlace'
    <3>1. Pos(0, 0) = 0
      BY PosType
    <3>2. Done' = 0
      BY <2>1, Counts DEF Done, NUM_LIN_QUERIES
    <3>3. Dumped(Done)'
      <4>1. 0 .. Done' - 1 = {}
        BY <3>2
      <4> QED
        BY <4>1 DEF Dumped
    <3> QED
      BY <1>1, <1>2, <2>1, <3>1, <3>3 DEF ProverPlace
  <2> QED
    BY <1>14, <2>2, <2>4, <2>5 DEF ZInv
<1> QED
  BY <1>16, <1>17

\* deduce_queries takes the same values of its own copy of the stream.
LEMMA ProverLinOk == ZInv /\ ProverLinQueries => ZInv'
<1> SUFFICES ASSUME ZInv, ProverLinQueries PROVE ZInv'
  OBVIOUS
<1> DEFINE n == Done
           q1 == LinQueries(pub, pdrawn, Size1)
           q2 == LinQueries(pub, pdrawn + 2 * Size1, Size2)
           qs == [j \in {0, 1, 3, 4} |-> CASE j = 0 -> q1.l1 [] j = 1 -> q1.l2
                                           [] j = 3 -> q2.l1 [] j = 4 -> q2.l2]
<1>1. /\ pc = "prover_queries" /\ rep < NUM_REPS_LIN
      /\ queries' = Dump(rep * NUM_LIN_QUERIES, qs)
      /\ pcorr' = (IF rep = 0 THEN <<q1.l1, q2.l1>> ELSE pcorr)
      /\ pdrawn' = pdrawn + 2 * (Size1 + Size2)
      /\ rep' = rep + 1
      /\ UNCHANGED <<pc, build, pub, priv, rho, verifierQ>>
  BY DEF ProverLinQueries
<1> HIDE DEF q1, q2
<1>2. Types /\ pdrawn = Pos(rho, rep) /\ (rep > 0 => pcorr = Corr(pub, rho)) /\ Dumped(n)
  BY <1>1 DEF ZInv, ProverPlace
<1>3. /\ n = rho * NUM_LIN_PCP_QUERIES + rep * 6 /\ n \in Nat /\ rho \in Nat /\ rep \in Nat
      /\ rho * NUM_LIN_PCP_QUERIES \in Nat
  BY <1>2, DoneIs
<1>4. rep \in 0 .. NUM_REPS_LIN - 1 /\ rho \in 0 .. NUM_REPS_PCP - 1
  <2>1. rep < NUM_REPS_LIN /\ rep \in Nat /\ NUM_REPS_LIN \in Nat
    BY <1>1, <1>3, Counts
  <2>2. rho \in 0 .. NUM_REPS_PCP - 1
    BY <1>2 DEF Types
  <2> QED
    BY <2>1, <2>2
<1>5. Done' = n + 6
  <2>1. Done' = rho * NUM_LIN_PCP_QUERIES + (rep + 1) * 6
    BY <1>1 DEF Done, NUM_LIN_QUERIES
  <2> QED
    BY <1>3, <2>1
<1>6. q1 = Lin1(pub, rho, rep) /\ q2 = Lin2(pub, rho, rep)
  BY <1>2 DEF q1, q2, Lin1, Lin2
<1>7. queries' = [k \in DOMAIN queries \union {n + j : j \in {0, 1, 3, 4}} |->
                    IF k - n \in {0, 1, 3, 4} THEN qs[k - n] ELSE queries[k]]
  <2>1. rho * NUM_LIN_PCP_QUERIES + rep * NUM_LIN_QUERIES = n /\ DOMAIN qs = {0, 1, 3, 4}
    BY <1>3 DEF NUM_LIN_QUERIES
  <2> HIDE DEF n, qs
  <2> QED
    BY <1>1, <2>1 DEF Dump
<1>8. qs[0] = q1.l1 /\ qs[1] = q1.l2 /\ qs[3] = q2.l1 /\ qs[4] = q2.l2
  OBVIOUS
<1> HIDE DEF n, qs
<1>9. ASSUME NEW k \in 0 .. n + 5, ~ IsThird(k)
      PROVE  k \in DOMAIN queries' /\ queries'[k] = Query(pub, build, k)
  <2>1. CASE k < n
    <3>1. k \in 0 .. n - 1 /\ k - n \notin {0, 1, 3, 4}
      BY <1>3, <2>1
    <3>2. k \in DOMAIN queries /\ queries[k] = Query(pub, build, k)
      BY <1>2, <1>9, <3>1 DEF Dumped
    <3> QED
      BY <1>7, <3>1, <3>2
  <2>2. CASE k >= n
    <3>1. PICK j \in 0 .. 5 : k = n + j /\ j = k - n
      <4>1. k - n \in 0 .. 5 /\ k = n + (k - n)
        BY <1>3, <2>2
      <4> QED
        BY <4>1
    <3>2. k = rho * NUM_LIN_PCP_QUERIES + rep * 6 + j
      BY <1>3, <3>1
    <3>3. (IsThird(k) <=> j \in {2, 5}) /\ Query(pub, build, k) = LinQuery(pub, rho, rep, j)
      BY <1>4, <3>2, LinId
    <3>4. j \in {0, 1, 3, 4}
      BY <1>9, <3>3
    <3>5. k \in DOMAIN queries' /\ queries'[k] = qs[j]
      BY <1>7, <3>1, <3>4
    <3>6. qs[j] = LinQuery(pub, rho, rep, j)
      BY <1>6, <1>8, <3>4 DEF LinQuery
    <3> QED
      BY <3>3, <3>5, <3>6
  <2> QED
    BY <1>3, <2>1, <2>2
<1>10. Dumped(Done)'
  <2>1. Done' - 1 = n + 5
    BY <1>3, <1>5
  <2> QED
    BY <1>1, <1>9, <2>1 DEF Dumped
<1>11. Types'
  <2>1. rep' \in 0 .. NUM_REPS_LIN
    BY <1>1, <1>3, <1>4, Counts
  <2> QED
    BY <1>1, <1>2, <2>1 DEF Types, ConShape, verifierQ
<1>12. VerifierPlace'
  BY <1>1 DEF ZInv, VerifierPlace, verifierQ
<1>13. ConsistencySoFar'
  BY <1>1 DEF ZInv, ConsistencySoFar, verifierQ
<1>14. ProverPlace'
  <2>1. pdrawn' = Pos(rho, rep + 1)
    BY <1>1, <1>2, <1>3, PosType DEF PerRep
  <2>2. pcorr' = Corr(pub, rho)
    <3>1. CASE rep = 0
      BY <1>1, <1>6, <3>1 DEF Corr
    <3>2. CASE rep # 0
      BY <1>1, <1>2, <1>3, <3>2
    <3> QED
      BY <3>1, <3>2
  <2> QED
    BY <1>1, <1>10, <2>1, <2>2 DEF ProverPlace
<1> QED
  BY <1>11, <1>12, <1>13, <1>14 DEF ZInv

\* So it does for the divisibility queries.
LEMMA ProverDivOk == ZInv /\ ProverDivQueries => ZInv'
<1> SUFFICES ASSUME ZInv, ProverDivQueries PROVE ZInv'
  OBVIOUS
<1> DEFINE n == Done
           q == DivQueries(build, Draw(pub, pdrawn), pcorr)
           qs == [j \in 0 .. 3 |-> <<q.a, q.b, q.c, q.d>>[j + 1]]
<1>1. /\ pc = "prover_queries" /\ rep = NUM_REPS_LIN
      /\ queries' = Dump(Q7, qs)
      /\ pdrawn' = pdrawn + 1
      /\ NextRho("answers")
      /\ UNCHANGED <<build, pub, priv, pcorr, verifierQ>>
  BY DEF ProverDivQueries
<1> HIDE DEF q
<1>2. Types /\ pdrawn = Pos(rho, rep) /\ (rep > 0 => pcorr = Corr(pub, rho)) /\ Dumped(n)
  BY <1>1 DEF ZInv, ProverPlace
<1>3. n = rho * NUM_LIN_PCP_QUERIES + Q7 /\ n \in Nat /\ rho \in Nat /\ rho * NUM_LIN_PCP_QUERIES \in Nat
  <2>1. n = rho * NUM_LIN_PCP_QUERIES + rep * 6 /\ n \in Nat /\ rho \in Nat /\ rho * NUM_LIN_PCP_QUERIES \in Nat
    BY <1>2, DoneIs
  <2> QED
    BY <1>1, <2>1, Counts
<1>4. rho \in 0 .. NUM_REPS_PCP - 1
  BY <1>2 DEF Types
<1>6. q = Div(pub, build, rho)
  <2>1. rep > 0
    BY <1>1, Counts
  <2> QED
    BY <1>1, <1>2, <2>1 DEF q, Div
<1>7. queries' = [k \in DOMAIN queries \union {n + j : j \in 0 .. 3} |->
                    IF k - n \in 0 .. 3 THEN qs[k - n] ELSE queries[k]]
  <2>1. rho * NUM_LIN_PCP_QUERIES + Q7 = n /\ DOMAIN qs = 0 .. 3
    BY <1>3
  <2> HIDE DEF n, qs
  <2> QED
    BY <1>1, <2>1 DEF Dump
<1>8. qs[0] = q.a /\ qs[1] = q.b /\ qs[2] = q.c /\ qs[3] = q.d
  OBVIOUS
<1> HIDE DEF n, qs
<1>9. ASSUME NEW k \in 0 .. n + 3, ~ IsThird(k)
      PROVE  k \in DOMAIN queries' /\ queries'[k] = Query(pub, build, k)
  <2>1. CASE k < n
    <3>1. k \in 0 .. n - 1 /\ k - n \notin 0 .. 3
      BY <1>3, <2>1
    <3>2. k \in DOMAIN queries /\ queries[k] = Query(pub, build, k)
      BY <1>2, <1>9, <3>1 DEF Dumped
    <3> QED
      BY <1>7, <3>1, <3>2
  <2>2. CASE k >= n
    <3>1. PICK j \in 0 .. 3 : k = n + j /\ j = k - n
      <4>1. k - n \in 0 .. 3 /\ k = n + (k - n)
        BY <1>3, <2>2
      <4> QED
        BY <4>1
    <3>2. k = rho * NUM_LIN_PCP_QUERIES + Q7 + j
      BY <1>3, <3>1, Counts
    <3>3. Query(pub, build, k) = DivQuery(pub, build, rho, j)
      BY <1>4, <3>2, DivId
    <3>5. k \in DOMAIN queries' /\ queries'[k] = qs[j]
      BY <1>7, <3>1
    <3>6. qs[j] = DivQuery(pub, build, rho, j)
      <4>1. j \in {0, 1, 2, 3}
        OBVIOUS
      <4> QED
        BY <1>6, <1>8, <4>1 DEF DivQuery
    <3> QED
      BY <3>3, <3>5, <3>6
  <2> QED
    BY <1>3, <2>1, <2>2
<1>10. n + 4 = (rho + 1) * NUM_LIN_PCP_QUERIES /\ (n + 4) - 1 = n + 3
  <2>1. (rho + 1) * NUM_LIN_PCP_QUERIES = rho * NUM_LIN_PCP_QUERIES + NUM_LIN_PCP_QUERIES
    BY <1>3, Counts
  <2> QED
    BY <1>3, <2>1, Counts
<1>11. CASE rho < NUM_REPS_PCP - 1
  <2>1. rep' = 0 /\ rho' = rho + 1 /\ pc' = "prover_queries"
    BY <1>1, <1>11 DEF NextRho
  <2>2. Types'
    <3>1. rho' \in 0 .. NUM_REPS_PCP - 1 /\ rep' \in 0 .. NUM_REPS_LIN
      BY <1>3, <1>11, <2>1, Counts
    <3> QED
      BY <1>1, <1>2, <2>1, <3>1 DEF Types, ConShape, verifierQ
  <2>3. Done' = n + 4
    <3>1. Done' = rho' * NUM_LIN_PCP_QUERIES + rep' * 6
      BY DEF Done, NUM_LIN_QUERIES
    <3>2. PICK x \in Int : x = (rho + 1) * NUM_LIN_PCP_QUERIES
      BY <1>3, <1>10
    <3> QED
      BY <1>10, <2>1, <3>1, <3>2
  <2>4. VerifierPlace'
    BY <1>1, <2>1 DEF ZInv, VerifierPlace, verifierQ
  <2>5. ConsistencySoFar'
    BY <1>1, <2>1 DEF ZInv, ConsistencySoFar, verifierQ
  <2>6. ProverPlace'
    <3>1. pdrawn' = Pos(rho + 1, 0)
      <4>1. Pos(rho + 1, 0) = Pos(rho, NUM_REPS_LIN) + 1
        BY <1>3, PosType
      <4> QED
        BY <1>1, <1>2, <4>1
    <3>2. Dumped(Done)'
      BY <1>1, <1>9, <1>10, <2>3 DEF Dumped
    <3> QED
      BY <2>1, <3>1, <3>2 DEF ProverPlace
  <2> QED
    BY <2>2, <2>4, <2>5, <2>6 DEF ZInv
<1>12. CASE ~ (rho < NUM_REPS_PCP - 1)
  <2>1. rep' = 0 /\ rho' = 0 /\ pc' = "answers"
    BY <1>1, <1>12 DEF NextRho
  <2>2. Types'
    <3>1. rho' \in 0 .. NUM_REPS_PCP - 1 /\ rep' \in 0 .. NUM_REPS_LIN
      BY <2>1, Counts
    <3> QED
      BY <1>1, <1>2, <2>1, <3>1 DEF Types, ConShape, verifierQ
  <2>3. n + 4 = NUM_REPS_PCP * NUM_LIN_PCP_QUERIES
    <3>1. rho + 1 = NUM_REPS_PCP
      BY <1>4, <1>12, Counts
    <3> QED
      BY <1>10, <3>1
  <2>4. VerifierPlace'
    BY <1>1, <2>1 DEF ZInv, VerifierPlace, verifierQ
  <2>5. ConsistencySoFar'
    BY <1>1, <2>1 DEF ZInv, ConsistencySoFar, verifierQ
  <2>6. ProverPlace'
    <3>1. Dumped(NUM_REPS_PCP * NUM_LIN_PCP_QUERIES)'
      <4>1. NUM_REPS_PCP * NUM_LIN_PCP_QUERIES - 1 = n + 3
        BY <1>10, <2>3
      <4> QED
        BY <1>1, <1>9, <4>1 DEF Dumped
    <3> QED
      BY <2>1, <3>1 DEF ProverPlace
  <2> QED
    BY <2>2, <2>4, <2>5, <2>6 DEF ZInv
<1> QED
  BY <1>11, <1>12

\* Verifier and prover, each from its own copy of the decommit seed, are always at
\* the same place of the stream for the same answer, and the consistency query is
\* the secret vector plus coins times queries (create_plain_queries, deduce_queries).
THEOREM ZaatarInvariantAlways == Spec => []ZInv
<1>1. Init => ZInv
  BY InitOk
<1>2. ZInv /\ [Next]_vars => ZInv'
  <2> SUFFICES ASSUME ZInv, [Next]_vars PROVE ZInv'
    OBVIOUS
  <2>1. CASE create_commitment_query
    BY <2>1, CommitmentOk
  <2>2. CASE prover_do_computation
    <3>1. UNCHANGED <<build, pub, priv, rho, rep, verifierQ, proverQ>>
      BY <2>2 DEF prover_do_computation
    <3>2. pc' = pc \/ (pc = "computation" /\ pc' = "commitment")
      BY <2>2 DEF prover_do_computation
    <3> QED
      BY <3>1, <3>2, Moves
  <2>3. CASE prover_interactive
    <3>1. UNCHANGED <<build, pub, priv, rho, rep, verifierQ, proverQ>>
      BY <2>3 DEF prover_interactive
    <3>2. pc = "commitment" /\ pc' = "verifier_queries"
      BY <2>3 DEF prover_interactive
    <3> QED
      BY <3>1, <3>2, Moves
  <2>4. CASE VerifierLinQueries
    BY <2>4, VerifierLinOk
  <2>5. CASE VerifierDivQueries
    BY <2>5, VerifierDivOk
  <2>6. CASE VerifierHitsRoot
    <3>1. UNCHANGED <<build, pub, priv, rho, rep, verifierQ, proverQ>>
      BY <2>6 DEF VerifierHitsRoot
    <3>2. pc' = "exit"
      BY <2>6 DEF VerifierHitsRoot
    <3> QED
      BY <3>1, <3>2, Moves
  <2>7. CASE ProverLinQueries
    BY <2>7, ProverLinOk
  <2>8. CASE ProverDivQueries
    BY <2>8, ProverDivOk
  <2>9. CASE prover_answer_queries
    <3>1. UNCHANGED <<build, pub, priv, rho, rep, verifierQ, proverQ>>
      BY <2>9 DEF prover_answer_queries
    <3>2. pc' = pc \/ pc' = "tests"
      BY <2>9 DEF prover_answer_queries
    <3> QED
      BY <3>1, <3>2, Moves
  <2>10. CASE run_tests
    <3>1. UNCHANGED <<build, pub, priv, rho, rep, verifierQ, proverQ>>
      BY <2>10 DEF run_tests
    <3>2. pc' = pc \/ pc' = "done"
      BY <2>10 DEF run_tests
    <3> QED
      BY <3>1, <3>2, Moves
  <2>11. CASE UNCHANGED vars
    <3>1. UNCHANGED <<build, pub, priv, rho, rep, verifierQ, proverQ>> /\ pc' = pc
      BY <2>11 DEF vars, verifierQ, proverQ
    <3> QED
      BY <3>1, Moves
  <2> QED
    BY <2>1, <2>2, <2>3, <2>4, <2>5, <2>6, <2>7, <2>8, <2>9, <2>10, <2>11 DEF Next
<1> QED
  BY <1>1, <1>2, PTL DEF Spec

\* Third answers follow the two they are the sum of.
LEMMA ThirdId ==
    ASSUME NEW k \in AnswerIds, IsThird(k)
    PROVE  /\ k - 2 \in AnswerIds /\ k - 1 \in AnswerIds
           /\ ~ IsThird(k - 2) /\ ~ IsThird(k - 1)
<1> DEFINE n == NUM_LIN_PCP_QUERIES
<1>1. PICK r \in 0 .. NUM_REPS_PCP - 1 :
             \/ \E e \in 0 .. NUM_REPS_LIN - 1, t \in 0 .. 5 : k = r * n + e * 6 + t
             \/ \E t \in 0 .. 3 : k = r * n + Q7 + t
  BY IdCases
<1>2. r \in Nat /\ r * n \in Nat
  BY Counts
<1>3. PICK e \in 0 .. NUM_REPS_LIN - 1, t \in 0 .. 5 : k = r * n + e * 6 + t
  BY <1>1, DivId
<1>4. t \in {2, 5}
  BY <1>3, LinId
<1>5. t - 2 \in 0 .. 5 /\ t - 1 \in 0 .. 5 /\ t - 2 \notin {2, 5} /\ t - 1 \notin {2, 5}
  BY <1>4
<1>6. k - 2 = r * n + e * 6 + (t - 2) /\ k - 1 = r * n + e * 6 + (t - 1)
  BY <1>2, <1>3, Counts
<1>7. k - 2 \in AnswerIds /\ ~ IsThird(k - 2)
  BY <1>5, <1>6, LinId
<1>8. k - 1 \in AnswerIds /\ ~ IsThird(k - 1)
  BY <1>5, <1>6, LinId
<1> QED
  BY <1>7, <1>8

\* The invariant says what the property asks.
LEMMA InvariantMatches == ZInv => ConsistencyQueryMatches
<1> SUFFICES ASSUME ZInv, pc = "answers", NEW f \in {1, 2}, NEW i \in 0 .. Size(f) - 1
             PROVE  con[f][i] = Draw(priv, (IF f = 1 THEN 0 ELSE Size1) + i)
                      + SumFunction([k \in {m \in AnswerIds : Vector(m) = f} |->
                          coins[k] * (IF IsThird(k) THEN queries[k - 2][i] + queries[k - 1][i] ELSE queries[k][i])])
  BY DEF ConsistencyQueryMatches
<1> DEFINE D == {m \in AnswerIds : Vector(m) = f}
           g == [k \in D |-> coins[k] * (IF IsThird(k) THEN queries[k - 2][i] + queries[k - 1][i] ELSE queries[k][i])]
           h == Term(coins, pub, build, f, i)
<1>1. /\ pub \in Nat /\ build \in Builds /\ coins \in [AnswerIds -> Int]
      /\ 0 .. filled = AnswerIds
      /\ con[f][i] = Secret(priv, f, i) + SumFunctionOnSet(h, 0 .. filled)
      /\ Dumped(NUM_REPS_PCP * NUM_LIN_PCP_QUERIES)
  BY Counts DEF ZInv, Types, VerifierPlace, ConsistencySoFar, ProverPlace
<1>2. \A k \in AnswerIds : ~ IsThird(k) => queries[k] = Query(pub, build, k)
  BY <1>1, Counts DEF Dumped
<1>3. ASSUME NEW k \in D PROVE h[k] \in Int /\ g[k] = h[k]
  <2>1. k \in AnswerIds /\ Vector(k) = f
    OBVIOUS
  <2>2. h[k] \in Int /\ h[k] = coins[k] * Asked(pub, build, k, i)
    BY <1>1, <2>1, TermType
  <2>3. g[k] = coins[k] * (IF IsThird(k) THEN queries[k - 2][i] + queries[k - 1][i] ELSE queries[k][i])
    OBVIOUS
  <2>4. (IF IsThird(k) THEN queries[k - 2][i] + queries[k - 1][i] ELSE queries[k][i]) = Asked(pub, build, k, i)
    <3>1. CASE IsThird(k)
      <4>1. queries[k - 2] = Query(pub, build, k - 2) /\ queries[k - 1] = Query(pub, build, k - 1)
        BY <1>2, <2>1, <3>1, ThirdId
      <4> QED
        BY <3>1, <4>1 DEF Asked
    <3>2. CASE ~ IsThird(k)
      <4>1. queries[k] = Query(pub, build, k)
        BY <1>2, <2>1, <3>2
      <4> QED
        BY <3>2, <4>1 DEF Asked
    <3> QED
      BY <3>1, <3>2
  <2> QED
    BY <2>2, <2>3, <2>4
<1>4. SumFunction(g) = SumFunctionOnSet(g, D)
  <2>1. DOMAIN g = D
    OBVIOUS
  <2> HIDE DEF g, D
  <2> QED
    BY <2>1 DEF SumFunction, FoldFunction, SumFunctionOnSet
<1>5. IsFiniteSet(AnswerIds)
  BY FS_Interval, Counts
<1>6. D \subseteq AnswerIds /\ IsFiniteSet(D) /\ IsFiniteSet(AnswerIds \ D)
  BY <1>5, FS_Subset
<1>7. ASSUME NEW k \in AnswerIds PROVE h[k] \in Int /\ (k \notin D => h[k] = 0)
  <2>1. h[k] \in Int
    BY <1>1, TermType
  <2>2. Vector(k) # f => h[k] = 0
    BY <1>1, TermType
  <2> QED
    BY <2>1, <2>2
<1> HIDE DEF g, h, D
<1>8. SumFunctionOnSet(g, D) = SumFunctionOnSet(h, D)
  BY <1>3, <1>6, SumSame
<1>9. SumFunctionOnSet(h, AnswerIds \ D) = 0
  BY <1>6, <1>7, SumZero
<1>10. SumFunctionOnSet(h, AnswerIds) = SumFunctionOnSet(h, D)
  <2> DEFINE E == AnswerIds \ D
  <2>1. D \cap E = {} /\ D \cup E = AnswerIds /\ IsFiniteSet(E) /\ \A x \in D \cup E : h[x] \in Int
    BY <1>6, <1>7
  <2>2. SumFunctionOnSet(h, E) = 0
    BY <1>9
  <2> HIDE DEF E
  <2>3. SumFunctionOnSet(h, D \cup E) = SumFunctionOnSet(h, D) + SumFunctionOnSet(h, E)
    BY <1>6, <2>1, SumUnion
  <2>4. SumFunctionOnSet(h, D) \in Int
    BY <1>6, <2>1, SumType
  <2>5. SumFunctionOnSet(h, D) + 0 = SumFunctionOnSet(h, D)
    BY <2>4
  <2> QED
    BY <2>1, <2>2, <2>3, <2>5
<1>11. con[f][i] = Secret(priv, f, i) + SumFunction(g)
  BY <1>1, <1>4, <1>8, <1>10
<1> QED
  BY <1>11 DEF Secret, g, D

\* The consistency query the prover answers is the secret vector plus every coin
\* times the query the prover derived for that answer, the third linearity queries,
\* which nobody builds, included, for every number of repetitions, every field and
\* every constraint system (create_plain_queries against deduce_queries).
THEOREM ConsistencyQueryMatchesAlways == Spec => []ConsistencyQueryMatches
  BY ZaatarInvariantAlways, InvariantMatches, PTL

===============================================================================
