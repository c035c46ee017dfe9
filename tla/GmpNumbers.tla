------------------------------ MODULE GmpNumbers ------------------------------
(***************************************************************************)
(* The multi-precision integers (mpz) and rationals (mpq) the prover       *)
(* computes with, and the conversions of common/utility.cpp and            *)
(* cmtgkr_env.cpp between them and residues modulo the prime.  A rational  *)
(* is a pair <<numerator, denominator>> in lowest terms with a positive    *)
(* denominator, which is what mpq_canonicalize establishes.                *)
(***************************************************************************)
EXTENDS PrimeField, Sequences

Abs(n) == IF n < 0 THEN -n ELSE n

RECURSIVE Gcd(_, _)
Gcd(a, b) == IF b = 0 THEN a ELSE Gcd(b, a % b)

\* mpq_canonicalize
Q(n, d) == LET g == Gcd(Abs(n), Abs(d)) * (IF d < 0 THEN -1 ELSE 1)
           IN  IF g < 0 THEN <<(-n) \div (-g), (-d) \div (-g)>> ELSE <<n \div g, d \div g>>

Num(q) == q[1]
Den(q) == q[2]
QInt(n) == <<n, 1>>
QNeg(a) == <<-Num(a), Den(a)>>
QAdd(a, b) == Q(Num(a) * Den(b) + Num(b) * Den(a), Den(a) * Den(b))
QSub(a, b) == QAdd(a, QNeg(b))
QMul(a, b) == Q(Num(a) * Num(b), Den(a) * Den(b))
QDiv(a, b) == Q(Num(a) * Den(b), Den(a) * Num(b))

\* The sign of a - b (mpq_cmp).
QCmp(a, b) == LET n == Num(QSub(a, b)) IN IF n < 0 THEN -1 ELSE IF n = 0 THEN 0 ELSE 1

\* Bit i of n as mpz_tdiv_r_2exp and mpz_tdiv_q_2exp see it: the sign stays on the bits.
TruncBit(n, i) == IF n < 0 THEN -Bit(-n, i) ELSE Bit(n, i)

\* mpz_sizeinbase(n, 2): 1 for 0, the sign is ignored.
SizeInBase2(n) == IF n = 0 THEN 1 ELSE CHOOSE k \in 1 .. 31 : 2^(k - 1) <= Abs(n) /\ (k = 31 \/ Abs(n) < 2^k)

-----------------------------------------------------------------------------

\* The residue of a rational.
convert_to_z(q) == (Invert(Den(q)) * Num(q)) % prime

\* Values are reduced lazily: only once they have about twice the prime's bits.
modIfNeeded(n, slack) ==
    IF SizeInBase2(n) >= slack * SizeInBase2(prime) - 1 THEN n % prime ELSE n

\* Numerator and denominator are reduced separately, then the fraction is cancelled.
modIfNeededQ(q, slack) == Q(modIfNeeded(Num(q), slack), modIfNeeded(Den(q), slack))

\* Residues above half the prime stand for negative numbers.  Only one prime is subtracted.
toTrueNumber(n) == IF prime \div 2 < n THEN n - prime ELSE n
toTrueNumberQ(q) == IF prime \div 2 < Num(q) THEN Q(Num(q) - prime, Den(q)) ELSE q

=============================================================================
