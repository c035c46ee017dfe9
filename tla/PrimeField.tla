------------------------------ MODULE PrimeField ------------------------------
(***************************************************************************)
(* Arithmetic modulo the prime of a circuit, and the multilinear and       *)
(* univariate extensions that the CMT verifier and prover compute with it  *)
(* (cmtgkr_env.cpp).  Arrays are functions on 0..n-1, as in the code.      *)
(***************************************************************************)
EXTENDS Integers, Functions

CONSTANT prime

ASSUME PrimeAssumption ==
    /\ prime \in Nat /\ prime > 2
    /\ \A a, b \in 2 .. prime - 1 : a * b # prime

Zp == 0 .. prime - 1

modmult(a, b) == (a * b) % prime

modsub(a, b)  == (a - b) % prime
one_sub(a)    == 1 - a

\* mpz_invert; callers that pass 0 multiply the result by 0 (see Weights).
Invert(a) == IF a % prime = 0 THEN 0 ELSE CHOOSE b \in Zp : modmult(a, b) = 1

\* ceil(log2(n)), but 1 for a single gate.
log2i(n) == IF n = 1 THEN 1 ELSE CHOOSE k \in 1 .. n : 2^k >= n /\ 2^(k - 1) < n

Bit(v, i) == (v \div 2^i) % 2

SumMod(f) == SumFunction(f) % prime

Product(f) == FoldFunction(LAMBDA a, b : (a * b) % prime, 1, f)

-----------------------------------------------------------------------------

\* chi_v(r): 1 at the point whose coordinates are the bits of v, 0 at the others.
chi(v, r, n) == Product([i \in 0 .. n - 1 |-> IF Bit(v, i) = 1 THEN r[i] ELSE one_sub(r[i])])

\* computeChiAll: chi of all v < n at the point z[startAt], z[startAt+1], ...,
\* interleaved; after k coordinates the first 2^k entries are done.
computeChiAll(z, n, coords, startAt) ==
    LET step[k \in 0 .. coords] ==
          IF k = 0 THEN [v \in 0 .. n - 1 |-> 1]
          ELSE LET base == 2^(k - 1)
                   zk   == z[k - 1 + startAt]
               IN  [v \in 0 .. n - 1 |->
                      IF v < base THEN modmult(step[k - 1][v], one_sub(zk))
                      ELSE IF v < 2 * base THEN modmult(step[k - 1][v - base], zk)
                      ELSE 1]
    IN  step[coords]

\* The line through (0, val0) and (1, val1), at pt.
mle(pt, val0, val1) == (one_sub(pt) * val0 + pt * val1) % prime

evaluate_beta(z, r, n) == Product([i \in 0 .. n - 1 |-> mle(z[i], one_sub(r[i]), r[i])])

\* The multilinear extension of the values of a layer at r.
evaluate_V_i(values, r, logSize) ==
    SumMod([k \in DOMAIN values |-> modmult(values[k], chi(k, r, logSize))])

-----------------------------------------------------------------------------
(* Extrapolation of a polynomial given by its values at 0, ..., n-1. *)

\* extrap: Lagrange's formula.
extrap(vec, n, r) ==
    SumMod([i \in 0 .. n - 1 |->
           modmult(vec[i], Product([j \in (0 .. n - 1) \ {i} |-> Invert(i - j) * (r - j)]))])

\* bary_precompute_weights3: the three weights without a division.
Weights3(r) ==
    LET half == (prime + 1) \div 2
    IN  [i \in 0 .. 2 |-> modmult((r - ((i + 1) % 3)) * (r - ((i + 2) % 3)),
                                  IF i = 1 THEN -1 ELSE half)]

\* bary_precompute_weights: divides by r - i, then multiplies all by prod (r - i).
Weights(n, r) ==
    LET lx == Product([i \in 0 .. n - 1 |-> r - i])
    IN  [i \in 0 .. n - 1 |->
           modmult(Invert(Product([j \in (0 .. n - 1) \ {i} |-> i - j]) * (r - i)), lx)]

bary_extrap(vec, weights) == SumMod([i \in DOMAIN weights |-> weights[i] * vec[i]])

=============================================================================
