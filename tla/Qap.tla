-------------------------------- MODULE Qap --------------------------------
(***************************************************************************)
(* The quadratic arithmetic program behind Zaatar's argument: the roots,   *)
(* the polynomials of the variables at a point tau, the interpolation of   *)
(* A_w, B_w, C_w and the quotient H = (A*B + C)/D (libv.cpp,               *)
(* zcomputation_v.cpp, zcomputation_p.cpp).                                *)
(*                                                                         *)
(* The code has three builds, chosen by macros: roots of unity with an     *)
(* in-place transform ("fft", FAST_FOURIER_INTERPOLATION == 1), the same   *)
(* roots with a recursive transform ("recursive_fft", RECURSIVE_FFT), and  *)
(* the roots 0..Chi with an interpolation tree ("tree",                    *)
(* FAST_FOURIER_INTERPOLATION == 0).  Definitions that differ between them *)
(* take the build as their first argument.                                 *)
(***************************************************************************)
EXTENDS LinearPcp, Sequences

CONSTANTS Builds,        \* the builds considered
          NumVars,       \* n_prime: intermediate variables, the size of F1
          Chi,           \* constraints; Chi+1 is the size of F2
          SizeIO,        \* inputs and outputs, contiguous
          QapFile,       \* the lines [i, j, c]: variable, constraint, coefficient
          num_aij, num_bij       \* lines of A and of B; the others are C's

Size1 == NumVars
Size2 == Chi + 1
Size(f) == IF f = 1 THEN Size1 ELSE Size2

NumAll == NumVars + SizeIO      \* n

ASSUME QapAssumption ==
    /\ Builds \subseteq {"fft", "recursive_fft", "tree"}
    /\ {NumVars, Chi, SizeIO} \subseteq Nat \ {0}
    /\ \E k \in 1 .. Size2 : Size2 = 2^k        \* the FFT needs a power of two
    /\ (prime - 1) % Size2 = 0                   \* "make sure ... 2^64 divides p-1"
    /\ QapFile \in Seq([i : 0 .. NumAll, j : 0 .. Chi, c : Int])
    /\ {num_aij, num_bij} \subseteq Nat /\ num_aij + num_bij <= Len(QapFile)

\* init_qap: the entry that line n of the file fills, n from 0.
Line(n) == QapFile[n + 1]

PolyA == [k \in 0 .. num_aij - 1 |-> Line(k)]
PolyB == [k \in 0 .. num_bij - 1 |-> Line(num_aij + k)]
PolyC == [k \in 0 .. Len(QapFile) - num_aij - num_bij - 1 |-> Line(num_aij + num_bij + k)]

-----------------------------------------------------------------------------
Power(b, n) == Product([i \in 1 .. n |-> b])

\* The search for a non-residue ends.
ASSUME NonResidueExists == \E x \in Zp \ {0} : Power(x, (prime - 1) \div 2) # 1

\* A non-residue to the (p-1)/n: the generator is seeded with 0 on both sides.
omega == Power(CHOOSE x \in Zp \ {0} : Power(x, (prime - 1) \div 2) # 1,
               (prime - 1) \div Size2)

powers_of_omega == [i \in 0 .. Size2 - 1 |-> Power(omega, i)]

\* qap_roots: root j belongs to constraint j, root 0 to none.
qap_roots == [b \in Builds |-> IF b = "tree" THEN [i \in 0 .. Size2 - 1 |-> i]
                              ELSE powers_of_omega]

\* v_j = 1 / prod_{k # j} (root_j - root_k), each from the one before: for the
\* roots of unity ...
set_v_omega ==
    LET v[j \in 0 .. Size2 - 1] ==
          IF j = 0 THEN Invert(Product([i \in 1 .. Size2 - 1 |->
                                          powers_of_omega[0] - powers_of_omega[i]]))
          ELSE modmult(v[j - 1], Invert(powers_of_omega[Size2 - 1]))
    IN  v

\* ... and for the roots 0..Chi.
set_v_integers ==
    LET v[j \in 0 .. Size2 - 1] ==
          IF j = 0 THEN Invert(Product([i \in 1 .. Size2 - 1 |-> -i]))
          ELSE modmult(modmult(v[j - 1], Invert(j)), j - Size2)
    IN  v

set_v == [b \in Builds |-> IF b = "tree" THEN set_v_integers ELSE set_v_omega]

-----------------------------------------------------------------------------
(* The verifier's and the prover's common query construction. *)

l_tau(bd, tau) == Product([i \in 0 .. Size2 - 1 |-> tau - qap_roots[bd][i]])

\* The polynomial of every variable at tau, for one of the three matrices.  At a
\* root the failed inversion does not matter: l_tau is 0.
eval_poly(bd, poly, tau) ==
    LET term(e) == modmult(set_v[bd][e.j] * e.c, Invert(tau - qap_roots[bd][e.j]))
    IN  [i \in 0 .. NumAll |->
           modmult(SumMod([k \in DOMAIN poly |-> IF poly[k].i = i THEN term(poly[k]) ELSE 0]),
                   l_tau(bd, tau))]

D_star(bd, tau) == modmult(Invert(tau - qap_roots[bd][0]), l_tau(bd, tau))

\* create_div_corr_test_queries: the queries to F1 (A, B, C) and to F2 (powers
\* of tau), each hidden by the first linearity query to the same vector.
DivQueries(bd, tau, corr) ==
    LET hide(row) == [i \in 0 .. Size1 - 1 |-> (row[i + 1] + corr[1][i]) % prime]
    IN  [a |-> hide(eval_poly(bd, PolyA, tau)),
         b |-> hide(eval_poly(bd, PolyB, tau)),
         c |-> hide(eval_poly(bd, PolyC, tau)),
         d |-> [i \in 0 .. Size2 - 1 |-> (Power(tau, i) + corr[2][i]) % prime]]

-----------------------------------------------------------------------------
(* The prover's proof vectors. *)

\* Variable i of an assignment: the constant 1, then F1, then inputs and outputs.
Value(asg, i) == IF i = 0 THEN 1
                 ELSE IF i <= Size1 THEN asg.w[i - 1] ELSE asg.io[i - 1 - Size1]

\* A_w (B_w, C_w) at the roots: poly_A_pv.
poly_pv(poly, asg) ==
    [j \in 0 .. Size2 - 1 |->
       SumMod([k \in DOMAIN poly |-> IF poly[k].j = j THEN poly[k].c * Value(asg, poly[k].i) ELSE 0])]

\* zreverse(i) >> num_leading_zeros: i with its log2(n) bits reversed.
zreverse(i, n) ==
    LET bits == CHOOSE b \in 0 .. n : 2^b = n
    IN  SumFunction([b \in 0 .. bits - 1 |-> Bit(i, b) * 2^(bits - 1 - b)])

\* The in-place inverse transform; early levels are not reduced modulo p.
zcomp_fast_interpolate(A) ==
    LET n == Size2
        bits == CHOOSE b \in 0 .. n : 2^b = n
        inv == Invert(omega)
        level[s \in 0 .. bits] ==
          IF s = 0 THEN [m \in 0 .. n - 1 |-> A[zreverse(m, n)]]
          ELSE LET L    == 2^s
                   half == L \div 2
               IN  [m \in 0 .. n - 1 |->
                      LET base == (m \div L) * L
                          i    == (m - base) % half
                          t    == Power(inv, (i * (n \div L)) % n) * level[s - 1][base + half + i]
                          x    == IF m - base < half THEN level[s - 1][base + i] + t
                                  ELSE level[s - 1][base + i] - t
                      IN  IF L % 4 = 0 \/ L = n THEN x % prime ELSE x]
    IN  level[bits]

\* The recursive transform: hat[s][r] transforms the 2^s values at the indexes
\* congruent to r modulo n/2^s; the smallest ones are not reduced.
zcomp_recursive_interpolate(A) ==
    LET n == Size2
        bits == CHOOSE b \in 0 .. n : 2^b = n
        hat[s \in 1 .. bits] ==
          LET stride == n \div 2^s
              half   == 2^(s - 1)
              m(i)   == Power(Invert(omega), stride * i)
          IN  [r \in 0 .. stride - 1 |-> [i \in 0 .. 2^s - 1 |->
                 IF s = 1 THEN (IF i = 0 THEN A[r] + A[r + stride] ELSE A[r] - A[r + stride])
                 ELSE LET t == m(i % half) * hat[s - 1][r + stride][i % half]
                          e == hat[s - 1][r][i % half]
                      IN  (IF i < half THEN e + t ELSE e - t) % prime]]
    IN  hat[bits][0]

\* Polynomials as coefficient arrays (NTL); At is a coefficient, 0 past the end.
At(p, i) == IF i \in DOMAIN p THEN p[i] ELSE 0

PolyMul(p, q) ==
    [k \in 0 .. 2 * Chi |-> SumMod([i \in 0 .. k |-> At(p, i) * At(q, k - i)])]

PolyAdd(p, q) == [k \in 0 .. 2 * Chi |-> (At(p, k) + At(q, k)) % prime]

num_levels == CHOOSE b \in 0 .. Size2 : 2^b = Size2

\* poly_tree[l][j]: the product of t - root over the 2^l roots below the j-th
\* node of level l, counted from the leaves.
poly_tree ==
    LET tree[l \in 0 .. num_levels] ==
          [j \in 0 .. 2^(num_levels - l) - 1 |->
             IF l = 0 THEN [i \in 0 .. 1 |-> IF i = 0 THEN -j ELSE 1]
             ELSE PolyMul(tree[l - 1][2 * j], tree[l - 1][2 * j + 1])]
    IN  tree

\* Mutant: each half is multiplied by its own product.
Mutzcomp_interpolate(evals) ==
    LET tree[l \in 0 .. num_levels] ==
          [j \in 0 .. 2^(num_levels - l) - 1 |->
             IF l = 0 THEN [i \in {0} |-> modmult(set_v_integers[j], evals[j])]
             ELSE PolyAdd(PolyMul(tree[l - 1][2 * j], poly_tree[l - 1][2 * j]),
                          PolyMul(tree[l - 1][2 * j + 1], poly_tree[l - 1][2 * j + 1]))]
    IN  tree[num_levels][0]

\* The interpolation tree: each half is multiplied by the product of the other.
zcomp_interpolate(evals) ==
    LET tree[l \in 0 .. num_levels] ==
          [j \in 0 .. 2^(num_levels - l) - 1 |->
             IF l = 0 THEN [i \in {0} |-> modmult(set_v_integers[j], evals[j])]
             ELSE PolyAdd(PolyMul(tree[l - 1][2 * j], poly_tree[l - 1][2 * j + 1]),
                          PolyMul(tree[l - 1][2 * j + 1], poly_tree[l - 1][2 * j]))]
    IN  tree[num_levels][0]

\* The coefficients of the polynomial with the values pv at the roots.
Interpolated(bd, pv) ==
    LET hat == IF bd = "fft" THEN zcomp_fast_interpolate(pv) ELSE zcomp_recursive_interpolate(pv)
    IN  IF bd = "tree" THEN zcomp_interpolate(pv)
        ELSE [i \in 0 .. Size2 - 1 |-> modmult(hat[i], Invert(Size2))]

\* D(t): the product of t - root over the roots 1..Chi.
z_poly_D == [b \in Builds |->
    LET d[j \in 0 .. Chi] ==
          IF j = 0 THEN [i \in 0 .. Chi |-> IF i = 0 THEN 1 ELSE 0]
          ELSE [i \in 0 .. Chi |-> (At(d[j - 1], i - 1) - qap_roots[b][j] * d[j - 1][i]) % prime]
    IN  d[Chi]]

\* The quotient of p by D, from the leading coefficient down.
Quotient(bd, p) ==
    LET q[k \in 0 .. Chi] ==
          (p[k + Chi] - SumFunction([j \in k + 1 .. Chi |->
                                       q[j] * At(z_poly_D[bd], k + Chi - j)])) % prime
    IN  q

\* A_w * B_w + C_w, by its coefficients.
z_poly_P(bd, asg) ==
    LET w(poly) == Interpolated(bd, poly_pv(poly, asg))
    IN  PolyAdd(PolyMul(w(PolyA), w(PolyB)), w(PolyC))

\* divide(H, P, D) leaves H alone when D does not divide P.
NextH(bd, asg, oldH) ==
    LET p == z_poly_P(bd, asg)
    IN  IF PolyMul(Quotient(bd, p), z_poly_D[bd]) = p THEN Quotient(bd, p) ELSE oldH

=============================================================================
