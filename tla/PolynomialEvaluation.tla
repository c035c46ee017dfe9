------------------------- MODULE PolynomialEvaluation -------------------------
(***************************************************************************)
(* The tailored argument for the evaluation of a shared cubic polynomial   *)
(* in m variables (polyeval_d3_v.cpp, polyeval_d3_p.cpp).  The proof       *)
(* vectors are the variables, their products and their triple products.    *)
(* The coefficients come cubic, quadratic, linear, constant.               *)
(***************************************************************************)
EXTENDS LinearPcp, Sequences

CONSTANTS m, NUM_REPS_LIN

NUM_LIN_QUERIES == 9
num_cons == m + 1

Q(k) == IF k <= NUM_LIN_QUERIES THEN k - 1
        ELSE NUM_LIN_QUERIES * NUM_REPS_LIN + k - NUM_LIN_QUERIES - 1

\* Position of the coefficient of x_i x_j x_k (k <= j <= i), x_i x_j, x_i and 1:
\* the order in which the nested loops meet them.
Offset2 == (m^3 + 3 * m * m + 2 * m) \div 6
Offset1 == Offset2 + (m * m + m) \div 2
Offset0 == Offset1 + m

Cubic(i, j, k) == (i^3 + 3 * i * i + 2 * i) \div 6 + (j * j + j) \div 2 + k
Quadratic(i, j) == Offset2 + (i * i + i) \div 2 + j

num_coefficients == Offset0 + 1

-----------------------------------------------------------------------------
(* Verifier. *)

commitment_query_sizes == <<m, m * m, m^3>>

Q_list == [s \in 0 .. Q(14) |-> s]

lin_queries(seed, pos) == AllLinQueries(seed, pos, commitment_query_sizes)

corr_queries(q4, q5) ==
    << <<2, create_corr_test_queries_reuse(q4[1], q5, q4[2])>>,
       <<3, create_corr_test_queries_reuse(q4[1], q4[2], q4[3])>> >>

gamma(alpha, coefficients) ==
    LET neg == -alpha[0]
    IN  << [i \in 0 .. m - 1 |-> (neg * coefficients[Offset1 + i] + alpha[i + 1]) % prime],
           [x \in 0 .. m * m - 1 |->
              LET i == x \div m  j == x % m
              IN  IF j <= i THEN modmult(neg, coefficients[Quadratic(i, j)]) ELSE 0],
           [x \in 0 .. m^3 - 1 |->
              LET i == x \div (m * m)  j == (x \div m) % m  k == x % m
              IN  IF k <= j /\ j <= i THEN modmult(neg, coefficients[Cubic(i, j, k)]) ELSE 0] >>

ckt_queries(alpha, coefficients, q4) ==
    [f \in 1 .. 3 |-> <<f, create_ckt_test_queries(gamma(alpha, coefficients)[f], q4[f])>>]

c_value(alpha, coefficients, input, output) ==
    (SumFunction([j \in 0 .. m - 1 |-> -(alpha[j + 1] * input[j])])
       - alpha[0] * coefficients[Offset0] + alpha[0] * output[0]) % prime

repetition_passes(ans, c) ==
    LET q(k) == ans[Q(k)]
        lin(i, k) == ans[i * NUM_LIN_QUERIES + k]
    IN  /\ \A i \in 0 .. NUM_REPS_LIN - 1, f \in 0 .. 2 :
             lin_test(lin(i, 3 * f), lin(i, 3 * f + 1), lin(i, 3 * f + 2))
        /\ corr_test(q(1), q(2), q(10), q(4))
        /\ corr_test(q(1), q(4), q(11), q(7))
        /\ ckt_test(<< <<q(12), q(1)>>, <<q(13), q(4)>>, <<q(14), q(7)>> >>, c)

\* Assigned anew in every repetition, as for the Hamming distance.
result(passes, num_repetitions) == passes[num_repetitions - 1]

-----------------------------------------------------------------------------
(* Prover. *)

sizes == <<m, m * m, m^3>>

qquery_F_ptrs ==
    [k \in 0 .. Q(14) |->
       IF k < Q(10) THEN LET j == k % 9 IN IF j % 3 = 2 THEN 0 ELSE j \div 3 + 1
       ELSE <<2, 3, 1, 2, 3>>[k - Q(10) + 1]]

\* computation_polyeval: over the integers, reduced at the end.
computation(coefficients, x) ==
    LET cubic == {t \in (0 .. m - 1) \X (0 .. m - 1) \X (0 .. m - 1) : t[3] <= t[2] /\ t[2] <= t[1]}
        quadratic == {t \in (0 .. m - 1) \X (0 .. m - 1) : t[2] <= t[1]}
    IN  [o \in {0} |->
          (SumFunction([t \in cubic |-> coefficients[Cubic(t[1], t[2], t[3])] * x[t[1]] * x[t[2]] * x[t[3]]])
             + SumFunction([t \in quadratic |-> coefficients[Quadratic(t[1], t[2])] * x[t[1]] * x[t[2]]])
             + SumFunction([i \in 0 .. m - 1 |-> coefficients[Offset1 + i] * x[i]])
             + coefficients[Offset0]) % prime]

\* Mutant: F3 is filled for k <= j <= i only, the other orders keep 0.
Mutassignment(x) ==
    LET F2 == [t \in 0 .. m * m - 1 |-> modmult(x[t \div m], x[t % m])]
    IN  << [i \in 0 .. m - 1 |-> x[i] % prime], F2,
           [t \in 0 .. m^3 - 1 |->
              IF t % m <= (t \div m) % m /\ (t \div m) % m <= t \div (m * m)
              THEN modmult(F2[t \div m], x[t % m]) ELSE 0] >>

\* computation_assignment: products for j <= i (k <= j), copied to the entries
\* of the other orders.
assignment(x) ==
    LET sorted2(i, j) == IF j <= i THEN <<i, j>> ELSE <<j, i>>
        F2(i, j) == LET s == sorted2(i, j) IN modmult(x[s[1]], x[s[2]])
        F3(i, j, k) ==
          LET big == CHOOSE b \in {i, j, k} : \A o \in {i, j, k} : o <= b
              low == CHOOSE b \in {i, j, k} : \A o \in {i, j, k} : o >= b
          IN  modmult(F2(big, i + j + k - big - low), x[low])
    IN  << [i \in 0 .. m - 1 |-> x[i] % prime],
           [t \in 0 .. m * m - 1 |-> F2(t \div m, t % m)],
           [t \in 0 .. m^3 - 1 |-> F3(t \div (m * m), (t \div m) % m, t % m)] >>

\* What the prover keeps of an instance: proof vectors, input and output.
instance(coefficients, x) ==
    [F |-> assignment(x), z |-> x, out |-> computation(coefficients, x), out_q |-> <<>>]

\* What the encrypted inner products decrypt to.
commitment(con, F) == DotAll(sizes, con, F)

prover_lin_queries(seed, pos) == AllLinQueries(seed, pos, sizes)

prover_corr_queries(q4, q5) ==
    << <<2, create_corr_test_queries_reuse(q4[1], q5, q4[2])>>,
       <<3, create_corr_test_queries_reuse(q4[1], q4[2], q4[3])>> >>

\* Its own gamma, coefficient by coefficient in the order of the file.
prover_gamma(alpha, coefficients) ==
    LET term(i, j, k) == modmult(-alpha[0], coefficients[Cubic(i, j, k)])
        cube  == {t \in 0 .. m^3 - 1 : t % m <= (t \div m) % m /\ (t \div m) % m <= t \div (m * m)}
        lower == {t \in 0 .. m * m - 1 : t % m <= t \div m}
    IN  << [i \in 0 .. m - 1 |-> (alpha[i + 1] - alpha[0] * coefficients[Offset1 + i]) % prime],
           [t \in 0 .. m * m - 1 |->
              IF t \in lower THEN modmult(-alpha[0], coefficients[Quadratic(t \div m, t % m)]) ELSE 0],
           [t \in 0 .. m^3 - 1 |->
              IF t \in cube THEN term(t \div (m * m), (t \div m) % m, t % m) ELSE 0] >>

prover_ckt_queries(alpha, coefficients, q4) ==
    [f \in 1 .. 3 |-> <<f, create_ckt_test_queries(prover_gamma(alpha, coefficients)[f], q4[f])>>]

=============================================================================
