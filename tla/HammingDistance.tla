---------------------------- MODULE HammingDistance ----------------------------
(***************************************************************************)
(* The tailored argument that Y[i] is the number of positions in which the *)
(* input A differs from row i of the shared matrix B (hdist_v.cpp,         *)
(* hdist_p.cpp).  The proof vectors are A, M (inverses of the differences),*)
(* S (1 where they differ), A (x) M and A (x) S.                           *)
(***************************************************************************)
EXTENDS LinearPcp, Sequences

CONSTANTS m, NUM_REPS_LIN

NUM_LIN_QUERIES == 15
num_cons == 2 * (m * m + m)

\* The position of query Qk among the queries of a repetition.
Q(k) == IF k <= NUM_LIN_QUERIES THEN k - 1
        ELSE NUM_LIN_QUERIES * NUM_REPS_LIN + k - NUM_LIN_QUERIES - 1

-----------------------------------------------------------------------------
(* Verifier.  Every builder returns the queries in order, with their vector. *)

commitment_query_sizes == <<m, m * m, m * m, m^3, m^3>>

Q_list == [s \in 0 .. Q(22) |-> s]

lin_queries(seed, pos) == AllLinQueries(seed, pos, commitment_query_sizes)

corr_queries(q4) ==
    << <<4, create_corr_test_queries_reuse(q4[1], q4[2], q4[4])>>,
       <<5, create_corr_test_queries_reuse(q4[1], q4[3], q4[5])>> >>

\* gamma_1 .. gamma_5: the weight of every variable, and of every product, in
\* the sum of the constraints weighted by alpha.
gamma(alpha, B) ==
    LET offdiagonal(x) == x \div (m * m) # x % m
    IN  << [j \in 0 .. m - 1 |-> SumFunction([i \in 0 .. m - 1 |-> alpha[m * m + i * m + j]])
                                   - alpha[2 * m * m + m + j]],
           [i \in 0 .. m * m - 1 |-> -(alpha[i] * B[i])],
           [i \in 0 .. m * m - 1 |-> -alpha[i] + alpha[m * m + i] * B[i] - alpha[2 * m * m + (i \div m)]],
           [x \in 0 .. m^3 - 1 |-> IF offdiagonal(x) THEN 0 ELSE alpha[x % (m * m)]],
           [x \in 0 .. m^3 - 1 |-> IF offdiagonal(x) THEN 0 ELSE -alpha[m * m + (x % (m * m))]] >>

\* Mutant: gamma_3 is hidden by the correction query of M, not of S.
Mutckt_queries(alpha, B, q4) ==
    [f \in 1 .. 5 |-> <<f, create_ckt_test_queries(gamma(alpha, B)[f], q4[IF f = 3 THEN 2 ELSE f])>>]

ckt_queries(alpha, B, q4) ==
    [f \in 1 .. 5 |-> <<f, create_ckt_test_queries(gamma(alpha, B)[f], q4[f])>>]

\* gamma_0: constants, the claimed outputs and the input.
c_value(alpha, B, A, output) ==
    (SumFunction([i \in 0 .. m * m - 1 |-> -(alpha[m * m + i] * B[i])])
       + SumFunction([i \in 0 .. m - 1 |-> output[i] * alpha[2 * m * m + i]])
       + SumFunction([i \in 0 .. m - 1 |-> A[i] * alpha[2 * m * m + m + i]])) % prime

\* The tests of one repetition; ans(k) is its k-th answer.
repetition_passes(ans, c) ==
    LET q(k) == ans[Q(k)]
        lin(i, k) == ans[i * NUM_LIN_QUERIES + k]
    IN  /\ \A i \in 0 .. NUM_REPS_LIN - 1, f \in 0 .. 4 :
             lin_test(lin(i, 3 * f), lin(i, 3 * f + 1), lin(i, 3 * f + 2))
        /\ corr_test(q(1), q(4), q(16), q(10))
        /\ corr_test(q(1), q(7), q(17), q(13))
        /\ ckt_test(<< <<q(18), q(1)>>, <<q(19), q(4)>>, <<q(20), q(7)>>,
                       <<q(21), q(10)>>, <<q(22), q(13)>> >>, c)

\* The verdict: `result' is assigned anew at the first linearity test of every
\* repetition, so that only the last one counts.
result(passes, num_repetitions) == passes[num_repetitions - 1]

-----------------------------------------------------------------------------
(* Prover. *)

sizes == <<m, m * m, m * m, m^3, m^3>>

\* qquery_F_ptrs of one repetition: the vector of every query, 0 for NULL.
qquery_F_ptrs ==
    [k \in 0 .. Q(22) |->
       IF k < Q(16) THEN LET j == k % 15 IN IF j % 3 = 2 THEN 0 ELSE j \div 3 + 1
       ELSE <<4, 5, 1, 2, 3, 4, 5>>[k - Q(16) + 1]]

computation(B, A) == [i \in 0 .. m - 1 |-> Cardinality({j \in 0 .. m - 1 : A[j] # B[i * m + j]})]

assignment(B, A) ==
    LET S == [x \in 0 .. m * m - 1 |-> IF A[x % m] = B[x] THEN 0 ELSE 1]
        M == [x \in 0 .. m * m - 1 |-> IF A[x % m] = B[x] THEN 0 ELSE Invert(A[x % m] - B[x])]
    IN  << [j \in 0 .. m - 1 |-> A[j] % prime], M, S,
           [x \in 0 .. m^3 - 1 |-> modmult(A[x \div (m * m)], M[x % (m * m)])],
           [x \in 0 .. m^3 - 1 |-> modmult(A[x \div (m * m)], S[x % (m * m)])] >>

\* What the prover keeps of an instance: proof vectors, input and output.
instance(B, A) ==
    [F |-> assignment(B, A), z |-> A, out |-> computation(B, A), out_q |-> <<>>]

\* What the encrypted inner products decrypt to.
commitment(con, F) == DotAll(sizes, con, F)

prover_lin_queries(seed, pos) == AllLinQueries(seed, pos, sizes)

prover_corr_queries(q4) ==
    << <<4, create_corr_test_queries_reuse(q4[1], q4[2], q4[4])>>,
       <<5, create_corr_test_queries_reuse(q4[1], q4[3], q4[5])>> >>

\* Its own gamma_1 .. gamma_5, constraint by constraint.
prover_gamma(alpha, B) ==
    LET mm == m * m
        at(x, i, j) == x = j * mm + i * m + j      \* A_j times entry (i, j)
        pick(x, base) == SumFunction([ij \in (0 .. m - 1) \X (0 .. m - 1) |->
                                        IF at(x, ij[1], ij[2]) THEN alpha[base + ij[1] * m + ij[2]] ELSE 0])
    IN  << [j \in 0 .. m - 1 |-> SumFunction([i \in 0 .. m - 1 |-> alpha[mm + i * m + j]])
                                   + (-alpha[2 * mm + m + j])],
           [i \in 0 .. mm - 1 |-> (-alpha[i]) * B[i]],
           [i \in 0 .. mm - 1 |-> (-alpha[i]) + alpha[mm + i] * B[i] + (-alpha[2 * mm + (i \div m)])],
           [x \in 0 .. m * mm - 1 |-> pick(x, 0)],
           [x \in 0 .. m * mm - 1 |-> -pick(x, mm)] >>

prover_ckt_queries(alpha, B, q4) ==
    [f \in 1 .. 5 |-> <<f, create_ckt_test_queries(prover_gamma(alpha, B)[f], q4[f])>>]

=============================================================================
