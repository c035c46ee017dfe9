------------------------- MODULE MatrixMultiplication -------------------------
(***************************************************************************)
(* The tailored argument for C = A * B, m by m (matrix_cubicp_v.cpp,       *)
(* matrix_cubicp_p.cpp).  The only proof vector holds the products         *)
(* A[i,k] * B[k,j]; the verifier answers two of the correction queries     *)
(* itself, from the inputs.  An input is A followed by B.                  *)
(***************************************************************************)
EXTENDS LinearPcp, Sequences

CONSTANTS m, NUM_REPS_LIN

NUM_LIN_QUERIES == 3
num_cons == m * m

Q(k) == IF k <= NUM_LIN_QUERIES THEN k - 1
        ELSE NUM_LIN_QUERIES * NUM_REPS_LIN + k - NUM_LIN_QUERIES - 1

A(in, i, k) == in[i * m + k]
B(in, k, j) == in[m * m + k * m + j]

\* f2_q1 and f2_q2, drawn alternately.
MatrixQueries(seed, pos) == [first  |-> [i \in 0 .. m * m - 1 |-> Draw(seed, pos + 2 * i)],
                             second |-> [i \in 0 .. m * m - 1 |-> Draw(seed, pos + 2 * i + 1)]]

-----------------------------------------------------------------------------
(* Verifier. *)

commitment_query_sizes == <<m^3>>

\* Q4 and Q5 stand for the two queries that the verifier answers itself.
Q_list == [s \in 0 .. Q(5) |-> IF s < Q(4) THEN s ELSE s + 2]

lin_queries(seed, pos) == AllLinQueries(seed, pos, commitment_query_sizes)

corr_queries(f2, q4) == << <<1, create_corr_test_queries_vproduct(m, f2.first, f2.second, q4[1])>> >>

\* corr_answer: the sum over k of <column k of A, f2_q1> * <row k of B, f2_q2>.
corr_answer(in, f2) ==
    SumMod([k \in 0 .. m - 1 |->
           SumFunction([j \in 0 .. m - 1 |-> A(in, j, k) * f2.first[j * m + k]])
             * SumFunction([i \in 0 .. m - 1 |-> B(in, k, i) * f2.second[k * m + i]])])

ckt_queries(gamma, q4) ==
    << <<1, create_ckt_test_queries([x \in 0 .. m^3 - 1 |-> gamma[x \div m] % prime], q4[1])>> >>

\* Not reduced; the claimed outputs may be negative or exceed the prime.
c_value(gamma, output) == SumFunction([j \in 0 .. m * m - 1 |-> -gamma[j] * output[j]])

repetition_passes(ans, c, corr) ==
    /\ \A i \in 0 .. NUM_REPS_LIN - 1 : lin_test(ans[3 * i], ans[3 * i + 1], ans[3 * i + 2])
    /\ corr_test(corr, 1, ans[Q(6)], ans[Q(1)])
    /\ ckt_test(<< <<ans[Q(7)], ans[Q(1)]>> >>, c)

-----------------------------------------------------------------------------
(* Prover. *)

sizes == <<m^3>>

qquery_F_ptrs == [k \in 0 .. Q(5) |-> IF k < Q(4) /\ k % 3 = 2 THEN 0 ELSE 1]

computation(in) ==
    [x \in 0 .. m * m - 1 |-> SumFunction([k \in 0 .. m - 1 |-> A(in, x \div m, k) * B(in, k, x % m)])]

assignment(in) ==
    << [x \in 0 .. m^3 - 1 |-> modmult(A(in, x \div (m * m), x % m), B(in, x % m, (x \div m) % m))] >>

\* What the prover keeps of an instance: proof vectors, input and output.
instance(in) == [F |-> assignment(in), z |-> in, out |-> computation(in), out_q |-> <<>>]

\* What the encrypted inner products decrypt to.
commitment(con, F) == DotAll(sizes, con, F)

prover_lin_queries(seed, pos) == AllLinQueries(seed, pos, sizes)

prover_corr_queries(f2, q4) ==
    << <<1, create_corr_test_queries_vproduct(m, f2.first, f2.second, q4[1])>> >>

prover_ckt_queries(gamma, q4) ==
    LET a == [x \in 0 .. m^3 - 1 |-> gamma[((x \div (m * m)) * m) + ((x \div m) % m)] % prime]
    IN  << <<1, create_ckt_test_queries(a, q4[1])>> >>

=============================================================================
