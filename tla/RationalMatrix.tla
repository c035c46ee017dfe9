---------------------------- MODULE RationalMatrix ----------------------------
(***************************************************************************)
(* Matrix multiplication over the rationals (matrix_cubicp_q_v.cpp,        *)
(* matrix_cubicp_q_p.cpp): the argument of MatrixMultiplication, copied,   *)
(* about the images of the rationals in Zp, which the prover computes and  *)
(* the verifier checks.  A rational is [num, den], den > 0.                *)
(***************************************************************************)
EXTENDS MatrixMultiplication

\* convert_to_z: num / den in Zp.
convert_to_z(q) == modmult(Invert(q.den), q.num)

\* Mutant: the loop stops before the last element.
Mutverify_conversion_to_z(z, q) ==
    \A i \in DOMAIN q : i + 1 \in DOMAIN q => (z[i] * q[i].den - q[i].num) % prime = 0

verify_conversion_to_z(z, q) == \A i \in DOMAIN q : (z[i] * q[i].den - q[i].num) % prime = 0

\* mpq_add and mpq_mul; the fractions are compared by value, never reduced.
Plus(x, y) == [num |-> x.num * y.den + y.num * x.den, den |-> x.den * y.den]
Times(x, y) == [num |-> x.num * y.num, den |-> x.den * y.den]

\* computation_matrixmult: the images A, their product C, and C_q.
q_computation(in_q) ==
    LET z  == [i \in DOMAIN in_q |-> convert_to_z(in_q[i])]
        cq == [x \in 0 .. m * m - 1 |->
                 FoldFunction(Plus, [num |-> 0, den |-> 1],
                              [k \in 0 .. m - 1 |-> Times(A(in_q, x \div m, k), B(in_q, k, x % m))])]
    IN  [z |-> z, out |-> computation(z), out_q |-> cq]

\* The same code as in the integer version, on the images.
q_assignment(in) == assignment(in)
q_commitment_query_sizes == commitment_query_sizes
q_lin_queries(seed, pos) == lin_queries(seed, pos)
q_corr_queries(f2, q4) == corr_queries(f2, q4)
q_corr_answer(in, f2) == corr_answer(in, f2)
q_ckt_queries(gamma, q4) == ckt_queries(gamma, q4)
q_c_value(gamma, output) == c_value(gamma, output)
q_repetition_passes(ans, c, corr) == repetition_passes(ans, c, corr)
q_qquery_F_ptrs == qquery_F_ptrs
q_instance(in_q) ==
    LET c == q_computation(in_q) IN [F |-> q_assignment(c.z), z |-> c.z, out |-> c.out, out_q |-> c.out_q]
q_commitment(con, F) == commitment(con, F)
q_prover_lin_queries(seed, pos) == prover_lin_queries(seed, pos)
q_prover_queries(f2, gamma, q4) == prover_corr_queries(f2, q4) \o prover_ckt_queries(gamma, q4)

=============================================================================
