--------------------------- MODULE GingerComputation ---------------------------
(***************************************************************************)
(* Ginger's argument for a compiled computation (gcomputation_v.cpp,       *)
(* gcomputation_p.cpp).  The constraints come in two files: Gamma12 holds  *)
(* the terms in one and in two intermediate variables, Gamma0 the terms in *)
(* inputs and outputs and the constants.  The proof vectors are the        *)
(* variables F1 and F2 = F1 (x) F1.                                        *)
(***************************************************************************)
EXTENDS LinearPcp, Sequences

CONSTANTS NumVars, NumIO,
          NumCons,
          F1_index,      \* variable -> position in F1
          Gamma12,       \* sequence of [g, c, con, x, y], g = 1 or 2
          Gamma0,        \* sequence of [g, c, con, v], g = "G" or "C"
          NUM_REPS_LIN

NUM_LIN_QUERIES == 6

Q(k) == IF k <= NUM_LIN_QUERIES THEN k - 1
        ELSE NUM_LIN_QUERIES * NUM_REPS_LIN + k - NUM_LIN_QUERIES - 1

-----------------------------------------------------------------------------
(* Verifier. *)

commitment_query_sizes == <<NumVars, NumVars * NumVars>>

\* The part of one repetition: the code's list runs through all of them, and is
\* read to its end with the first.
Q_list == [s \in 0 .. Q(9) |-> s]

create_lin_queries(seed, pos) == AllLinQueries(seed, pos, commitment_query_sizes)

create_qct_queries(q4, q5) == << <<2, create_corr_test_queries_reuse(q4[1], q5, q4[2])>> >>

\* parse_gamma12: the weight of every variable and of every product.
parse_gamma12(alpha) ==
    LET at(g, i) == SumFunction([k \in DOMAIN Gamma12 |->
                      LET l == Gamma12[k]
                          pos == IF g = 1 THEN F1_index[l.x] ELSE F1_index[l.x] * NumVars + F1_index[l.y]
                      IN  IF l.g = g /\ pos = i THEN alpha[l.con] * l.c ELSE 0])
    IN  << [i \in 0 .. NumVars - 1 |-> at(1, i)], [i \in 0 .. NumVars * NumVars - 1 |-> at(2, i)] >>

create_ckt_queries(alpha, q4) ==
    [f \in 1 .. 2 |-> <<f, create_ckt_test_queries(parse_gamma12(alpha)[f], q4[f])>>]

\* parse_gamma0: not reduced.
parse_gamma0(alpha, io) ==
    SumFunction([k \in DOMAIN Gamma0 |->
      LET l == Gamma0[k] IN alpha[l.con] * l.c * (IF l.g = "G" THEN io[l.v] ELSE 1)])

repetition_passes(ans, c) ==
    LET q(k) == ans[Q(k)]
        lin(i, k) == ans[i * NUM_LIN_QUERIES + k]
    IN  /\ \A i \in 0 .. NUM_REPS_LIN - 1, f \in 0 .. 1 :
             lin_test(lin(i, 3 * f), lin(i, 3 * f + 1), lin(i, 3 * f + 2))
        /\ corr_test(q(1), q(2), q(7), q(4))
        /\ ckt_test(<< <<q(8), q(1)>>, <<q(9), q(4)>> >>, c)

-----------------------------------------------------------------------------
(* Prover. *)

sizes == <<NumVars, NumVars * NumVars>>

qquery_F_ptrs ==
    [k \in 0 .. Q(9) |->
       IF k < Q(7) THEN LET j == k % 6 IN IF j % 3 = 2 THEN 0 ELSE j \div 3 + 1
       ELSE <<2, 1, 2>>[k - Q(7) + 1]]

\* Products for j <= i, copied above the diagonal.
compute_assignment_vectors(F1) ==
    LET product(i, j) == modmult(F1[i], F1[j])
    IN  << F1, [t \in 0 .. NumVars * NumVars - 1 |->
                  LET i == t \div NumVars
                      j == t % NumVars
                  IN  IF j <= i THEN product(i, j) ELSE product(j, i)] >>

\* The interpreter (PwsInterpreter) left the variables in.w, inputs and outputs
\* in.io.
instance(in) == [F |-> compute_assignment_vectors(in.w), z |-> in.io, out |-> in.io, out_q |-> <<>>]

\* What the encrypted inner products decrypt to.
commitment(con, F) == DotAll(sizes, con, F)

prover_create_lin_queries(seed, pos) == AllLinQueries(seed, pos, sizes)

prover_create_qct_queries(q4, q5) == << <<2, create_corr_test_queries_reuse(q4[1], q5, q4[2])>> >>

prover_parse_gamma12(alpha) ==
    LET lines(g) == {k \in DOMAIN Gamma12 : Gamma12[k].g = g}
        weight(k) == alpha[Gamma12[k].con] * Gamma12[k].c
        X(k) == F1_index[Gamma12[k].x]
        Y(k) == F1_index[Gamma12[k].y]
    IN  << [i \in 0 .. NumVars - 1 |->
              SumFunction([k \in {l \in lines(1) : X(l) = i} |-> weight(k)])],
           [i \in 0 .. NumVars * NumVars - 1 |->
              SumFunction([k \in {l \in lines(2) : X(l) * NumVars + Y(l) = i} |-> weight(k)])] >>

prover_create_ckt_queries(alpha, q4) ==
    [f \in 1 .. 2 |-> <<f, create_ckt_test_queries(prover_parse_gamma12(alpha)[f], q4[f])>>]

=============================================================================
