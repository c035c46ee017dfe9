---------------------------- MODULE ZaatarArgument ----------------------------
(***************************************************************************)
(* The arithmetic of Zaatar's argument for one batch (libv): the           *)
(* commitment, the queries that verifier and prover derive independently   *)
(* from the shared decommit seed, the prover's proof vectors and answers,  *)
(* the answers file, and the verifier's tests.  PepperSession orders the   *)
(* messages; this module is about the numbers they carry.                  *)
(*                                                                         *)
(* F1 is the vector of intermediate variables and F2 the coefficients of   *)
(* H = (A*B + C)/D.  Vectors are functions on 0..n-1, as in the code.      *)
(***************************************************************************)
EXTENDS Qap, SequencesExt

CONSTANTS BatchSize,     \* instances 0 .. BatchSize-1, all of one prover
          NUM_REPS_PCP, NUM_REPS_LIN,
          Order,         \* order of the ElGamal group
          Assignments,   \* [w, io]: what interpret_constraints may compute
          PubSeeds, PrivSeeds

ASSUME ZaatarAssumption ==
    /\ {BatchSize, NUM_REPS_PCP, NUM_REPS_LIN} \subseteq Nat \ {0}
    /\ Order > (Size1 + Size2) * prime * prime
    /\ Assignments \subseteq [w : [0 .. Size1 - 1 -> Zp], io : [0 .. SizeIO - 1 -> Zp]]
    /\ PubSeeds \subseteq Nat /\ PrivSeeds \subseteq Nat

Instances == 0 .. BatchSize - 1

NUM_LIN_QUERIES == 6
NUM_LIN_PCP_QUERIES == NUM_REPS_LIN * NUM_LIN_QUERIES + 4
AnswerIds == 0 .. NUM_REPS_PCP * NUM_LIN_PCP_QUERIES - 1

Q7  == NUM_LIN_QUERIES * NUM_REPS_LIN
Q8  == Q7 + 1
Q9  == Q7 + 2
Q10 == Q7 + 3

-----------------------------------------------------------------------------
VARIABLES pc,
          build,       \* the build of verifier and prover
          inst,        \* inst[b]: the assignment of instance b
          H,           \* z_poly_H_c, kept from one instance to the next
          F2,          \* f2_assignment_vector_b_%d
          todo,        \* the loop over instances
          pub, priv,   \* seeds of the decommit stream and of the verifier's own
          vdrawn, kdrawn, pdrawn,   \* values taken: verifier public, private; prover public
          con, coins, filled,       \* consistency queries, coins, f_con_filled
          rho, rep,                 \* loop counters of both sides' query construction
          corr, pcorr,              \* self-correction queries f1_q4, f2_q4 of each side
          tau_io,                   \* d_star and the A, B, C of constant and io, per rho
          queries,                  \* the prover's q%d_qquery_r_%d files
          com,                      \* decrypted commitment answers
          file,                     \* answers_%d: offset -> value
          altered,                  \* the answer of each instance that is not the honest one
          accepted

vars == <<pc, build, inst, H, F2, todo, pub, priv, vdrawn, kdrawn, pdrawn, con, coins, filled,
          rho, rep, corr, pcorr, tau_io, queries, com, file, altered, accepted>>

verifierQ == <<vdrawn, kdrawn, con, coins, filled, corr, tau_io>>
proverQ == <<pdrawn, pcorr, queries>>
results == <<com, file, altered, accepted>>

NoAnswer == -1
ZeroVec == [f \in {1, 2} |-> [i \in 0 .. Size(f) - 1 |-> 0]]

\* The verifier's vectors and counters before the first message.
VerifierInit ==
    /\ pub \in PubSeeds /\ priv \in PrivSeeds
    /\ vdrawn = 0 /\ kdrawn = 0
    /\ con = ZeroVec
    /\ coins = [k \in AnswerIds |-> 0]
    /\ filled = -1
    /\ corr = ZeroVec
    /\ tau_io = [r \in {} |-> 0]
    /\ accepted = [b \in Instances |-> FALSE]

\* The prover's; interpret_constraints computes its assignments.
ProverInit ==
    /\ inst \in [Instances -> Assignments]
    /\ H = [i \in 0 .. Chi |-> 0]
    /\ F2 = [b \in Instances |-> [i \in 0 .. Chi |-> 0]]
    /\ pdrawn = 0
    /\ pcorr = ZeroVec
    /\ queries = [k \in {} |-> 0]
    /\ com = [b \in Instances |-> 0]
    /\ file = [b \in Instances |-> [o \in {} |-> 0]]
    /\ altered = [b \in Instances |-> NoAnswer]

Init ==
    /\ pc = "commitment_query"
    /\ build \in Builds
    /\ todo = 0
    /\ rho = 0 /\ rep = 0
    /\ VerifierInit
    /\ ProverInit

\* The secret vectors r; f1_ and f2_consistency start from them.
create_commitment_query ==
    /\ pc = "commitment_query"
    /\ con' = [f \in {1, 2} |-> [i \in 0 .. Size(f) - 1 |->
                 Draw(priv, (IF f = 1 THEN 0 ELSE Size1) + i)]]
    /\ kdrawn' = Size1 + Size2
    /\ pc' = "computation"
    /\ UNCHANGED <<build, inst, H, F2, todo, pub, priv, vdrawn, coins, filled, rho, rep, corr, tau_io,
                   proverQ, results>>

\* One pass of prover_do_computation's loop: the proof vectors of an instance.
prover_do_computation ==
    /\ pc = "computation"
    /\ H' = NextH(build, inst[todo], H)
    /\ F2' = [F2 EXCEPT ![todo] = H']
    /\ IF todo < BatchSize - 1
       THEN todo' = todo + 1 /\ pc' = pc
       ELSE todo' = 0 /\ pc' = "commitment"
    /\ UNCHANGED <<build, inst, pub, priv, rho, rep, verifierQ, proverQ, results>>

\* prover_interactive: the encrypted inner products; decryption yields the
\* exponent <r, F> modulo the order of the group.
prover_interactive ==
    /\ pc = "commitment"
    /\ com' = [b \in Instances |->
                 (dot_product(Size1, con[1], inst[b].w) + dot_product(Size2, con[2], F2[b])) % Order]
    /\ pc' = "verifier_queries"
    /\ UNCHANGED <<build, inst, H, F2, todo, pub, priv, rho, rep, verifierQ, proverQ, file, altered, accepted>>

-----------------------------------------------------------------------------
(* The verifier's queries: create_plain_queries.  Only the consistency     *)
(* queries and the coins are kept; the queries themselves are not sent.    *)

\* The coins of `n' answers, from f_con_filled + 1 on.
Fill(n) == [k \in AnswerIds |-> IF k \in filled + 1 .. filled + n
                                THEN Draw(priv, kdrawn + k - (filled + 1)) ELSE coins[k]]

\* One linearity repetition: three coins and two queries to F1, then to F2.
VerifierLinQueries ==
    /\ pc = "verifier_queries" /\ rep < NUM_REPS_LIN
    /\ LET q1 == LinQueries(pub, vdrawn, Size1)
           q2 == LinQueries(pub, vdrawn + 2 * Size1, Size2)
           c1 == [j \in 1 .. 3 |-> Draw(priv, kdrawn + j - 1)]
           c2 == [j \in 1 .. 3 |-> Draw(priv, kdrawn + 3 + j - 1)]
       IN  /\ coins' = Fill(6)
           /\ con' = [con EXCEPT ![1] = AddLin(@, c1, q1), ![2] = AddLin(@, c2, q2)]
           /\ corr' = IF rep = 0 THEN <<q1.l1, q2.l1>> ELSE corr
    /\ vdrawn' = vdrawn + 2 * (Size1 + Size2)
    /\ kdrawn' = kdrawn + 6
    /\ filled' = filled + 6
    /\ rep' = rep + 1
    /\ UNCHANGED <<pc, build, inst, H, F2, todo, pub, priv, rho, tau_io, proverQ, results>>

\* After the last repetition of a rho both sides go on to the next one.
NextRho(nextPc) ==
    /\ rep' = 0
    /\ IF rho < NUM_REPS_PCP - 1 THEN rho' = rho + 1 /\ pc' = pc
                                 ELSE rho' = 0 /\ pc' = nextPc

\* What the verifier keeps of a tau: D(tau) and the rows of constant, inputs, outputs.
Kept(tau) ==
    LET io(poly) == LET e == eval_poly(build, poly, tau)
                    IN  [i \in 0 .. SizeIO |-> IF i = 0 THEN e[0] ELSE e[NumVars + i]]
    IN  [d |-> D_star(build, tau), a |-> io(PolyA), b |-> io(PolyB), c |-> io(PolyC)]

\* The divisibility queries of a rho.  A tau that is one of the roots ends the
\* verifier (VerifierHitsRoot), except in the tree build, where it makes every
\* row and D(tau) 0 and the test of that rho empty.
VerifierDivQueries ==
    /\ pc = "verifier_queries" /\ rep = NUM_REPS_LIN
    /\ LET tau == Draw(pub, vdrawn)
           q   == DivQueries(build, tau, corr)
           c   == [j \in 1 .. 4 |-> Draw(priv, kdrawn + j - 1)]
       IN  /\ build = "tree" \/ \A i \in 0 .. Size2 - 1 : tau # powers_of_omega[i]
           /\ coins' = Fill(4)
           /\ con' = [con EXCEPT
                ![1] = [i \in DOMAIN @ |-> @[i] + c[1] * q.a[i] + c[2] * q.b[i] + c[3] * q.c[i]],
                ![2] = [i \in DOMAIN @ |-> @[i] + c[4] * q.d[i]]]
           /\ tau_io' = [r \in 0 .. rho |-> IF r = rho THEN Kept(tau) ELSE tau_io[r]]
    /\ vdrawn' = vdrawn + 1
    /\ kdrawn' = kdrawn + 4
    /\ filled' = filled + 4
    /\ NextRho("prover_queries")
    /\ UNCHANGED <<build, inst, H, F2, todo, pub, priv, corr, proverQ, results>>

VerifierHitsRoot ==
    /\ pc = "verifier_queries" /\ rep = NUM_REPS_LIN
    /\ build # "tree"
    /\ \E i \in 0 .. Size2 - 1 : Draw(pub, vdrawn) = powers_of_omega[i]
    /\ pc' = "exit"
    /\ UNCHANGED <<build, inst, H, F2, todo, pub, priv, rho, rep, verifierQ, proverQ, results>>

-----------------------------------------------------------------------------
(* The prover's queries: deduce_queries, from its own copy of the stream.  *)

\* Query file q(j+1)_qquery_r_rho is entry rho * NUM_LIN_PCP_QUERIES + j.
Dump(j0, qs) ==
    LET base == rho * NUM_LIN_PCP_QUERIES + j0
    IN  [k \in DOMAIN queries \union {base + j : j \in DOMAIN qs} |->
           IF k - base \in DOMAIN qs THEN qs[k - base] ELSE queries[k]]

\* Mutant: the second query of F1 is drawn after all of the first.
MutProverLinQueries ==
    /\ pc = "prover_queries" /\ rep < NUM_REPS_LIN
    /\ LET q1 == [l1 |-> [i \in 0 .. Size1 - 1 |-> Draw(pub, pdrawn + i)],
                  l2 |-> [i \in 0 .. Size1 - 1 |-> Draw(pub, pdrawn + Size1 + i)]]
           q2 == LinQueries(pub, pdrawn + 2 * Size1, Size2)
       IN  /\ queries' = Dump(rep * NUM_LIN_QUERIES,
                              [j \in {0, 1, 3, 4} |-> CASE j = 0 -> q1.l1 [] j = 1 -> q1.l2
                                                        [] j = 3 -> q2.l1 [] j = 4 -> q2.l2])
           /\ pcorr' = IF rep = 0 THEN <<q1.l1, q2.l1>> ELSE pcorr
    /\ pdrawn' = pdrawn + 2 * (Size1 + Size2)
    /\ rep' = rep + 1
    /\ UNCHANGED <<pc, build, inst, H, F2, todo, pub, priv, rho, verifierQ, results>>

\* The third query of each linearity test is not dumped.
ProverLinQueries ==
    /\ pc = "prover_queries" /\ rep < NUM_REPS_LIN
    /\ LET q1 == LinQueries(pub, pdrawn, Size1)
           q2 == LinQueries(pub, pdrawn + 2 * Size1, Size2)
       IN  /\ queries' = Dump(rep * NUM_LIN_QUERIES,
                              [j \in {0, 1, 3, 4} |-> CASE j = 0 -> q1.l1 [] j = 1 -> q1.l2
                                                        [] j = 3 -> q2.l1 [] j = 4 -> q2.l2])
           /\ pcorr' = IF rep = 0 THEN <<q1.l1, q2.l1>> ELSE pcorr
    /\ pdrawn' = pdrawn + 2 * (Size1 + Size2)
    /\ rep' = rep + 1
    /\ UNCHANGED <<pc, build, inst, H, F2, todo, pub, priv, rho, verifierQ, results>>

\* The prover does not meet a root: the verifier would have exited before.
ProverDivQueries ==
    /\ pc = "prover_queries" /\ rep = NUM_REPS_LIN
    /\ LET q == DivQueries(build, Draw(pub, pdrawn), pcorr)
       IN  queries' = Dump(Q7, [j \in 0 .. 3 |-> <<q.a, q.b, q.c, q.d>>[j + 1]])
    /\ pdrawn' = pdrawn + 1
    /\ NextRho("answers")
    /\ UNCHANGED <<build, inst, H, F2, todo, pub, priv, pcorr, verifierQ, results>>

-----------------------------------------------------------------------------
(* Answers and the file that carries them. *)

\* Third answers of linearity tests: qquery_F_ptrs is NULL.
IsThird(k) == LET j == k % NUM_LIN_PCP_QUERIES IN j < Q7 /\ j % 3 = 2

\* Whether answer k is about F1 or F2.
Vector(k) == LET j == k % NUM_LIN_PCP_QUERIES
             IN  IF j < Q7 THEN (IF j % 6 < 3 THEN 1 ELSE 2) ELSE (IF j < Q10 THEN 1 ELSE 2)

\* What prover_answer_queries computes for instance b: the answer to the query
\* of the dumped file, or the sum of the last two answers.
Answer(b, k) ==
    LET direct(m) == IF Vector(m) = 1 THEN dot_product(Size1, queries[m], inst[b].w)
                                      ELSE dot_product(Size2, queries[m], F2[b])
    IN  IF IsThird(k) THEN direct(k - 2) + direct(k - 1) ELSE direct(k)

ConsistencyAnswer(b) == dot_product(Size1, con[1], inst[b].w) + dot_product(Size2, con[2], F2[b])

\* mpz_out_raw: four bytes of length, then the bytes of a nonnegative number.
RawSize(v) == 4 + (CHOOSE n \in 0 .. 4 : v < 256^n /\ (n = 0 \/ v >= 256^(n - 1)))

\* write_answer_to_file: after a number the writer seeks forward once more by
\* its size, so that every number takes twice its bytes.
Written(values) ==
    LET put(f, v) == [end |-> f.end + 2 * RawSize(v), at |-> (f.end :> v) @@ f.at]
    IN  FoldLeft(put, [end |-> 0, at |-> <<>>], values).at

\* Mutant: the reader does not skip the gap.
MutSkip(v) == RawSize(v)

\* What prepare_answers seeks past after a number.
Skip(v) == 2 * RawSize(v)

\* The s-th number read; at the end of the file nothing is read, 0 stays.
ReadFile(f) ==
    LET pos[s \in 0 .. Cardinality(AnswerIds)] ==
          IF s = 0 THEN 0
          ELSE LET p == pos[s - 1] IN IF p \in DOMAIN f THEN p + Skip(f[p]) ELSE p
    IN  [s \in DOMAIN pos |-> IF pos[s] \in DOMAIN f THEN f[pos[s]] ELSE 0]

\* One pass of prover_answer_queries: the answers of instance `todo', one of
\* which may differ from the committed vectors', also by a multiple of p, which
\* no test modulo p notices.
prover_answer_queries ==
    /\ pc = "answers"
    /\ \E k \in AnswerIds \union {NoAnswer}, delta \in {1, prime} :
         /\ k # NoAnswer => \A b \in Instances : altered[b] = NoAnswer
         /\ altered' = [altered EXCEPT ![todo] = k]
         /\ file' = [file EXCEPT ![todo] = Written(
               <<ConsistencyAnswer(todo)>> \o
               [s \in 1 .. Cardinality(AnswerIds) |->
                  Answer(todo, s - 1) + (IF s - 1 = k THEN delta ELSE 0)])]
    /\ IF todo < BatchSize - 1
       THEN todo' = todo + 1 /\ pc' = pc
       ELSE todo' = 0 /\ pc' = "tests"
    /\ UNCHANGED <<build, inst, H, F2, pub, priv, rho, rep, verifierQ, proverQ, com, accepted>>

-----------------------------------------------------------------------------
(* The verifier's tests. *)

\* Mutant: the opening is not compared with the commitment.
MutConsistencyTest(a, ans, s) ==
    LET t == a - SumFunction([k \in AnswerIds |-> coins[k] * ans[k]])
    IN  0 <= t /\ t < Order

\* b - <a, alpha> over the integers lies in [0, Order) and opens the commitment.
consistency_test(a, ans, s) ==
    LET t == a - SumFunction([k \in AnswerIds |-> coins[k] * ans[k]])
    IN  0 <= t /\ t < Order /\ t % Order = s

\* (Q10 - Q4) * D(tau) = A*B + C, with A, B, C completed by the constant, the
\* inputs and the outputs; `kept' is what the verifier kept of tau.
div_test(kept, io, q1, q4, q7, q8, q9, q10) ==
    LET with(row, q) == row[0] + SumFunction([i \in 1 .. SizeIO |-> io[i - 1] * row[i]]) + (q - q1)
    IN  ((q10 - q4) * kept.d) % prime
          = (with(kept.a, q7) * with(kept.b, q8) + with(kept.c, q9)) % prime

run_interactive_tests(ans, io) ==
    \A r \in 0 .. NUM_REPS_PCP - 1 :
      LET base == r * NUM_LIN_PCP_QUERIES
      IN  /\ \A i \in 0 .. NUM_REPS_LIN - 1 :
               LET b == base + i * NUM_LIN_QUERIES
               IN  lin_test(ans[b], ans[b + 1], ans[b + 2]) /\ lin_test(ans[b + 3], ans[b + 4], ans[b + 5])
          /\ div_test(tau_io[r], io, ans[base], ans[base + 3],
                      ans[base + Q7], ans[base + Q8], ans[base + Q9], ans[base + Q10])

\* prepare_answers and run_tests for instance `todo'.
run_tests ==
    /\ pc = "tests"
    /\ LET read == ReadFile(file[todo])
           ans  == [k \in AnswerIds |-> read[k + 1]]
       IN  accepted' = [accepted EXCEPT ![todo] =
              consistency_test(read[0], ans, com[todo]) /\ run_interactive_tests(ans, inst[todo].io)]
    /\ IF todo < BatchSize - 1
       THEN todo' = todo + 1 /\ pc' = pc
       ELSE todo' = 0 /\ pc' = "done"
    /\ UNCHANGED <<build, inst, H, F2, pub, priv, rho, rep, verifierQ, proverQ, com, file, altered>>

Next ==
    \/ create_commitment_query \/ prover_do_computation \/ prover_interactive
    \/ VerifierLinQueries \/ VerifierDivQueries \/ VerifierHitsRoot
    \/ ProverLinQueries \/ ProverDivQueries
    \/ prover_answer_queries \/ run_tests

Spec == Init /\ [][Next]_vars

-----------------------------------------------------------------------------
(* Properties. *)

\* An assignment satisfies the constraint system: A_j * B_j + C_j = 0 at every
\* constraint j = 1..Chi.
Satisfies(asg) ==
    \A j \in 1 .. Chi :
      (poly_pv(PolyA, asg)[j] * poly_pv(PolyB, asg)[j] + poly_pv(PolyC, asg)[j]) % prime = 0

\* The consistency query the verifier sent is its secret vector plus, for every
\* answer, its coin times the query that the prover derived on its own: both
\* sides drew the same values in the same order, coin k belongs to answer k,
\* and the third linearity query, never built, is the sum of the first two
\* (create_plain_queries against deduce_queries).
ConsistencyQueryMatches ==
    pc = "answers" /\ todo = 0 =>
      \A f \in {1, 2} : \A i \in 0 .. Size(f) - 1 :
        con[f][i] = Draw(priv, (IF f = 1 THEN 0 ELSE Size1) + i)
          + SumFunction([k \in {m \in AnswerIds : Vector(m) = f} |->
              coins[k] * (IF IsThird(k) THEN queries[k - 2][i] + queries[k - 1][i] ELSE queries[k][i])])

\* An instance whose constraints are satisfied and whose answers are those of
\* the committed vectors passes every test, whatever the other instances of the
\* batch did (run_tests).
HonestAccepted ==
    pc = "done" => \A b \in Instances :
                     Satisfies(inst[b]) /\ altered[b] = NoAnswer => accepted[b]

\* An answer that differs from the committed vectors' is refused when its coin
\* is not 0 (consistency_test).
AlteredAnswerRefused ==
    pc = "done" => \A b \in Instances :
                     altered[b] # NoAnswer /\ coins[altered[b]] # 0 => ~accepted[b]

\* The divisibility test decides satisfiability: with a satisfied instance it
\* holds at every tau that is not a root, with another one at no more than
\* 2 * Chi of them, the degree of A*B + C - H*D, even though the prover then
\* keeps the H of an earlier instance (compute_assignment_vectors).
DivisibilityDecides ==
    pc = "commitment" => \A b \in Instances :
      LET dot(row) == SumFunction([i \in 0 .. Size1 - 1 |-> row[i + 1] * inst[b].w[i]])
          passes(t) == div_test(Kept(t), inst[b].io, 0, 0,
                                dot(eval_poly(build, PolyA, t)), dot(eval_poly(build, PolyB, t)), dot(eval_poly(build, PolyC, t)),
                                SumFunction([i \in 0 .. Chi |-> Power(t, i) * F2[b][i]]))
          taus == Zp \ Range(qap_roots[build])
      IN  IF Satisfies(inst[b]) THEN \A t \in taus : passes(t)
          ELSE Cardinality({t \in taus : passes(t)}) <= 2 * Chi

=============================================================================
