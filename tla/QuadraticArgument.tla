--------------------------- MODULE QuadraticArgument ---------------------------
(***************************************************************************)
(* The argument of Ginger and of the four tailored computations for one    *)
(* batch: commitment, the queries that verifier and prover derive on their *)
(* own from the shared seed, answers, tests.  The modules instantiated     *)
(* here hold what differs between the computations.                        *)
(***************************************************************************)
EXTENDS LinearPcp, SequencesExt

CONSTANTS Apps,            \* the computations of this instance
          BatchSize,
          m,               \* size of the tailored computations
          NumVars, NumIO, NumCons, F1_index, Gamma12, Gamma0,    \* Ginger's constraints
          NUM_REPS_PCP, NUM_REPS_LIN,
          Order,           \* order of the ElGamal group
          SharedInput,     \* computation -> input0 or coefficients
          Inputs,          \* computation -> inputs of an instance
          PubSeeds, PrivSeed

Hd == INSTANCE HammingDistance
Pe == INSTANCE PolynomialEvaluation
Mx == INSTANCE MatrixMultiplication
Mq == INSTANCE RationalMatrix
Gi == INSTANCE GingerComputation

ASSUME ArgumentAssumption ==
    /\ {BatchSize, m, NUM_REPS_PCP, NUM_REPS_LIN} \subseteq Nat \ {0}
    /\ Apps \subseteq {"ginger", "hdist", "polyeval", "matrix", "matrix_q"}
    /\ Order > (m + 2 * m * m + 2 * m^3) * prime * prime

Instances == 0 .. BatchSize - 1
IsMatrix(a) == a \in {"matrix", "matrix_q"}

NumLin(a) ==
    CASE a = "ginger" -> Gi!NUM_LIN_QUERIES [] a = "hdist" -> Hd!NUM_LIN_QUERIES
      [] a = "polyeval" -> Pe!NUM_LIN_QUERIES [] OTHER -> Mx!NUM_LIN_QUERIES

\* num_lin_pcp_queries, and the alphas (matrix: gammas) of a repetition.
NumQueries(a) ==
    NumLin(a) * NUM_REPS_LIN
      + (CASE a = "ginger" -> 3 [] a = "hdist" -> 7 [] a = "polyeval" -> 5 [] OTHER -> 4)

NumAlphas(a) ==
    CASE a = "ginger" -> NumCons [] a = "hdist" -> Hd!num_cons
      [] a = "polyeval" -> Pe!num_cons [] OTHER -> Mx!num_cons

VectorSizes(a) ==
    CASE a = "ginger" -> Gi!commitment_query_sizes [] a = "hdist" -> Hd!commitment_query_sizes
      [] a = "polyeval" -> Pe!commitment_query_sizes [] a = "matrix" -> Mx!commitment_query_sizes
      [] OTHER -> Mq!q_commitment_query_sizes

ProverSizes(a) ==
    CASE a = "ginger" -> Gi!sizes [] a = "hdist" -> Hd!sizes
      [] a = "polyeval" -> Pe!sizes [] OTHER -> Mx!sizes

\* Where the s-th answer of a repetition goes (Q_list) and which dumped query it
\* answers (qquery_q_ptrs); matrix skips Q4 and Q5.
Q_list(a, s) ==
    CASE a = "ginger" -> Gi!Q_list[s] [] a = "hdist" -> Hd!Q_list[s]
      [] a = "polyeval" -> Pe!Q_list[s] [] OTHER -> Mx!Q_list[s]

qquery_q_ptrs(a, s) == IF IsMatrix(a) /\ s >= Mx!Q(4) THEN s + 2 ELSE s

qquery_F_ptrs(a) ==
    CASE a = "ginger" -> Gi!qquery_F_ptrs [] a = "hdist" -> Hd!qquery_F_ptrs
      [] a = "polyeval" -> Pe!qquery_F_ptrs [] a = "matrix" -> Mx!qquery_F_ptrs
      [] OTHER -> Mq!q_qquery_F_ptrs

\* Public values taken by the correction queries.
CorrDraws(a) == IF IsMatrix(a) THEN 2 * m * m ELSE 0

-----------------------------------------------------------------------------
VARIABLES app, pc,
          inst,        \* the input of every instance
          work,        \* what the prover computed: proof vectors and claims
          wrong,       \* "none", or what the prover claims wrongly
          todo,        \* the loop over the batch
          pub, rho, rep,
          v,           \* verifier: drawn, con, coins, filled, q4, q5
          p,           \* prover: drawn, dumped queries, q4, q5
          alphas,      \* the verifier's weights of every repetition
          c_values, corr_answers,
          sent,        \* the consistency queries as the prover has them, <<>> before
          com, answers, altered, accepted

vars == <<app, pc, inst, work, wrong, todo, pub, rho, rep, v, p, alphas, c_values,
          corr_answers, sent, com, answers, altered, accepted>>

input == <<app, inst, pub>>
claims == <<work, wrong>>
private == <<alphas, c_values, corr_answers, sent>>
verdict == <<com, answers, altered, accepted>>

NoAnswer == -1
Zero(sizes) == [f \in DOMAIN sizes |-> [i \in 0 .. sizes[f] - 1 |-> 0]]

Init ==
    /\ app \in Apps
    /\ pc = "commitment_query"
    /\ inst \in [Instances -> Inputs[app]]
    /\ pub \in PubSeeds
    /\ work = [b \in {} |-> 0]
    /\ wrong = [b \in Instances |-> "none"]
    /\ todo = 0 /\ rho = 0 /\ rep = 0
    /\ v = [drawn |-> 0, con |-> Zero(VectorSizes(app)), coins |-> [k \in {} |-> 0],
            filled |-> -1, q4 |-> <<>>, q5 |-> <<>>]
    /\ p = [drawn |-> 0, dumped |-> [k \in {} |-> 0], q4 |-> <<>>, q5 |-> <<>>]
    /\ alphas = [r \in {} |-> 0]
    /\ c_values = [k \in {} |-> 0] /\ corr_answers = [k \in {} |-> 0]
    /\ sent = <<>>
    /\ com = [b \in Instances |-> 0]
    /\ answers = [b \in {} |-> 0]
    /\ altered = [b \in Instances |-> NoAnswer]
    /\ accepted = [b \in Instances |-> FALSE]

\* The i-th private value after the secret vectors: the coin of answer i.
Secret(f, i) == Draw(PrivSeed, 7 * f + i)
Coin(k) == Draw(PrivSeed, 100 + k)

create_commitment_query ==
    /\ pc = "commitment_query"
    /\ v' = [v EXCEPT !.con = [f \in DOMAIN v.con |-> [i \in DOMAIN v.con[f] |-> Secret(f, i)]]]
    /\ pc' = "computation"
    /\ UNCHANGED <<input, claims, todo, rho, rep, p, private, verdict>>

-----------------------------------------------------------------------------
(* The prover's computation, proof vectors and commitment. *)

\* Inputs and outputs as field elements, and the proof vectors.
Computed(a, in) ==
    CASE a = "ginger" -> Gi!instance(in) [] a = "hdist" -> Hd!instance(SharedInput[a], in)
      [] a = "polyeval" -> Pe!instance(SharedInput[a], in) [] a = "matrix" -> Mx!instance(in)
      [] OTHER -> Mq!q_instance(in)

\* The output a prover may get wrong: the last one.
FaultAt(out) == CHOOSE o \in DOMAIN out : \A i \in DOMAIN out : i <= o

\* A wrong output, off by one; over the rationals also an output, or an input,
\* whose image in Zp is not the one sent along, with the proof vector of the
\* computation or with none ("blank": every entry is 0).
Claim(c, kind) ==
    LET o == FaultAt(c.out)
        off(q) == [q EXCEPT ![o].num = @ + q[o].den]
        next(x) == (x + 1) % prime
    IN  CASE kind = "none"       -> c
          [] kind = "output"     -> [c EXCEPT !.out[o] = @ + 1,
                                              !.out_q = IF @ = <<>> THEN @ ELSE off(@)]
          [] kind = "conversion" -> [c EXCEPT !.out_q = off(@)]
          [] kind = "image"      -> [c EXCEPT !.z[0] = next(@)]
          [] kind = "blank"      -> [c EXCEPT !.z[0] = next(@), !.F = Zero(ProverSizes(app))]

\* One pass of prover_computation_commitment's first loop.
prover_computation ==
    /\ pc = "computation"
    /\ \E kind \in {"none", "output"} \union (IF app = "matrix_q" THEN {"conversion", "image", "blank"} ELSE {}) :
         /\ wrong' = [wrong EXCEPT ![todo] = kind]
         /\ work' = [b \in 0 .. todo |-> IF b = todo THEN Claim(Computed(app, inst[b]), kind) ELSE work[b]]
    /\ IF todo < BatchSize - 1 THEN todo' = todo + 1 /\ pc' = pc
                               ELSE todo' = 0 /\ pc' = "commitment"
    /\ UNCHANGED <<input, rho, rep, v, p, private, verdict>>

Commitment(a, con, F) ==
    CASE a = "ginger" -> Gi!commitment(con, F) [] a = "hdist" -> Hd!commitment(con, F)
      [] a = "polyeval" -> Pe!commitment(con, F) [] a = "matrix" -> Mx!commitment(con, F)
      [] OTHER -> Mq!q_commitment(con, F)

\* Its second loop: what the encrypted inner products decrypt to.
prover_commitment ==
    /\ pc = "commitment"
    /\ com' = [b \in Instances |-> Commitment(app, v.con, work[b].F) % Order]
    /\ pc' = "verifier_queries"
    /\ UNCHANGED <<input, claims, todo, rho, rep, v, p, private, answers, altered, accepted>>

-----------------------------------------------------------------------------
(* Queries.  The prover's half shares nothing with the verifier's but the seed:
   deduce_queries is invoked first, and the order does not matter. *)

LinDraws(sizes) == 2 * SumFunction(sizes)

\* The first repetition's queries hide the later ones.
Keep(side, q) == [side EXCEPT !.q4 = [f \in DOMAIN q |-> q[f].l1], !.q5 = q[1].l2]

VerifierLin(a, pos) ==
    CASE a = "ginger" -> Gi!create_lin_queries(pub, pos) [] a = "hdist" -> Hd!lin_queries(pub, pos)
      [] a = "polyeval" -> Pe!lin_queries(pub, pos) [] a = "matrix" -> Mx!lin_queries(pub, pos)
      [] OTHER -> Mq!q_lin_queries(pub, pos)

ProverLin(a, pos) ==
    CASE a = "ginger" -> Gi!prover_create_lin_queries(pub, pos) [] a = "hdist" -> Hd!prover_lin_queries(pub, pos)
      [] a = "polyeval" -> Pe!prover_lin_queries(pub, pos) [] a = "matrix" -> Mx!prover_lin_queries(pub, pos)
      [] OTHER -> Mq!q_prover_lin_queries(pub, pos)

\* One linearity repetition of create_plain_queries: per vector three coins.
VerifierLinQueries ==
    /\ pc = "verifier_queries" /\ rep < NUM_REPS_LIN
    /\ LET sizes == VectorSizes(app)
           q     == VerifierLin(app, v.drawn)
           coin(f, j) == Coin(v.filled + 3 * (f - 1) + j)
           w == [v EXCEPT !.drawn = @ + LinDraws(sizes),
                          !.con = [f \in DOMAIN @ |-> AddLin(@[f], [j \in 1 .. 3 |-> coin(f, j)], q[f])],
                          !.filled = @ + 3 * Len(sizes),
                          !.coins = [k \in 0 .. v.filled + 3 * Len(sizes) |->
                                       IF k <= v.filled THEN @[k] ELSE Coin(k)]]
       IN  v' = IF rep = 0 THEN Keep(w, q) ELSE w
    /\ rep' = rep + 1
    /\ UNCHANGED <<input, pc, claims, todo, rho, p, private, verdict>>

\* The correction and the circuit queries, in the order in which their coins are
\* drawn; alpha is drawn between the two.
VerifierRest(a, alpha) ==
    LET f2 == Mx!MatrixQueries(pub, v.drawn)
    IN  CASE a = "ginger"   -> Gi!create_qct_queries(v.q4, v.q5) \o Gi!create_ckt_queries(alpha, v.q4)
          [] a = "hdist"    -> Hd!corr_queries(v.q4) \o Hd!ckt_queries(alpha, SharedInput[a], v.q4)
          [] a = "polyeval" -> Pe!corr_queries(v.q4, v.q5) \o Pe!ckt_queries(alpha, SharedInput[a], v.q4)
          [] a = "matrix"   -> Mx!corr_queries(f2, v.q4) \o Mx!ckt_queries(alpha, v.q4)
          [] a = "matrix_q" -> Mq!q_corr_queries(f2, v.q4) \o Mq!q_ckt_queries(alpha, v.q4)

CValue(a, alpha, w) ==
    CASE a = "ginger"   -> Gi!parse_gamma0(alpha, w.out)
      [] a = "hdist"    -> Hd!c_value(alpha, SharedInput[a], w.z, w.out)
      [] a = "polyeval" -> Pe!c_value(alpha, SharedInput[a], w.z, w.out)
      [] a = "matrix"   -> Mx!c_value(alpha, w.out)
      [] a = "matrix_q" -> Mq!q_c_value(alpha, w.out)

\* con plus coin times query, for every query of the list in turn.
AddRest(con, rest, first) ==
    FoldLeftDomain(LAMBDA acc, k : [acc EXCEPT ![rest[k][1]] =
                                      update_con_query(@, Coin(first + k - 1), rest[k][2])],
                   con, rest)

\* Over the rationals the images of inputs and outputs are checked on the way.
BadInputs == {b \in Instances : app = "matrix_q" /\ ~Mq!verify_conversion_to_z(work[b].z, inst[b])}
BadOutputs == {b \in Instances : app = "matrix_q" /\ ~Mq!verify_conversion_to_z(work[b].out, work[b].out_q)}
ConversionsHold == BadInputs = {} /\ BadOutputs = {}

\* Both sides go on to the next repetition, or to nextPc.
NextRho(nextPc) ==
    /\ rep' = 0
    /\ IF rho < NUM_REPS_PCP - 1 THEN rho' = rho + 1 /\ pc' = pc
                                 ELSE rho' = 0 /\ pc' = nextPc

\* The rest of a repetition.  After the last one the consistency queries go out.
VerifierRestQueries ==
    /\ pc = "verifier_queries" /\ rep = NUM_REPS_LIN
    /\ ConversionsHold
    /\ LET alpha == Draws(pub, v.drawn + CorrDraws(app), NumAlphas(app))
           rest  == VerifierRest(app, alpha)
           skip  == IF IsMatrix(app) THEN 2 ELSE 0       \* coins set to 0
           first == v.filled + skip + 1
           f2    == Mx!MatrixQueries(pub, v.drawn)
           cells == Instances \X {rho}
       IN  /\ v' = [v EXCEPT !.drawn = @ + CorrDraws(app) + NumAlphas(app),
                             !.con = AddRest(@, rest, first),
                             !.filled = first + Len(rest) - 1,
                             !.coins = [k \in 0 .. first + Len(rest) - 1 |->
                                          IF k <= v.filled THEN @[k] ELSE IF k < first THEN 0 ELSE Coin(k)]]
           /\ alphas' = [r \in 0 .. rho |-> IF r = rho THEN alpha ELSE alphas[r]]
           /\ c_values' = c_values @@ [k \in cells |-> CValue(app, alpha, work[k[1]])]
           /\ corr_answers' = corr_answers @@
                [k \in IF IsMatrix(app) THEN cells ELSE {} |->
                   IF app = "matrix" THEN Mx!corr_answer(work[k[1]].z, f2) ELSE Mq!q_corr_answer(work[k[1]].z, f2)]
    /\ NextRho("prover_queries")
    /\ sent' = IF rho = NUM_REPS_PCP - 1 THEN v'.con ELSE sent
    /\ UNCHANGED <<input, claims, todo, p, verdict>>

\* A conversion is wrong: create_plain_queries returns in the middle of the first
\* repetition, after the correction query (an input) or after the circuit query
\* (an output).  "Verification failed" is printed and recorded nowhere: the session
\* goes on to the tests.  No consistency query is sent; what was not reached stays
\* 0, also the answers that load_scalar finds no file for.
VerifierStops ==
    /\ pc = "verifier_queries" /\ rep = NUM_REPS_LIN
    /\ ~ConversionsHold
    /\ LET drawn == v.filled + (IF BadInputs # {} THEN 3 ELSE 4)
           bad   == IF BadInputs # {} THEN BadInputs ELSE BadOutputs
           stop  == CHOOSE b \in bad : \A o \in bad : b <= o
           f2    == Mx!MatrixQueries(pub, v.drawn)
           gamma == Draws(pub, v.drawn + CorrDraws(app), NumAlphas(app))
           cells == Instances \X (0 .. NUM_REPS_PCP - 1)
       IN  /\ v' = [v EXCEPT !.coins = [k \in 0 .. NUM_REPS_PCP * NumQueries(app) - 1 |->
                      IF k <= v.filled THEN @[k] ELSE IF k \in v.filled + 3 .. drawn THEN Coin(k) ELSE 0]]
           /\ corr_answers' = [k \in cells |->
                IF k[2] = 0 /\ (BadInputs # {} => k[1] < stop) THEN Mq!q_corr_answer(work[k[1]].z, f2) ELSE 0]
           /\ c_values' = [k \in cells |->
                IF k[2] = 0 /\ BadInputs = {} /\ k[1] < stop THEN CValue(app, gamma, work[k[1]]) ELSE 0]
    /\ rho' = 0 /\ rep' = 0 /\ pc' = "prover_queries"
    /\ UNCHANGED <<input, claims, todo, p, alphas, sent, verdict>>

\* deduce_queries: the prover dumps every query; of the third linearity query
\* only the number is used.
ProverLinQueries ==
    /\ pc = "prover_queries" /\ rep < NUM_REPS_LIN
    /\ LET sizes == ProverSizes(app)
           q     == ProverLin(app, p.drawn)
           base  == rep * NumLin(app)
           files == {<<rho, base + 3 * (f - 1) + j>> : f \in DOMAIN sizes, j \in {0, 1}}
           query(k) == LET n == k[2] - base
                       IN  IF n % 3 = 0 THEN q[n \div 3 + 1].l1 ELSE q[n \div 3 + 1].l2
           w == [p EXCEPT !.drawn = @ + LinDraws(sizes),
                          !.dumped = @ @@ [k \in files |-> query(k)]]
       IN  p' = IF rep = 0 THEN Keep(w, q) ELSE w
    /\ rep' = rep + 1
    /\ UNCHANGED <<input, pc, claims, todo, rho, v, private, verdict>>

ProverRest(a, alpha) ==
    LET f2 == Mx!MatrixQueries(pub, p.drawn)
    IN  CASE a = "ginger"   -> Gi!prover_create_qct_queries(p.q4, p.q5) \o Gi!prover_create_ckt_queries(alpha, p.q4)
          [] a = "hdist"    -> Hd!prover_corr_queries(p.q4) \o Hd!prover_ckt_queries(alpha, SharedInput[a], p.q4)
          [] a = "polyeval" -> Pe!prover_corr_queries(p.q4, p.q5) \o Pe!prover_ckt_queries(alpha, SharedInput[a], p.q4)
          [] a = "matrix"   -> Mx!prover_corr_queries(f2, p.q4) \o Mx!prover_ckt_queries(alpha, p.q4)
          [] a = "matrix_q" -> Mq!q_prover_queries(f2, alpha, p.q4)

ProverRestQueries ==
    /\ pc = "prover_queries" /\ rep = NUM_REPS_LIN
    /\ LET alpha == Draws(pub, p.drawn + CorrDraws(app), NumAlphas(app))
           rest  == ProverRest(app, alpha)
           first == NumQueries(app) - Len(rest)
           \* f1_q1 of a prover started anew, or as the last circuit query left it
           left  == {Zero(ProverSizes(app)), << [x \in 0 .. m^3 - 1 |-> alpha[x \div m]] >>}
       IN  /\ p' = [p EXCEPT !.drawn = @ + CorrDraws(app) + NumAlphas(app),
                             !.dumped = @ @@ [k \in {<<rho, first + j - 1>> : j \in DOMAIN rest} |->
                                                rest[k[2] - first + 1][2]]]
           /\ sent' \in IF sent = <<>> /\ rho = NUM_REPS_PCP - 1 THEN left ELSE {sent}
    /\ NextRho("answers")
    /\ UNCHANGED <<input, claims, todo, v, alphas, c_values, corr_answers, verdict>>

-----------------------------------------------------------------------------
(* Answers and tests. *)

\* The answer of instance b to the s-th query of repetition r; the third answer
\* to linearity queries is the sum of the last two.
Answer(b, r, s) ==
    LET direct(k) == LET f == qquery_F_ptrs(app)[k]
                     IN  dot_product(ProverSizes(app)[f], p.dumped[<<r, qquery_q_ptrs(app, k)>>], work[b].F[f])
    IN  IF qquery_F_ptrs(app)[s] = 0 THEN direct(s - 2) + direct(s - 1) ELSE direct(s)

NumAnswers == Cardinality(DOMAIN qquery_F_ptrs(app))       \* of a repetition

\* One pass of prover_answer_queries: the consistency answer and the others, one
\* of which may differ from the committed vectors', also by a multiple of p.
prover_answer_queries ==
    /\ pc = "answers"
    /\ \E k \in {NoAnswer} \union 0 .. NUM_REPS_PCP * NumAnswers - 1, delta \in {1, prime} :
         /\ k = NoAnswer => delta = 1
         /\ k # NoAnswer => wrong[todo] = "none" /\ \A b \in Instances : altered[b] = NoAnswer
         /\ altered' = [altered EXCEPT ![todo] = k]
         /\ answers' = answers @@ [b \in {todo} |->
              [con |-> DotAll(ProverSizes(app), sent, work[b].F),
               qquery |-> [t \in 0 .. NUM_REPS_PCP * NumAnswers - 1 |->
                             Answer(b, t \div NumAnswers, t % NumAnswers) + (IF t = k THEN delta ELSE 0)]]]
    /\ IF todo < BatchSize - 1 THEN todo' = todo + 1 /\ pc' = pc
                               ELSE todo' = 0 /\ pc' = "tests"
    /\ UNCHANGED <<input, claims, rho, rep, v, p, private, com, accepted>>

\* The position in f_answers of the t-th number of the answers file.
AnswerId(t) == (t \div NumAnswers) * NumQueries(app) + Q_list(app, t % NumAnswers)

\* prepare_answers: what is not in the file stays 0.
Read(b) ==
    LET at == [t \in DOMAIN answers[b].qquery |-> AnswerId(t)]
    IN  [k \in 0 .. NUM_REPS_PCP * NumQueries(app) - 1 |->
           IF \E t \in DOMAIN at : at[t] = k
           THEN answers[b].qquery[CHOOSE t \in DOMAIN at : at[t] = k] ELSE 0]

consistency_test(con, ans, s) ==
    LET t == con - SumFunction([k \in DOMAIN ans |-> v.coins[k] * ans[k]])
    IN  0 <= t /\ t < Order /\ t = s

\* The linearity, correction and circuit tests of repetition r.
RepetitionPasses(b, r) ==
    LET all == Read(b)
        ans == [k \in 0 .. NumQueries(app) - 1 |-> all[r * NumQueries(app) + k]]
        c   == c_values[<<b, r>>]
    IN  CASE app = "ginger"   -> Gi!repetition_passes(ans, c)
          [] app = "hdist"    -> Hd!repetition_passes(ans, c)
          [] app = "polyeval" -> Pe!repetition_passes(ans, c)
          [] app = "matrix"   -> Mx!repetition_passes(ans, c, corr_answers[<<b, r>>])
          [] app = "matrix_q" -> Mq!q_repetition_passes(ans, c, corr_answers[<<b, r>>])

run_correction_and_circuit_tests(b) ==
    LET passes == [r \in 0 .. NUM_REPS_PCP - 1 |-> RepetitionPasses(b, r)]
    IN  CASE app = "hdist"    -> Hd!result(passes, NUM_REPS_PCP)
          [] app = "polyeval" -> Pe!result(passes, NUM_REPS_PCP)
          [] OTHER            -> \A r \in DOMAIN passes : passes[r]

run_tests ==
    /\ pc = "tests"
    /\ accepted' = [accepted EXCEPT ![todo] =
          consistency_test(answers[todo].con, Read(todo), com[todo])
            /\ run_correction_and_circuit_tests(todo)]
    /\ IF todo < BatchSize - 1 THEN todo' = todo + 1 /\ pc' = pc
                               ELSE todo' = 0 /\ pc' = "done"
    /\ UNCHANGED <<input, claims, rho, rep, v, p, private, com, answers, altered>>

Next ==
    \/ create_commitment_query \/ prover_computation \/ prover_commitment
    \/ VerifierLinQueries \/ VerifierRestQueries \/ VerifierStops
    \/ ProverLinQueries \/ ProverRestQueries
    \/ prover_answer_queries \/ run_tests

Spec == Init /\ [][Next]_vars

-----------------------------------------------------------------------------
(* Properties. *)

\* Ginger's constraint k at an assignment, straight from the two files.
ConstraintHolds(in, k) ==
    LET F(x) == in.w[F1_index[x]]
    IN  (SumFunction([l \in {j \in DOMAIN Gamma12 : Gamma12[j].con = k} |->
             LET e == Gamma12[l] IN e.c * F(e.x) * (IF e.g = 2 THEN F(e.y) ELSE 1)])
          + SumFunction([l \in {j \in DOMAIN Gamma0 : Gamma0[j].con = k} |->
             LET e == Gamma0[l] IN e.c * (IF e.g = "G" THEN in.io[e.v] ELSE 1)])) % prime = 0

Satisfied(b) == app = "ginger" => \A k \in 0 .. NumCons - 1 : ConstraintHolds(inst[b], k)

\* The consistency queries that the verifier sent are its secret vectors plus,
\* for every answer that it will read, the coin of that answer times the query
\* that the prover derived on its own: five computations, each with two copies
\* of the construction (create_plain_queries, deduce_queries), agree on the order
\* of the draws, on the coins and on the numbering of the queries.
ConsistencyQueryMatches ==
    pc = "answers" /\ todo = 0 /\ sent = v.con =>
      \A f \in DOMAIN sent : \A i \in DOMAIN sent[f] :
        LET F == qquery_F_ptrs(app)
            query(r, s) == p.dumped[<<r, qquery_q_ptrs(app, s)>>][i]
            vector(s) == IF F[s] = 0 THEN F[s - 1] ELSE F[s]
            asked == {t \in (0 .. NUM_REPS_PCP - 1) \X DOMAIN F : vector(t[2]) = f}
        IN  sent[f][i] = Secret(f, i)
              + SumFunction([t \in asked |->
                  v.coins[AnswerId(t[1] * NumAnswers + t[2])]
                    * (IF F[t[2]] = 0 THEN query(t[1], t[2] - 2) + query(t[1], t[2] - 1)
                                      ELSE query(t[1], t[2]))])

\* An instance that was computed and answered honestly passes every test,
\* whatever the other instance of the batch did, unless a rational of the batch
\* was converted wrongly, which stops the verifier (run_tests).
HonestAccepted ==
    pc = "done" /\ ConversionsHold =>
      \A b \in Instances : wrong[b] = "none" /\ altered[b] = NoAnswer /\ Satisfied(b) => accepted[b]

\* The weight of the last output in the circuit test of repetition r.
OutputWeight(b, r) ==
    LET o == FaultAt(work[b].out)
    IN  CASE app = "ginger"   -> SumMod([l \in {j \in DOMAIN Gamma0 : Gamma0[j].g = "G" /\ Gamma0[j].v = o} |->
                                        alphas[r][Gamma0[l].con] * Gamma0[l].c])
          [] app = "hdist"    -> alphas[r][2 * m * m + o]
          [] app = "polyeval" -> alphas[r][0]
          [] OTHER            -> alphas[r][o]

\* The integers of every instance are the images of its rationals.
ImagesRight ==
    app = "matrix_q" => \A b \in Instances :
      /\ \A i \in DOMAIN inst[b] : work[b].z[i] % prime = Mq!convert_to_z(inst[b][i])
      /\ \A i \in DOMAIN work[b].out : work[b].out[i] % prime = Mq!convert_to_z(work[b].out_q[i])

\* Nothing is held against instance b: its committed vector is 0, and so are all the
\* values that the verifier compares the answers with.
NothingExpected(b) ==
    /\ \A f \in DOMAIN work[b].F : \A i \in DOMAIN work[b].F[f] : work[b].F[f][i] = 0
    /\ \A r \in 0 .. NUM_REPS_PCP - 1 : c_values[<<b, r>>] % prime = 0 /\ corr_answers[<<b, r>>] % prime = 0

\* A wrong output is refused whenever the circuit test of the last repetition
\* gives it a weight (c_values, create_gamma0).  When a rational of the batch has a
\* wrong image, the early return of create_plain_queries leaves no verdict behind,
\* only coins and expected values that were not set: every instance, the wrong
\* one included, is refused, except where nothing is expected of it, and there it
\* is accepted although the verification is said to have failed
\* (verify_conversion_to_z, run_correction_and_circuit_tests).
WrongOutputRefused ==
    pc = "done" => \A b \in Instances :
      IF ImagesRight
      THEN wrong[b] = "output" /\ Satisfied(b) /\ OutputWeight(b, NUM_REPS_PCP - 1) # 0 => ~accepted[b]
      ELSE altered[b] = NoAnswer => (accepted[b] <=> NothingExpected(b))

\* A prover that is said to have passed all the tests passed those of every
\* repetition (run_correction_and_circuit_tests).
EveryRepetitionCounts ==
    pc = "done" => \A b \in Instances :
      accepted[b] => \A r \in 0 .. NUM_REPS_PCP - 1 : RepetitionPasses(b, r)

=============================================================================
