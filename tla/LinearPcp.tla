------------------------------ MODULE LinearPcp ------------------------------
(***************************************************************************)
(* What every argument of libv is made of (class Venezia): linearity,      *)
(* correction and circuit queries, answers and tests.  Vectors are         *)
(* functions on 0..n-1, as in the code.                                    *)
(***************************************************************************)
EXTENDS PrimeField, FiniteSets

(* The k-th value of a pseudorandom stream: fixed by the seed. *)
Draw(seed, k) == (seed * (1 + (k + 1)^3) + (seed \div prime) * k * k + 5 * (k \div prime) * k) % prime

\* get_random_vec_pub: the next n values of the shared stream.
Draws(seed, pos, n) == [i \in 0 .. n - 1 |-> Draw(seed, pos + i)]

\* create_lin_test_queries: l1 and l2 of `size' elements, drawn alternately.
LinQueries(seed, pos, size) ==
    [l1 |-> [i \in 0 .. size - 1 |-> Draw(seed, pos + 2 * i)],
     l2 |-> [i \in 0 .. size - 1 |-> Draw(seed, pos + 2 * i + 1)]]

\* A repetition's linearity queries: the vectors one after the other.
AllLinQueries(seed, pos, sizes) ==
    [f \in DOMAIN sizes |->
       LinQueries(seed, pos + 2 * SumFunction([g \in 1 .. f - 1 |-> sizes[g]]), sizes[f])]

\* con + (c1 + c3) * l1 + (c2 + c3) * l2: the third query is l1 + l2.
AddLin(vec, c, q) == [i \in DOMAIN vec |-> vec[i] + (c[1] + c[3]) * q.l1[i] + (c[2] + c[3]) * q.l2[i]]

\* update_con_query: no reduction.
update_con_query(vec, coin, q) == [i \in DOMAIN vec |-> vec[i] + coin * q[i]]

-----------------------------------------------------------------------------
(* Correction and circuit queries, hidden by a linearity query. *)

\* c1 (x) c2 + r.
create_corr_test_queries_reuse(c1, c2, r) ==
    LET n2 == Cardinality(DOMAIN c2)
    IN  [x \in DOMAIN r |-> (c1[x \div n2] * c2[x % n2] + r[x]) % prime]

\* Entry (i, j, k) is q1[i, k] * q2[k, j] + r.
create_corr_test_queries_vproduct(m, q1, q2, r) ==
    [x \in DOMAIN r |-> LET i == x \div (m * m)
                            j == (x \div m) % m
                            k == x % m
                        IN  (q1[i * m + k] * q2[k * m + j] + r[x]) % prime]

create_ckt_test_queries(a, r) == [i \in DOMAIN r |-> (r[i] + a[i]) % prime]

-----------------------------------------------------------------------------
(* Answers and tests. *)

\* The inner product over the integers: no reduction.
dot_product(size, q, d) == SumFunction([i \in 0 .. size - 1 |-> q[i] * d[i]])

\* The sum over the proof vectors F of their inner products with con.
DotAll(sizes, con, F) == SumFunction([f \in DOMAIN F |-> dot_product(sizes[f], con[f], F[f])])

lin_test(a1, a2, a3) == (a1 + a2) % prime = a3 % prime

corr_test(a1, a2, a3, a4) == (a1 * a2) % prime = (a3 - a4) % prime

\* arr pairs an answer with the answer to the query that hides it.
ckt_test(arr, c) == (c + SumFunction([i \in DOMAIN arr |-> arr[i][1] - arr[i][2]])) % prime = 0

=============================================================================
