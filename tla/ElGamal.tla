-------------------------------- MODULE ElGamal --------------------------------
(***************************************************************************)
(* The encrypted inner product of the commitment (crypto.cpp): the         *)
(* verifier encrypts a vector in the exponent and dumps the ciphertexts    *)
(* interleaved, the prover raises them to its proof vector with a team of  *)
(* threads whose partial products are merged in a critical section, and    *)
(* the verifier decrypts the result.                                       *)
(***************************************************************************)
EXTENDS Integers, FiniteSets, Functions

CONSTANTS p, g,           \* modulus and generator
          r,              \* private key
          Size,           \* elements of the vectors
          NumThreads,     \* NUM_THREADS
          Plains,         \* vectors the verifier may encrypt
          Vectors,        \* proof vectors of the prover
          Rands           \* what get_randomb may return

Idx == 0 .. Size - 1
Threads == 0 .. NumThreads - 1

Pow(b, n) == LET f[i \in 0 .. n] == IF i = 0 THEN 1 ELSE (f[i - 1] * b) % p IN f[n]

\* The order of the generator.
q == (p - 1) \div 2

ASSUME ElGamalAssumption ==
    /\ {p, g, r, Size, NumThreads} \subseteq Nat \ {0} /\ p > 2
    /\ Pow(g, q) = 1 /\ \A k \in 1 .. q - 1 : Pow(g, k) # 1
    /\ Plains \subseteq [Idx -> Nat] /\ Vectors \subseteq [Idx -> Nat] /\ Rands \subseteq Nat

gr == Pow(g, r)

VARIABLES pc,
          plain, d,          \* the verifier's and the prover's vector
          cipher,            \* pairs, then the dumped and loaded file
          file,
          output,            \* shared [c1, c2]
          tpc, priv, seen,   \* threads: control, partial result, output as read
          lock,              \* who is in the critical section
          share,             \* the elements each thread multiplies
          simul,             \* the build: SIMUL_EXP_TRICK
          opened             \* what the verifier decrypts

vars == <<pc, plain, d, cipher, file, output, tpc, priv, seen, lock, share, simul, opened>>
team == <<share, simul>>
threadVars == <<tpc, priv, seen, lock, team>>

One == [c1 |-> 1, c2 |-> 1]
NoThread == NumThreads

\* dot_product_simel_enc: equal blocks, the last thread also takes the remainder.
Block(t) == t * (Size \div NumThreads) ..
            (IF t = NumThreads - 1 THEN Size ELSE (t + 1) * (Size \div NumThreads)) - 1

\* dot_product_regular_enc: `omp for' deals the iterations out as the runtime likes.
OmpFor == {[t \in Threads |-> {i \in Idx : of[i] = t}] : of \in [Idx -> Threads]}

Init ==
    /\ pc = "encrypt"
    /\ plain \in Plains /\ d \in Vectors
    /\ cipher = [i \in Idx |-> One]
    /\ file = [i \in {} |-> 0]
    /\ output = One
    /\ tpc = [t \in Threads |-> "block"]
    /\ priv = [t \in Threads |-> One] /\ seen = [t \in Threads |-> One]
    /\ lock = NoThread
    /\ simul \in BOOLEAN
    /\ share \in IF simul THEN {[t \in Threads |-> Block(t)]} ELSE OmpFor
    /\ opened = 0

-----------------------------------------------------------------------------
\* elgamal_enc_with_rand: g^plain hidden by gr^k.
elgamal_enc(m, k) == [c1 |-> Pow(g, k), c2 |-> (Pow(gr, k) * Pow(g, m)) % p]

\* elgamal_smul: a ciphertext of coefficient times the plaintext.
elgamal_smul(x, coefficient) ==
    IF coefficient = 0 THEN One ELSE [c1 |-> Pow(x.c1, coefficient), c2 |-> Pow(x.c2, coefficient)]

elgamal_hadd(x, y) == [c1 |-> (x.c1 * y.c1) % p, c2 |-> (x.c2 * y.c2) % p]

\* c2 / c1^r.
elgamal_dec(x) == LET s == Pow(x.c1, r)
                      inv == CHOOSE v \in 0 .. p - 1 : (v * s) % p = 1
                  IN  (inv * x.c2) % p

\* elgamal_enc_vec: the randomness is drawn first, for all elements.
elgamal_enc_vec ==
    /\ pc = "encrypt"
    /\ \E k \in [Idx -> Rands] : cipher' = [i \in Idx |-> elgamal_enc(plain[i], k[i])]
    /\ pc' = "dump"
    /\ UNCHANGED <<plain, d, file, output, threadVars, opened>>

\* dump_vector_interleaved: first all c1, then all c2.
Interleaved(c) == [n \in 0 .. 2 * Size - 1 |-> IF n < Size THEN c[n].c1 ELSE c[n - Size].c2]

dump_vector_interleaved ==
    /\ pc = "dump"
    /\ file' = Interleaved(cipher)
    /\ pc' = "dot_product"
    /\ UNCHANGED <<plain, d, cipher, output, threadVars, opened>>

\* gmpmee_spowm_block over each half of the interleaved vector.
Spowm(off, elements) ==
    FoldFunctionOnSet(LAMBDA a, b : (a * b) % p, 1, [i \in Idx |-> Pow(file[off + i], d[i])], elements)

ThreadBlock(t) ==
    /\ pc = "dot_product" /\ simul /\ tpc[t] = "block"
    /\ priv' = [priv EXCEPT ![t] = [c1 |-> Spowm(0, share[t]), c2 |-> Spowm(Size, share[t])]]
    /\ tpc' = [tpc EXCEPT ![t] = "merge"]
    /\ UNCHANGED <<pc, plain, d, cipher, file, output, seen, lock, team, opened>>

\* The other build multiplies the elements in one by one, pair by pair.
Hadds(elements) ==
    FoldFunctionOnSet(elgamal_hadd, One,
        [i \in Idx |-> elgamal_smul([c1 |-> file[i], c2 |-> file[Size + i]], d[i])], elements)

ThreadLoop(t) ==
    /\ pc = "dot_product" /\ ~simul /\ tpc[t] = "block"
    /\ priv' = [priv EXCEPT ![t] = Hadds(share[t])]
    /\ tpc' = [tpc EXCEPT ![t] = "merge"]
    /\ UNCHANGED <<pc, plain, d, cipher, file, output, seen, lock, team, opened>>

\* The loop of `omp for' ends in a barrier.
PastBarrier == simul \/ \A u \in Threads : tpc[u] # "block"

\* Mutant: no critical section.
MutEnterCritical(t) ==
    /\ tpc[t] = "merge" /\ PastBarrier
    /\ seen' = [seen EXCEPT ![t] = output]
    /\ lock' = t
    /\ tpc' = [tpc EXCEPT ![t] = "critical"]
    /\ UNCHANGED <<pc, plain, d, cipher, file, output, priv, team, opened>>

\* #pragma omp critical around elgamal_hadd, which reads output ...
EnterCritical(t) ==
    /\ tpc[t] = "merge" /\ PastBarrier /\ lock = NoThread
    /\ seen' = [seen EXCEPT ![t] = output]
    /\ lock' = t
    /\ tpc' = [tpc EXCEPT ![t] = "critical"]
    /\ UNCHANGED <<pc, plain, d, cipher, file, output, priv, team, opened>>

\* Mutant: the section is left without being released.
MutLeaveCritical(t) ==
    /\ tpc[t] = "critical"
    /\ output' = elgamal_hadd(seen[t], priv[t])
    /\ lock' = lock
    /\ tpc' = [tpc EXCEPT ![t] = "joined"]
    /\ UNCHANGED <<pc, plain, d, cipher, file, priv, seen, team, opened>>

\* ... and writes it.
LeaveCritical(t) ==
    /\ tpc[t] = "critical"
    /\ output' = elgamal_hadd(seen[t], priv[t])
    /\ lock' = NoThread
    /\ tpc' = [tpc EXCEPT ![t] = "joined"]
    /\ UNCHANGED <<pc, plain, d, cipher, file, priv, seen, team, opened>>

\* The end of the parallel region joins the team; the verifier decrypts.
JoinAndDecrypt ==
    /\ pc = "dot_product" /\ \A t \in Threads : tpc[t] = "joined"
    /\ opened' = elgamal_dec(output)
    /\ pc' = "done"
    /\ UNCHANGED <<plain, d, cipher, file, output, threadVars>>

ThreadStep(t) == ThreadBlock(t) \/ ThreadLoop(t) \/ EnterCritical(t) \/ LeaveCritical(t)

Next == elgamal_enc_vec \/ dump_vector_interleaved \/ (\E t \in Threads : ThreadStep(t)) \/ JoinAndDecrypt

\* Every thread of the team runs, and so does the thread that forked it.
Spec ==
    /\ Init /\ [][Next]_vars
    /\ WF_vars(elgamal_enc_vec \/ dump_vector_interleaved \/ JoinAndDecrypt)
    /\ \A t \in Threads : WF_vars(ThreadStep(t))

-----------------------------------------------------------------------------
\* The verifier decrypts g to the inner product of the two vectors, whatever
\* randomness was drawn and in whichever order the threads merged their parts,
\* in either build (dot_product_simel_enc, dot_product_regular_enc, elgamal_dec).
DecryptsInnerProduct ==
    pc = "done" => opened = Pow(g, SumFunction([i \in Idx |-> plain[i] * d[i]]) % q)

\* The team always joins: no thread waits for the critical section for ever.
TeamJoins == <>(pc = "done")

=============================================================================
