# A TLA+ verification project for Pepper / Ginger / Zaatar / Allspice

The repository builds *verified computation*: a verifier hands a batch of inputs
of one computation to untrusted provers and checks, more cheaply than it could
recompute, that the returned outputs are right. This directory holds TLA+ models
of the parts of the program that carry its protocol logic, TLC configurations
that check them on small instances, and TLAPS proofs that hold for every
instance. All paths below are relative to `code/pepper/` unless they start
otherwise.

The models follow the build the repository is configured for (`flags`,
`common/utility.h`): `INTERFACE_MPI`, `FOLDER_STATE_SHARED 1`, `NUM_PROVERS_MAX 60`.
Where a macro chooses between algorithms that must agree, the model has all of
them: Zaatar, Ginger and the tailored applications; the three interpolations of
Zaatar; the two encrypted inner products; both forms of the CMT matrix circuit.

## 1. Inventory

### 1.1 libv session (`libv/verifier.cpp`, `libv/prover.cpp`)

*State.* Rank 0 runs `Verifier::begin_pepper`; rank 1, the coordinator, and the
ranks after it, the slaves, run `Prover::handle_requests`. Each prover keeps the
phase it was invoked for, its batch range and a loop counter. All data lives in
files of one shared folder, which may hold those of an earlier session.

*Operations.* Send parameters; set up commitment query and inputs; invoke a phase;
divide the batch and invoke slaves; compute, commit, answer an instance; report;
derive queries from the seed; test an instance; terminate.

*Interaction.* MPI messages with five tags carry parameters and notifications;
files carry everything else. No reply is awaited after the query-derivation phase.

*Correct when* every instance is committed to before the query seed is published
and is frozen afterwards; a phase is over for everybody when the coordinator
reports it; each instance has exactly one prover; nothing the tests read stems
from an earlier session; the session ends and only known messages stay unread.

### 1.2 The arguments (`libv/`, `apps_tailored/`)

*Zaatar* (`zcomputation_*.cpp`, `libv.cpp`). State: constraint matrices A, B, C; per
instance a proof vector (intermediate variables and coefficients of H); secret
commitment vectors and coins of the verifier; queries each side derives on its own
from the seed; an answers file. *Correct when* both sides draw the same values in
the same order, so that the consistency query is the secret plus the coins times
the prover's queries; a satisfied instance passes all tests regardless of its
batch; an answer other than the committed one is refused; the divisibility test
decides satisfiability up to the degree bound, whichever interpolation is built in.

*Ginger* (`gcomputation_*.cpp`) and the *tailored applications* (Hamming distance,
cubic polynomials, integer and rational matrix products) run in the same session with
the same commitment and the older linear PCP: linearity, quadratic correction and
circuit tests. Each has hand-written queries in a verifier and a prover copy.
*Correct when* the copies agree, honest instances are accepted, every repetition
counts, and a wrong output, or an integer that is not its rational's image, is refused
(section 3 names where the code does not).

### 1.3 Cryptography (`crypto/`)

`prng.cpp` keeps a buffer of ChaCha keystream with an index; requests that do not
fit refill it, and `get_random` rejects values above the modulus. `crypto.cpp`
encrypts vectors with ElGamal in the exponent, writes them interleaved and
multiplies powers with a team of OpenMP threads that merge in a critical
section. *Correct when* reads stay in the buffer and use no byte twice, rejection
leaves a uniform value, and decryption gives the inner product for every thread
schedule. `powm_cache.cpp`, `gpu_crypto.cpp` and `lib_gpu/` are faster
exponentiations for other builds.

### 1.4 CMT protocol (`cmtgkr/base`, `cmtgkr/cmtgkr_env.cpp`)

*State.* The verifier has a layer, a sumcheck round, an expected value per
instance; each prover has a loop it is in (`run`, sumcheck, `doMiniIP`), a level,
its own round count, and the circuits of its instances.

*Operations.* The verifier broadcasts a request and gathers answers one prover at
a time; headers decide which loop of the prover handles a request, and each loop
ignores the others' headers. After a failed check it broadcasts END_LAYER and
END_CMT.

*Correct when* an answer is never taken for another; acceptance means that every
check of every layer passed for every instance; nobody waits for an answer that
will not come, also for ranks that have no instance; the provers leave their
loops in the end; and, arithmetically, the folded polynomials are those of the
sumcheck protocol and a correct prover is never rejected.

### 1.5 CMT network layer (`cmtgkr/net`)

A message is two MPI messages, header and body, with different tags; the body is
received into a buffer that grows; statistics of the last message double as the
length of what was received. *Correct when* headers meet their bodies, the buffer
holds what it claims to, and vectors are read from the last message only.

### 1.6 Worksheets and circuits (`libv/computation_p.cpp`, `cmtgkr/circuit`, `cmtgkr/apps`)

The compiler writes one *prover worksheet* per computation, and it has two readers.
The interpreter of libv executes it statement by statement over the rationals. The
circuit parser of CMT turns the same text into layers of add and multiply gates,
with values carried from layer to layer, constraints on the output layer and *magic
operations* that compute the auxiliary values between slices of the evaluation.
*Correct when* the interpreter computes what a statement means, the two readings
give the same outputs, and the auxiliary values of either meet the constraints.

The hand-written CMT circuits (Hamming distance, matrix product) come with closed
forms of their wiring predicates, which the verifier evaluates at random points in place
of the gates. The values of a circuit's layers are kept in a cache of bounded size
with files behind it. *Correct when* each closed form is the multilinear extension of
the wiring of its level, the circuit computes the answer, both sides agree on its
first and last layer, and the cache cannot be told from memory. Section 3 names where
the Hamming circuit falls short of that.

### 1.7 The rest

Input creation and exogenous checks, measurements, multi-precision containers, the
HTTP transport, faster exponentiations, the compiler front end (Java,
`code/compiler/frontend`), its back end (Python), job scripts and retained
third-party code are not modelled; `PROJECT.json` gives the reason for each.

### 1.8 What is hard

The list with its lines is under `hazards` in `PROJECT.json`. In short: the slaves also
report to rank 0 (who may be mistaken for the coordinator); a reply that is not
awaited; files of an earlier session in the folder; silent success of
`load_vector` on missing files; integer division of batches at its boundaries;
two derivations of the same queries, once per application; a verdict overwritten by
the next repetition; an `H` kept from the previous instance; a file format with gaps;
three nested prover loops that ignore each other's requests; two message streams with
one header; coins that hit special points; a buffer at its end; threads that merge
results; one text with two readers; lazily reduced numbers that are compared; a
cache that guesses sizes at random.

## 2. Modules

| module | models | code |
|---|---|---|
| `BatchPartition` | the two divisions of a batch, as operators | `prover.cpp` (`handle_terminal_request`), `cmt_protocol_config.h` |
| `BatchDivision` | what the divisions promise | the same, and `main_impl.h` |
| `PepperSession` | verifier, coordinator, slaves, channels, folder | `verifier.cpp`, `prover.cpp` |
| `BatchArgument` | abstract specification of a session | – |
| `LinearPcp` | queries, answers and tests common to all arguments | `libv.cpp` |
| `Qap` | roots, polynomials at tau, three interpolations, the quotient H | `libv.cpp`, `zcomputation_*.cpp` |
| `ZaatarArgument` | the numbers of one Zaatar batch | `zcomputation_*.cpp`, `verifier.cpp`, `prover.cpp` |
| `QuadraticArgument` | the numbers of one batch of Ginger or of a tailored application | `verifier.cpp`, `prover.cpp`, `libv.cpp` |
| `GingerComputation`, `HammingDistance`, `PolynomialEvaluation`, `MatrixMultiplication`, `RationalMatrix` | what differs between those: proof vectors, queries of both sides, tests | `gcomputation_*.cpp`, `apps_tailored/*.cpp` |
| `ElGamal` | encrypted inner product with threads, two builds | `crypto.cpp` |
| `Prng` | keystream buffer and rejection sampling | `prng.cpp` |
| `CmtProtocol` | CMT requests and answers with several provers | `cmt_circuit_*.cpp`, `cmt_sumcheck_*.cpp`, `cmt_verifier.cpp`, `main_impl.h` |
| `PrimeField`, `CmtSumcheck` | arithmetic of one layer | `cmtgkr_env.cpp`, `cmt_sumcheck_*.cpp`, `circuit_layer.cpp` |
| `NetClient` | a pair of message clients | `net_client.cpp`, `mpi_client.cpp`, `net_stat.cpp` |
| `GmpNumbers`, `PwsInterpreter` | rationals and their images; the interpreter | `utility.cpp`, `computation_p.cpp` |
| `PwsCircuit`, `PwsParser` | gates, carries and reductions; the statements as gates and constraints | `pws_circuit_parser.cpp`, `pws_primitives.h` |
| `PwsMachine` | one worksheet through both readers | `computation_p.cpp`, `pws_circuit.cpp`, `magic_var_operation.cpp` |
| `WiringPredicates`, `AppCircuits`, `AppTasks` | closed forms; the levels of the hand-written circuits; their inputs and claims | `cmtgkr_env.cpp`, `wiremle_*.cpp`, `basic_cmt_circuit.cpp`, `apps/*_circuit.cpp` |
| `CircuitEvaluation` | specification of a circuit's life with all values at hand | `circuit.cpp`, `cmt_circuit.cpp` |
| `CachedCircuit` | the same with the cache of layers | `circuit_data.cpp`, `circuit_data.h` |
| `MC...` | constants for TLC | – |
| `ArithmeticLemmas` | lemmas shared by the proofs: division, residues, sums and folds over finite sets, recursive functions | – |
| `BatchDivisionProofs`, `PrngProofs`, `NetClientProofs`, `CmtProtocolProofs`, `ElGamalProofs`, `ZaatarArgumentProofs` | TLAPS proofs | – |
| `PepperSessionProofs` | TLAPS proofs: types and excess ranks; the session's invariant, its safety and the refinement | – |

`PepperSession` composes `BatchPartition` and implements `BatchArgument`;
`CmtProtocol` uses the other half of `BatchPartition`; `CachedCircuit` implements
`CircuitEvaluation`; `PwsMachine` composes interpreter, parser and evaluation.
`ZaatarArgument` and `QuadraticArgument` fill in the numbers of the messages that
`PepperSession` orders, and `CmtSumcheck` those of `CmtProtocol`.

### How the modules correspond to the code

**PepperSession.** A step is the code between two points at which another rank
can be observed: a receive, a file somebody else reads, one instance of a batch
loop. `pc[r]` names those points. A file is abstracted to where its contents
come from: `none`, `old` (not, or not only, of this session) or `new`; a file
computed from a missing or old one is `old`, which is what `load_vector`'s silent
return does. The initial folder is empty or full of an earlier session's files,
DONE files included. Channels are FIFO per pair and tag. The provers are honest here; a
wrong prover is the subject of `ZaatarArgument`. Sends are buffered: every
message is a few bytes, and the code itself relies on it, since the slaves'
reports to rank 0 and some TERMINATE messages are never received (`OnlyOrphans`
lists exactly these).

**Qap, ZaatarArgument.** Integers modulo a small prime; vectors are functions on
`0..n-1`. `Draw(seed, k)` is the k-th value of a stream that is determined by
its seed; `Prng` models the stream's buffer. The commitment is represented by its
decrypted value modulo `Order`, the order of the group; that decryption gives
this value is `ElGamal`'s property. An answer may be altered after the
commitment. `build` is the interpolation that was compiled in, the same for both
sides. With the FFT a seed whose tau is a root of D ends the verifier by `exit(1)`, as in
the code, and that instance of the protocol has no verdict; the tree build goes on,
with a test that is empty.

**QuadraticArgument.** One state machine for five computations: commitment,
verifier's queries, prover's queries, answers, tests, with one action per repetition and
kind of query. The builders of queries are operators of the instantiated modules,
one for each copy in the code, and return the queries in the order in which the
code draws and numbers them. An instance is honest, has a wrong output, or (rational
matrices) an integer that is not the image of its rational, with the proof vector of the
computation or with zeros; an answer may be altered.

**PwsMachine.** The worksheet is a sequence of statements whose polynomials are
sequences of tokens; tokenising characters is left out. A step is a statement
(interpreter and parser) or a magic operation with the slice of gates before it
(evaluation). A gate has a rational and a residue that is reduced only where the code
reduces it.

**AppCircuits, CachedCircuit.** A level is built by one operator per call of the code
and carries the names of its closed forms. Every access of the evaluation goes
through the cache: `load` evicts while the estimated size exceeds the budget. The
estimate of a layer is the size of one gate picked at random times the number of gates
and is drawn anew at every use, so it is a choice here; the assertion that may fail and the
subtraction that may wrap around are modelled, with the width of `size_t` as a
constant.

**CmtProtocol.** A broadcast is one step: sends are buffered into queues that only
their own prover reads, so the order of one broadcast's sends cannot be observed.
A gather is one step per receive. Field elements are abstracted to the outcome of
the check they enter, and a prover in `Faulty` may compute values that fail.

**CmtSumcheck.** One layer and one instance; request and answer alternate, as
`CmtProtocol` shows, so a round is one step. The wiring predicates are evaluated
from the gates. `REQ_SC_POLY` carries the coin of the round it asks for
(`cmt_sumcheck_v.cpp:86-90`), so the prover knows it when it answers; the
properties are about a prover that computes by this code, and statistical
soundness is not claimed.
`StaleZ` is the value of the coordinate after a layer's last one: 0 at the output
layer, a coordinate of an earlier, larger layer below it.

**NetClient.** Bodies are sequences of numbers of which only the sizes matter. The
two ends send, receive and read as they like.

**ElGamal, Prng.** One action per call; each thread of the inner product has its
own steps for its elements, for entering the critical section and for the merge.
`SIMUL_EXP_TRICK` gives each thread a block; without it `omp for` may deal the
elements out in any way and ends in a barrier. Key
generation is left out: every caller passes `gen_keys = false`.

## 3. Runs

| run | instance | shows |
|---|---|---|
| `session` | 5 ranks with at most 3 provers, batch 4, fresh and used folder | `CommitBeforeReveal`, `HonestBatchAccepted`, `PhaseBarrier`, `OnlyOrphans`, `ExcessRanksParked`; the session implements `BatchArgument` (`ImplementsArgument`) and everyone within the limit finalizes (`SessionEnds`) |
| `division` | batches to 14, ranks to 9 | both divisions tile the batch; the ranks that leave `main` are those without an instance |
| `zaatar` | F_17, 3 constraints, 3 builds, 2 instances out of 2 solutions and 2 wrong assignments | `ConsistencyQueryMatches`, `HonestAccepted`, `AlteredAnswerRefused`, `DivisibilityDecides` |
| `argument` | F_13, 5 computations of size 2, 2 instances, 2 repetitions | `ConsistencyQueryMatches`, `HonestAccepted`, `WrongOutputRefused` |
| `argument_repetitions` | the same | *violated*: `EveryRepetitionCounts` |
| `elgamal` | subgroup of order 11 mod 23, 3 elements, 2 threads | `DecryptsInnerProduct`, and the threads join (`TeamJoins`) |
| `prng` | 5 bytes of 3 bits, 3 refills | `ReadsKeystream`, `FreshBytes`, `Unbiased` |
| `cmt` | 4 ranks, 3 instances, 3 layers, 1 faulty prover, with and without auxiliary inputs | `FreshAnswers`, `AcceptedMeansChecked`, `WaitIsAnswered`, `ProversExit`, `HonestAccepted` |
| `sumcheck` | 3 gates over 2, modulo 5 | `RoundPolyCorrect`, `PerfectCompleteness`, `NextClaimTrueOffGrid` |
| `net_client` | 2 messages each way, buffer of 8 bytes | `InOrderDelivery`, `ReadsLastMessage` |
| `pws` | 6 worksheets with all small inputs, modulo 101 | `StatementMeans`, `ReadingsAgree`, `ConstraintsHold`, `WitnessFits` |
| `circuits` | Hamming and both matrix circuits modulo 53, sizes 2 and 4, cache for about two layers | `PredicatesMatchWiring`, `AnswerRight`, `EndsAgree`; the cached circuit implements `CircuitEvaluation` (`ImplementsEvaluation`) |

### Bounds

Every bound is a constant of a `.cfg` or of an `MC` module.

* `session`: two slaves are needed for a report to overtake another's work, four
  instances over three provers give a remainder, and one rank is in excess. Empty
  ranges are covered by `division`.
* `cmt`: three instances over four ranks leave one rank without work and the faulty
  prover has both a predecessor and a successor in the gather order; three layers
  give two sumchecks of different lengths, so a stale round or level would show.
* `sumcheck`: three gates do not fill the label space, and the layers have
  different numbers of coordinates; modulo 5 all special coins (0, 1, the grid)
  and ordinary ones occur; the left-over coordinate is 0 or not.
* `zaatar`: one seed's tau hits a root of unity, another one's a root of the tree
  build; the assignments include a wrong output and a wrong intermediate value, before and
  after right ones.
* `argument`: size 2 makes rows, columns and products of indices distinct; one seed
  gives the last output no weight in the last repetition but one in the first. The
  rational matrices are zero or not, and a prover whose images are wrong commits to its
  computation or to zeros.
* `pws`: the worksheets have nested and negated polynomials, an odd term to carry,
  variables used several layers later, comparisons that depend on comparisons,
  rationals, and every statement; values stay below half the prime.
* `circuits`: size 2 is the smallest with all kinds of levels, size 4 the smallest where
  a level has more than one bit per index; 53 is 1 modulo 4, as the shipped prime is, and
  the middle bits of 52 have both values. For both sizes there are inputs other than zeros
  whose raised sums tell the differences, and inputs whose sums do not.
* `net_client`: a body that fits, an empty one, and one that makes the buffer grow.
* `prng`: requests of none to three bytes against a buffer of five leave every
  remainder; the stream has runs that are rejected across a refill.
* `elgamal`: coefficients 0, and products below and above the order.

Deadlock checking is off only where the system really stops: ranks exit, finalize or are
in excess (`cmt`, `session`), a computation ends (`elgamal`, `zaatar`, `argument`,
`circuits`), the number of messages or refills is bounded (`net_client`, `prng`). In
`session` and `cmt` the liveness properties say that nobody stops early.

### Fairness

`session` and `cmt`: weak fairness of each rank. A rank is an operating-system process that is
never waiting for anything but an MPI receive or a file, and MPI delivers what
was sent. No strong fairness is used. `elgamal`: weak fairness of each thread; OpenMP
threads run, and the implicit barrier waits for all of them. A critical section that nobody
leaves would violate `TeamJoins`; a thread that is not admitted would need strong
fairness in general, but each thread merges once, so the lock becomes free for good.

### Where the code deviates

* `argument_repetitions`: `HDistVerifier` and `PolyEvalD3Verifier` assign `result` anew at the
  first linearity test of every repetition (`hdist_v.cpp:546`, `polyeval_d3_v.cpp:352`),
  so only the last repetition decides. The run finds an instance that fails the first
  repetition and is accepted. `WrongOutputRefused` is therefore stated by the last one.

In the other cases the property names the exception, so that everything else is
still checked:

* `ProversExit` excepts `FailedInLastRound`: `CMTSumCheckProver::run` leaves its loop on
  END_LAYER and on REQ_VS by the same test, `round >= numRounds()`. When the verifier
  rejects the last round of a sumcheck, the prover goes on to `doMiniIP`, which does
  not handle END_CMT, and never exits.
* `RoundPolyCorrect` and `PerfectCompleteness` except `ReadsLeftOver`: `doRoundP` recomputes
  `betar` from one coordinate too many when `1 - z` has no inverse at the layer's last coordinate.
* `NextClaimTrueOffGrid`: a coin in `0..mip1` has no barycentric weight; the next claim
  becomes 0 and a correct prover is rejected. With the program's primes of 128 bits and
  more the probability of this and of the previous case is negligible.
* `PredicatesMatchWiring` is claimed where `FormsExact` holds: in the original CMT matrix circuit
  the levels above the comparison with the claim have forms of other levels or `zero`
  (`matmul_circuit.cpp:217`, `:245`).
* `AnswerRight` and `EndsAgree` for the Hamming circuit: the verifier sets the output of the
  circuit to 0, as a valid circuit's (`cmtgkr/README.txt:54`). The circuit adds the two vectors
  (`hamdist_circuit.cpp:26`) while `evaluate` counts the positions in which they differ
  (`:99`). Moreover `makeFLTLvl2` takes bit 1 of `p - 1` to be set, which holds for primes that are
  3 modulo 4; `static_state/prime_128.txt`, the only prime `Circuit::loadPrime` loads, is 1 modulo 4,
  and there every sum is squared, not raised to `p - 1`. The properties say that the
  honest output is 0, and the two sides agree on it, for exactly the inputs for which
  `SumsTellDifferences` holds; with the shipped prime few inputs do.
* `WrongOutputRefused`, rational matrices: when an integer is not the image of its rational,
  `create_plain_queries` prints "Verification failed" and returns (`matrix_cubicp_q_v.cpp:162`,
  `:244`). Nothing records it; the session goes on with coins and expected values that
  are 0, and accepts exactly the instances with a zero proof vector, of which nothing is
  expected (`NothingExpected`).
* `pws`: `<I` in the circuit sees numbers that are reduced at most once
  (`magic_var_operation.cpp:167`); after a product or a sum of negative values, or a division,
  it may misread a sign. The run compares inputs, copies and results of comparisons.
* `DivisibilityDecides` leaves out the roots: in the tree build a tau that is a root makes all
  division queries 0 and the test of that repetition empty (`libv.cpp:387`).

### Mutants

Next to a definition, `Mut...` is the same definition with a plausible mistake: a
receive from any source, a remainder forgotten, one slave too few awaited, a
wrong phase number, a third query not summed, a critical section not entered, a
layer not marked dirty, a level one bit short.
Each property of a passing run is violated by the mutant named for it in `PROJECT.json`.

## 4. Proofs

| theorem | module | for every |
|---|---|---|
| `TypeCorrect`, `ExcessRanksParkedAlways` | `PepperSessionProofs` | number of ranks >= 2, limit >= 1, batch >= 1 |
| `CommitBeforeRevealAlways`, `HonestBatchAcceptedAlways`, `PhaseBarrierAlways`, `OnlyOrphansAlways`, `SessionImplementsArgument` | `PepperSessionProofs` | the same |
| `SharesTileAlways`, `CmtSharesTileAlways`, `IdleIffBeyondBatchAlways` | `BatchDivisionProofs` | batch size and number of provers >= 1 |
| `FreshAnswersAlways`, `AcceptedMeansCheckedAlways`, `WaitIsAnsweredAlways` | `CmtProtocolProofs` | number of ranks and instances, depth, rounds per layer, set of faulty provers |
| `InOrderDeliveryAlways`, `ReadsLastMessageAlways` | `NetClientProofs` | set of messages, sizes, first buffer size, length of the caller's vector and number of sends |
| `ReadsKeystreamAlways`, `FreshBytesAlways` | `PrngProofs` | buffer size, keystream and requests that fit in the buffer |
| `UnbiasedAlways` | `PrngProofs` | modulus and width of a byte |
| `InvariantAlways`, `DecryptsInnerProductAlways` | `ElGamalProofs` | modulus, generator with its order, key, randomness, vectors, number of threads, schedule, build |
| `ZaatarInvariantAlways`, `ConsistencyQueryMatchesAlways` | `ZaatarArgumentProofs` | prime, constraint file, number of repetitions, pair of seeds, batch, build |

**TypeCorrect.** `TypeOK` is not inductive: DONE files are typed by the phases that
leave one, and only `handle_terminal_request`'s early return keeps the
query-derivation phase from doing so. `TypeInv` adds `PhaseOfPC`: a prover inside a phase
is not in that one. One step per action.

**ExcessRanksParkedAlways.** The property is inductive together with `TypeInv`: every
send goes to rank 0, to rank 1 or into `2..NumProcs-1`, none of them beyond the limit
(`ExcessRanks`), and a rank with empty channels cannot pass its first receive, so it
is never the one that moves (`VerifierParks`, `ProverParks`).

**The session.** None of the four properties is inductive: each speaks of one moment,
and what makes it true is spread over the ranks and over messages still in the channels.
`SessionInv` has five parts.
* `Dialogue`: for each position of the verifier, the positions of the coordinator that
  are possible and exactly what lies between the two. It pins down the unawaited
  query-derivation request, which may still be waiting behind the request for the last phase.
* `SlaveLine(d)`: the session has six epochs, decided by the coordinator alone (nothing
  handed out; phase 1 handed out; everyone finished it; phase 3 handed out; everyone
  finished that; TERMINATE passed on). In each, where slave d is and what is in its two
  channels with the coordinator. The epochs exclude one another (`EpochsApart`) and are
  exhaustive (`Epochs`).
* `Count`: while a phase is handed out `num` is 2 plus the number of slaves that have finished it and
  whose message has been taken. At the end of the count this set is all slaves, by
  cardinality (`SlaveCount`), which ends the epoch (`EpochEnds`): this is the barrier.
* `Channels`: who may have sent what to whom; reports to rank 0 and the TERMINATE messages
  of slaves that have stopped are the only ones outside the dialogues.
* `Files` and `ShareFiles(r)`: which files are this session's, given the verifier's position
  and how far rank r is in its batch loop. With `SharesCover` (from the division's proofs) the shares
  of all ranks together are the batch (`AllCommitted`, `AllAnswers`).

The proof has one lemma per action and rank (`Slave...`, `Step...`, `Coord...`), joined
in `SlaveStep`, `VerifierStep` and `CoordStep`; frame lemmas (`SlaveCombine`, `VerifierCombine`,
`CoordCombine`, `CoordAll`) reduce a step to the parts it can disturb. The theorems follow
from `SessionInv` state by state.

**SessionImplementsArgument.** The mapping is the one of the model: an instance is
committed to, or answered, when its file is this session's. An iteration of `Commit` maps to
`CommitTo`, one of `Answer` to `AnswerFor`, `RevealSeed` to `Reveal`, `Terminate` to `Accept`,
and every other step to a stutter. `SessionInv` supplies the guards: a prover in its
commit loop means that the verifier is in its first wait, so the seed is not published
(`LoopWhere`), and the seed is published, and the verdict given, only when all shares are complete.

**Divisions.** Both divisions are consecutive blocks in closed form. The
non-linear facts are isolated in `DivMod`, `MulMono`, `BlockOf` and `BlockBelow`. An
instance's block is found by a division (`ShareOf`, `CmtShareOf`), blocks of
different ranks are ordered (`SharesOrdered`, `CmtOrdered`), so no instance lies in two,
and the bounds (`ShareInside`, `CmtInside`) keep them in the batch. For CMT the cases
are the provers with and without an extra instance.

**CMT protocol.** `CmtInv` relates, for each prover with instances, the verifier's
position to the requests still queued for that prover, the loop it is in with its level and
round, and the answers on their way back (`Conversation`); a request is outstanding for
the provers not yet gathered from and for no other. `ChecksBehind` keeps the record of
passed checks: all earlier layers, and the earlier rounds of this one. A failed check leaves
only END_LAYER and END_CMT behind, which no answer follows.

**Network layer.** `NetInv` says of each direction that the queued headers are those
of the messages begun but not opened, in order, and the queued bodies those of the
messages sent but not received. Header and body queues are independent, which is what the two
tags make of MPI's order guarantee; a pending `recvBody` holds the header of the next body.
The constants' assumption fixes that a message consists of a header, its size and a body.

**ReadsLastMessage.** `getDataAsVector` takes as many numbers from the buffer as fit into the bytes
that the statistics of the last message count, and the buffer may be longer and hold the tail
of an earlier body. `ReadInv` is `BufType` and `Buffered(e)`: the buffer starts with the body
received last, and the counted size is 0 (a message was sent, or another one announced, since) or
the bytes of that body. Sizes are positive, so one element more has more bytes
(`BytesAppend`) and what is read ends with the body (`WholeIsBody`, `ReadIsPrefix`).

**Prng.** `IInv` is `Window` (slot i of the buffer is byte `generated - size + i` of the
keystream, the index is inside the buffer) and `ReadBehind` (all bytes handed out lie
before the index). A draw starts at the index or at a fresh buffer, hence after all
bytes read. The assumption `RequestsFit` is justified by the sizes: the buffer has
24000 bytes, a request at most the 1024 bits of a modulus or a block asked for by its caller.

**Unbiased.** The number a byte string stands for, `Import`, keeps `SizeInBase2(n)` bits of it. Byte
strings of one length are numbered by a bijection onto an interval, and the bits that
are cut off take each of their values equally often for every value that is kept; so all
`v < n` have preimages of one size, a power of two, hence not empty (`PreimageSize`). That
`n - 1` fits into the bits drawn (`SizeFits`) makes the last value reachable.

**ElGamal.** The property speaks of one moment, the end; between, everything is a power of the
generator, and the proof is about exponents. `ElGamalInv` has four parts: `TypeOK`;
`SharesPartition`, the elements are dealt out to the threads, each to one; `Exclusion`, the
holder of the lock is the only thread in the critical section, and what it read of the shared
output is still there; `Progress`, for some randomness k that explains all ciphertexts, the
partial product of a thread that has multiplied its share has as exponents the sums over
that share, and the shared output those over the shares of the threads that have merged. Multiplying ciphertexts adds exponents (`SumUnion`), so at the join they are
`r*K` plus the inner product against `K` (`SumLinear`), and decryption cancels `r*K` because
the generator has order `q`. The lock is what keeps a merge from being overwritten: without
`Exclusion` the step of leaving the section does not preserve `Progress`. The
generator's order and `p > 2` are the assumptions; the key files of the program meet both.

**Zaatar's consistency query.** The verifier adds coins times queries to its secret while it
draws, and forgets the queries; the prover draws them again in another phase, from another
process and with another loop. No state holds both, so the invariant names them by a third
thing: `Query(seed, build, k)`, the query of answer `k` as a function of the seed alone.
`ZInv` is
* `Types`: counters, coins and the two consistency vectors;
* `VerifierPlace`: the position in the public stream is `Pos(rho, rep)`, as many coins are used
  as answers are numbered, and the first linearity query that later hides the divisibility queries is
  still the one of this rho;
* `ConsistencySoFar`: each entry is the secret's plus the sum of `Term`, coin times
  query, over the answers so far, where a third linearity query, which nobody builds, counts as the
  sum of the two before it;
* `ProverPlace`: the prover's position in its copy of the stream is the same function
  of its counters, and its files are `Query` for the answers so far.

Since 30368 states of an instance agreed with `ZInv` (TLC) before the proof was begun, what
remained was the arithmetic: one lemma per step of either side, which says that the
queries built in it are `Query` at the numbers they get and that the sum grows by exactly those
terms. A sum is one of integers only if the queries are integers, which is not obvious
of the division queries: they go through inverses modulo the prime, running products and arrays
defined by recursion. The first part of the module types them; an inverse exists because the
least positive residue among the multiples of a number divides the prime.
The assumptions are those of `Qap`, made explicit: the lines of the constraint file have indices
in range, the sizes fit the file, and the search for a non-residue ends (`NonResidueExists`, true of
every odd prime).

**Induction over data.** The library's induction theorems take an operator, which the provers
cannot instantiate. `ArithmeticLemmas` states the same with sets instead: a set of naturals that
contains 0 and is closed under successor is `Nat` (`NatSetInduction`), likewise for the subsets of a
finite set (`SubsetInduction`), both from the well-foundedness of `<`. From these follow that the
folds behind `SumFunction` exist and unfold (`FoldExists`, `SumUnfolds`), that sums are linear and
additive over disjoint sets (`SumLinear`, `SumUnion`), that recursive functions satisfy
their equations (`RecursionExists`), and that residues are unique (`ModUnique`).

*Only model-checked:*
* liveness under fairness, which the prover cannot do: `SessionEnds`, `ProversExit`,
  `HonestAccepted` of `cmt`, `TeamJoins`;
* the algebra of polynomials: `CmtSumcheck` (multilinear extensions, interpolation),
  `HonestAccepted` and `DivisibilityDecides` of `zaatar` (that three interpolations give the same
  quotient), and the properties of `argument`. They need facts about polynomials over a
  field which no library here has, and would have to be built from the sums up;
* `AlteredAnswerRefused` of `zaatar`: it follows from `ConsistencyQueryMatches`, but also from the
  answers file, whose numbers have sizes in bytes, and from the types of H, which comes out of the
  interpolations;
* the worksheets and the layer cache with its refinement of `CircuitEvaluation`:
  `GmpNumbers`, `PwsCircuit`, `PwsParser`, `PwsInterpreter` and `CachedCircuit` use recursive
  operators, which the prover's SMT backend does not accept.

## 5. Not modelled

* Key generation, which no caller asks for, and the faster exponentiations
  (`powm_cache.cpp`, `lib_gpu/`), which the configured build does not use.
* The HTTP transport, which does not compile at this commit (`prover.cpp:287` uses `rank`
  outside the MPI build), and the noninteractive experiment.
* Failures of the file system: the code ignores the results of `save` and of writes.
* Tokenising of worksheets, printing and memory statistics of the parser;
  `Maybe::invalidate`, which never invalidates (`maybe.h:14`), has no effect because a
  parser is used for one worksheet.
* The CMT parser skips the statements that split a number into bits; worksheets with them are
  checked for the interpreter only.
* The compiler, input generators, exogenous checks, measurements, scripts and
  retained third-party code (`cmtgkr/unmodified`, `ref`, `old`).
* The mask for a partial byte in the PRNG's char-buffer variant (`prng.cpp:117`) is wrong
  but unreachable, since all callers ask for whole bytes. A CMT job with one rank has no provers
  and divides by zero; the models assume at least one.

## 6. Plan

Done: the session, batch division, all arguments of libv, ElGamal, the generator, the
CMT protocol, one CMT layer, the network layer, worksheets in both readings, the CMT
circuits with their closed forms and the layer cache.

Next, in this order:

1. Proofs: `ConsistencyQueryMatches` of `QuadraticArgument`, whose two sides can be related by a
   reference query in the way of `ZaatarArgument`'s; the types of H, and with them
   `AlteredAnswerRefused`; the refinement of `CircuitEvaluation` once the cache is written
   without recursive operators.
2. Multi-word Montgomery arithmetic (`lib_gpu/mp_modexp_cpu.cpp`) at a small word
   width, and the power cache, against modular exponentiation.
3. A composition of several CMT layers, which makes the left-over coordinate and the
   next claim part of one behaviour.
