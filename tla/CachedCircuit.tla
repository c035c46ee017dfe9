---------------------------- MODULE CachedCircuit -----------------------------
(***************************************************************************)
(* A CMT circuit whose gate values live in a CircuitData                   *)
(* (circuit/circuit_data.cpp): some layers are resident, in the order they *)
(* were loaded; when their estimated size exceeds a budget the oldest are  *)
(* written to files in the circuit's own directory and dropped, and a      *)
(* layer that is not resident is read back, or starts as zeros.            *)
(*                                                                         *)
(* The code keeps one CircuitData for rationals and one for residues, with *)
(* the same sequence of accesses; this module has one.  The size of a      *)
(* layer is estimated from a gate picked at random, anew at every use      *)
(* (dataSize), so it is a choice here.                                     *)
(***************************************************************************)
EXTENDS AppTasks

CONSTANTS
    Budget,     \* memBudget
    SizeTBits   \* the width of size_t

ASSUME CacheAssumption == Budget \in Nat /\ SizeTBits \in 1 .. 30

VARIABLES
    phase, task, input, pos, ends, served, preds,  \* as in CircuitEvaluation
    resident,   \* layers: a sequence of [index, gates, isDirty]
    files,      \* the layers saved so far, by index
    aborted     \* an assertion of the cache failed

vars == <<phase, task, input, pos, ends, served, preds, resident, files, aborted>>

-----------------------------------------------------------------------------
(* CircuitData, as a record c = [layers, files, ok].                       *)

\* sizeOf: zero takes less room than other values.
sizeOf(value) == IF value = 0 THEN 1 ELSE 2

\* dataSize: every gate is taken to be as large as the one that was picked.
dataSize(layer) == {Cardinality(DOMAIN layer.gates) * sizeOf(layer.gates[g]) : g \in DOMAIN layer.gates}

\* updateUsage: the sums of one estimate per layer.
updateUsage(layers) ==
    LET sums[i \in 0 .. Len(layers)] ==
          IF i = 0 THEN {0} ELSE {s + e : s \in sums[i - 1], e \in dataSize(layers[i])}
    IN  sums[Len(layers)]

\* LayerData::save, which writes dirty layers only.
Save(layer, saved) == IF layer.isDirty THEN layer.index :> layer.gates @@ saved ELSE saved

shouldEvict(layers, usage) == 1 < Len(layers) /\ usage > Budget

\* The loop of load: the oldest layer goes, and a fresh estimate of its size is
\* subtracted, modulo the width of size_t.
RECURSIVE Evict(_, _)
Evict(c, usage) ==
    IF ~shouldEvict(c.layers, usage) THEN {c}
    ELSE LET front == Head(c.layers)
             rest  == [c EXCEPT !.files = Save(front, @), !.layers = Tail(@)]
         IN  UNION {IF usage < e THEN {[c EXCEPT !.ok = FALSE]}
                    ELSE UNION {Evict(rest, (usage - f) % 2^SizeTBits) : f \in dataSize(front)}
                    : e \in dataSize(front)}

\* tryLoad: the saved gates, else zeros.
Loaded(l, saved) ==
    [index |-> l, gates |-> IF l \in DOMAIN saved THEN saved[l] ELSE ZeroValues(task)[l], isDirty |-> FALSE]

load(c, l) ==
    {IF e.ok THEN [e EXCEPT !.layers = Append(@, Loaded(l, e.files))] ELSE e :
        e \in UNION {Evict(c, u) : u \in updateUsage(c.layers)}}

Holds(layers, l) == \E i \in DOMAIN layers : layers[i].index = l
Gates(layers, l) == layers[CHOOSE i \in DOMAIN layers : layers[i].index = l].gates

\* Mutant: an access does not mark the layer dirty.
MutAccess(c, l) == IF ~c.ok \/ Holds(c.layers, l) THEN {c} ELSE load(c, l)

\* Every access to a gate goes through the operator[] that marks the layer dirty,
\* reads too: Gate has a pointer to a layer that is not const.
Access(c, l) ==
    {[e EXCEPT !.layers = [i \in DOMAIN @ |-> [@[i] EXCEPT !.isDirty = @ \/ e.layers[i].index = l]]] :
        e \in IF ~c.ok \/ Holds(c.layers, l) THEN {c} ELSE load(c, l)}

Write(c, l, gates) ==
    IF ~c.ok THEN c
    ELSE [c EXCEPT !.layers = [i \in DOMAIN @ |-> IF @[i].index = l THEN [@[i] EXCEPT !.gates = gates] ELSE @[i]]]

Cache == [layers |-> resident, files |-> files, ok |-> TRUE]

Becomes(c) == resident' = c.layers /\ files' = c.files /\ aborted' = ~c.ok

-----------------------------------------------------------------------------

NoTask == <<"none", 0>>

Init ==
    /\ phase = "start"
    /\ task = NoTask
    /\ input = <<>>
    /\ pos = <<1, 0>>
    /\ ends = <<>>
    /\ served = <<>>
    /\ preds = <<>>
    /\ resident = <<>>
    /\ files = <<>>
    /\ aborted = FALSE

\* construct; finalizeConstruct tells the cache the sizes of the layers.
Construct(t) ==
    /\ phase = "start"
    /\ phase' = "constructed"
    /\ task' = t
    /\ UNCHANGED <<input, pos, ends, served, preds, resident, files, aborted>>

InitializeInputs(seed) ==
    /\ phase = "constructed"
    /\ task \in Tasks
    /\ input' = RandomInputs(seed, InputSize(task))
    /\ \E c \in Access(Cache, 1) : Becomes(Write(c, 1, SetInputs(task, Gates(c.layers, 1), input')))
    /\ phase' = "inputs"
    /\ UNCHANGED <<task, pos, ends, served, preds>>

Claim ==
    /\ phase = "inputs"
    /\ \E c \in Access(Cache, 1) : Becomes(Write(c, 1, SetClaim(task, Gates(c.layers, 1))))
    /\ phase' = "evaluate"
    /\ pos' = <<2, 0>>
    /\ UNCHANGED <<task, input, ends, served, preds>>

Following(c, p) == IF p[2] + 1 < c[p[1]].size THEN <<p[1], p[2] + 1>> ELSE <<p[1] + 1, 0>>

\* The operands are copied from the layer below, then the result is stored in its layer.
ComputeGate ==
    LET c    == Circuit(task)
        l    == pos[1]
        gate == c[l].gates[pos[2]]
    IN  /\ phase = "evaluate" /\ ~aborted
        /\ \E below \in Access(Cache, l - 1) :
              \E here \in Access(below, l) :
                 /\ Becomes(IF ~here.ok THEN here
                            ELSE Write(here, l, [Gates(here.layers, l) EXCEPT
                                                   ![pos[2]] = GateValue(gate, Gates(below.layers, l - 1))]))
                 /\ pos' = IF here.ok THEN Following(c, pos) ELSE pos
                 /\ phase' = IF here.ok /\ pos'[1] > Len(c) THEN "done" ELSE "evaluate"
        /\ UNCHANGED <<task, input, ends, served, preds>>

\* getOutputs reads the outputs through the cache; they reach the verifier.
SetEnds ==
    /\ phase = "done" /\ ~aborted
    /\ \E c \in Access(Cache, OutGates(task).level) :
          /\ Becomes(c)
          /\ phase' = IF c.ok THEN "serve" ELSE "done"
          /\ pos' = IF c.ok THEN <<Len(Circuit(task)) - 1, 0>> ELSE pos
          /\ ends' = IF c.ok
                     THEN VerifierEnds(task, input, OutputsOf(task, Gates(c.layers, OutGates(task).level)))
                     ELSE ends
    /\ UNCHANGED <<task, input, served, preds>>

\* init_vals_array copies the gates of a layer, from the output down.
ServeLayer ==
    /\ phase = "serve" /\ pos[1] >= 1 /\ ~aborted
    /\ \E c \in Access(Cache, pos[1]) :
          /\ Becomes(c)
          /\ served' = IF c.ok THEN Gates(c.layers, pos[1]) ELSE served
          /\ pos' = IF c.ok THEN <<pos[1] - 1, 0>> ELSE pos
    /\ UNCHANGED <<phase, task, input, ends, preds>>

WirePredicates(k, seed) ==
    /\ phase = "constructed"
    /\ task \in Checks
    /\ phase' = "predicates"
    /\ preds' = <<k, seed, computeWirePredicates(task, k, seed)>>
    /\ UNCHANGED <<task, input, pos, ends, served, resident, files, aborted>>

Next ==
    \/ \E t \in Tasks \cup Checks : Construct(t)
    \/ \E s \in Seeds : InitializeInputs(s)
    \/ Claim
    \/ ComputeGate
    \/ SetEnds
    \/ ServeLayer
    \/ \E s \in Seeds : phase = "constructed" /\ \E k \in 2 .. Len(Circuit(task)) : WirePredicates(k, s)

Spec == Init /\ [][Next]_vars

-----------------------------------------------------------------------------

\* The values of all layers, wherever they are.
Contents ==
    IF task = NoTask THEN <<>>
    ELSE [l \in DOMAIN Circuit(task) |->
            IF Holds(resident, l) THEN Gates(resident, l) ELSE Loaded(l, files).gates]

Evaluation == INSTANCE CircuitEvaluation WITH values <- Contents

\* The cache is invisible: whatever estimates it evicts by, every layer keeps the
\* values last written to it, so the circuit computes what it computes with all
\* its values at hand (CircuitData::load, LayerData::save, tryLoad).
ImplementsEvaluation == Evaluation!Spec

\* The wiring predicate of one type of gate by its definition: the multilinear
\* extension of "gate p has that type and inputs in1 and in2".
TruePredicate(t, k, type, seed) ==
    LET gates == Circuit(t)[k].gates
    IN  SumMod([g \in {g \in DOMAIN gates : gates[g].type = type} |->
               check_wiring(Point(t, k, seed), g, gates[g].in1, gates[g].in2)])

\* The levels of the original CMT matrix circuit above the comparison with the
\* claim have closed forms that are not those of their wiring (see the README).
FormsExact(t, k) == t[1] = "matmul" => k <= t[2] + 3

\* Where the verifier evaluates a closed form, it gets the value at that point of
\* the multilinear extension of the wiring that the prover's gates have, so the
\* sumcheck of an honest prover ends on the verifier's own value
\* (CircuitLayer::computeWirePredicates with the forms given to makeLevel).
PredicatesMatchWiring ==
    phase = "predicates" =>
        LET k == preds[1]
        IN  FormsExact(task, k) =>
                /\ preds[3][1] % prime = TruePredicate(task, k, "ADD", preds[2])
                /\ preds[3][2] % prime = TruePredicate(task, k, "MUL", preds[2])

\* What the levels between the sums and their total make of a sum x: x^(p-1), 1 or 0,
\* where bit 1 of p - 1 is set; else x^(p+1), the square of x, because makeFLTLvl2
\* takes that bit to be set.  prime_128.txt, the only prime that Circuit::loadPrime
\* reads, is of the second kind.
Raised(x) == IF Bit(psub1, 1) = 1 THEN IF x % prime = 0 THEN 0 ELSE 1 ELSE (x * x) % prime

\* The Hamming circuit adds the vectors and totals what is left of the sums; only
\* by chance, or when no pair is equal but zeros and no pair opposite and the prime
\* is of the first kind, is that the number of differences.
SumsTellDifferences ==
    LET n == 2^task[2]
    IN  SumMod([i \in 0 .. n - 1 |-> Raised(input[i] + input[n + i])])
          = Cardinality({i \in 0 .. n - 1 : input[i] # input[n + i]}) % prime

\* With its claim made by the prover's own evaluate, a circuit that checks a claim
\* is valid, that is, its output is 0 (cmtgkr/README.txt:54-57): the matrix circuit
\* always; the Hamming circuit only where the sums tell the differences, which on a
\* prime of the shipped kind most inputs do not.  The CMT++ matrix circuit has
\* computed the product.
AnswerRight ==
    phase = "done" =>
        LET n   == 2^task[2]
            out == Contents[Len(Circuit(task))]
        IN  CASE task[1] = "hamdist" -> (out[0] = 0) <=> SumsTellDifferences
              [] task[1] = "matmul++" ->
                   \A i, j \in 0 .. n - 1 : out[i * n + j] = Entry(input, task, i, j)
              [] task[1] = "matmul" -> out[0] = 0

\* The two layers at which the argument starts and ends, of the verifier, which only
\* sets inputs and the outputs it was sent, are those the prover evaluated
\* (initializeInputs and initializeOutputs against evaluate and getOutputs).  The
\* exception is the output of the Hamming circuit: the verifier sets it to 0, and
\* where the sums do not tell the differences the honest prover has another value.
EndsAgree ==
    phase = "serve" =>
        /\ ends[1] = Contents[1]
        /\ (ends[2] = Contents[Len(Circuit(task))]) <=> (task[1] = "hamdist" => SumsTellDifferences)

=============================================================================
