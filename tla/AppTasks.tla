------------------------------- MODULE AppTasks -------------------------------
(***************************************************************************)
(* What the applications do with their circuits (circuit.cpp,              *)
(* cmt_circuit.cpp, apps/hamdist_circuit.cpp, apps/matmul_circuit.cpp):    *)
(* which gates hold the inputs and the outputs, how they are set, the      *)
(* value of a gate, and the wiring predicates of a level at a point.       *)
(* Values are residues; the rational twin of every gate value and the lazy *)
(* reduction of both are in PwsMachine.                                    *)
(***************************************************************************)
EXTENDS AppCircuits, FiniteSets

CONSTANTS
    Tasks,      \* pairs <<application, d>> that the prover evaluates
    Checks,     \* pairs whose predicates the verifier evaluates
    Seeds       \* seeds of inputs and of random points

-----------------------------------------------------------------------------
(* The circuit of a task and its special gates. *)

Circuits == [t \in Tasks \cup Checks |->
                CASE t[1] = "hamdist"  -> HamdistCircuit(t[2])
                  [] t[1] = "matmul++" -> MatmulPPCircuit(t[2])
                  [] t[1] = "matmul"   -> MatmulCircuit(t[2])]
Circuit(t) == Circuits[t]

ZeroValues(t) == [k \in DOMAIN Circuit(t) |-> [g \in DOMAIN Circuit(t)[k].gates |-> 0]]

InputSize(t) == IF t[1] = "hamdist" THEN 2 * 2^t[2] ELSE 2 * 4^t[2]

\* The gates that hold the outputs: in the input layer, or the output layer.
OutGates(t) == CASE t[1] = "hamdist"  -> [level |-> 1, first |-> InputSize(t), size |-> 1]
                 [] t[1] = "matmul++" -> [level |-> Len(Circuit(t)), first |-> 0, size |-> 4^t[2]]
                 [] t[1] = "matmul"   -> [level |-> 1, first |-> InputSize(t), size |-> 4^t[2]]

\* The verifier's coins, and gen_random_inputs: numbers spread by the seed.
Random(seed, n) == [i \in 0 .. n - 1 |-> (seed * (i + 2) * (i + 3) + 7 * i + seed * seed) % prime]
RandomInputs(seed, n) == [i \in 0 .. n - 1 |-> (seed * (seed + i) * (i + 1)) % prime]

\* initializeInputs: the input gates; applications with a claim also set the zero gate, the last.
SetInputs(t, layer, in) ==
    [g \in DOMAIN layer |->
        IF g < InputSize(t) THEN in[g]
        ELSE IF t[1] # "matmul++" /\ g = Cardinality(DOMAIN layer) - 1 THEN 0
        ELSE layer[g]]

Entry(layer, t, i, j) == LET n == 2^t[2]
                         IN  SumMod([k \in 0 .. n - 1 |-> layer[i * n + k] * layer[n * n + k * n + j]])

\* HamdistCircuit::evaluate and MatmulCircuit::evaluate: the claim, negated.
SetClaim(t, layer) ==
    LET n == 2^t[2]
        out == OutGates(t)
    IN  CASE t[1] = "hamdist" ->
               [layer EXCEPT ![out.first] =
                  (-Cardinality({i \in 0 .. n - 1 : layer[i] # layer[n + i]})) % prime]
          [] t[1] = "matmul++" -> layer
          [] t[1] = "matmul" ->
               [g \in DOMAIN layer |->
                  IF g \in out.first .. out.first + out.size - 1
                  THEN LET e == g - out.first IN (-Entry(layer, t, e \div n, e % n)) % prime
                  ELSE layer[g]]

\* computeGateValue
GateValue(gate, below) ==
    IF gate.type = "ADD" THEN (below[gate.in1] + below[gate.in2]) % prime
    ELSE modmult(below[gate.in1], below[gate.in2])

\* getOutputs, from the gates of the layer that holds them.
OutputsOf(t, layer) == [i \in 0 .. OutGates(t).size - 1 |-> layer[OutGates(t).first + i]]

\* Mutant: only outputs that are in the output layer are set.
MutVerifierEnds(t, in, out) ==
    <<SetInputs(t, ZeroValues(t)[1], in),
      IF OutGates(t).level = 1 THEN ZeroValues(t)[Len(Circuit(t))] ELSE out>>

\* initializeInputs and initializeOutputs of a circuit that is not evaluated.
VerifierEnds(t, in, out) ==
    LET place == OutGates(t)
        set(layer) == [g \in DOMAIN layer |->
                         IF g \in place.first .. place.first + place.size - 1 THEN out[g - place.first]
                         ELSE layer[g]]
        first == SetInputs(t, ZeroValues(t)[1], in)
        last  == ZeroValues(t)[Len(Circuit(t))]
    IN  IF place.level = 1 THEN <<set(first), [last EXCEPT ![0] = 0]>> ELSE <<first, set(last)>>

\* computeWirePredicates, with the closed forms of the level.
Point(t, k, seed) ==
    LET c == Circuit(t)
        mi == log2i(c[k].size)
        mip1 == log2i(c[k - 1].size)
    IN  [r |-> Random(seed, mi + 2 * mip1), mi |-> mi, mip1 |-> mip1, ni |-> c[k].size, nip1 |-> c[k - 1].size]

computeWirePredicates(t, k, seed) ==
    <<ClosedForm(Circuit(t)[k].add_fn, Point(t, k, seed)), ClosedForm(Circuit(t)[k].mul_fn, Point(t, k, seed))>>

=============================================================================
