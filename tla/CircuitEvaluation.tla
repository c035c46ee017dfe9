-------------------------- MODULE CircuitEvaluation ---------------------------
(***************************************************************************)
(* A CMT circuit from its construction to the answer (circuit.cpp,         *)
(* cmt_circuit.cpp, apps/hamdist_circuit.cpp, apps/matmul_circuit.cpp),    *)
(* with the gate values of every layer at hand: what a circuit does,       *)
(* whatever way its values are stored.                                     *)
(*                                                                         *)
(* The prover constructs the circuit, sets the inputs, computes the        *)
(* claimed outputs where the application has them in its input layer and   *)
(* then one gate after another.  The verifier constructs the same circuit, *)
(* evaluates the wiring predicates of its layers at random points, and     *)
(* sets the inputs and the outputs it received.                            *)
(***************************************************************************)
EXTENDS AppTasks

VARIABLES
    phase,      \* "start", "constructed", "inputs", "evaluate", "done", "serve", "predicates"
    task,       \* the application and d
    values,     \* the gate values of each level, from the inputs up
    input,      \* the inputs, which the verifier chose
    pos,        \* <<level, gate>> that is computed next
    ends,       \* the verifier's own input and output layer
    served,     \* the layer the prover copied for its last sumcheck
    preds       \* the level and the seed of a predicate evaluation, and its results

vars == <<phase, task, input, values, pos, ends, served, preds>>

-----------------------------------------------------------------------------

NoTask == <<"none", 0>>

Init ==
    /\ phase = "start"
    /\ task = NoTask
    /\ input = <<>>
    /\ values = <<>>
    /\ pos = <<1, 0>>
    /\ ends = <<>>
    /\ served = <<>>
    /\ preds = <<>>

\* Circuit::construct
Construct(t) ==
    /\ phase = "start"
    /\ phase' = "constructed"
    /\ task' = t
    /\ values' = ZeroValues(t)
    /\ UNCHANGED <<input, pos, ends, served, preds>>

InitializeInputs(seed) ==
    /\ phase = "constructed"
    /\ task \in Tasks
    /\ phase' = "inputs"
    /\ input' = RandomInputs(seed, InputSize(task))
    /\ values' = [values EXCEPT ![1] = SetInputs(task, @, input')]
    /\ UNCHANGED <<task, pos, ends, served, preds>>

Claim ==
    /\ phase = "inputs"
    /\ phase' = "evaluate"
    /\ values' = [values EXCEPT ![1] = SetClaim(task, @)]
    /\ pos' = <<2, 0>>
    /\ UNCHANGED <<task, input, ends, served, preds>>

\* Where evaluate is after a gate of a circuit c.
Following(c, p) == IF p[2] + 1 < c[p[1]].size THEN <<p[1], p[2] + 1>> ELSE <<p[1] + 1, 0>>

ComputeGate ==
    LET c == Circuit(task)
    IN  /\ phase = "evaluate"
        /\ values' = [values EXCEPT ![pos[1]][pos[2]] = GateValue(c[pos[1]].gates[pos[2]], values[pos[1] - 1])]
        /\ pos' = Following(c, pos)
        /\ phase' = IF pos'[1] > Len(c) THEN "done" ELSE "evaluate"
        /\ UNCHANGED <<task, input, ends, served, preds>>

\* The verifier sets its own circuit's ends from the inputs and the prover's outputs.
SetEnds ==
    /\ phase = "done"
    /\ phase' = "serve"
    /\ pos' = <<Len(values) - 1, 0>>
    /\ ends' = VerifierEnds(task, input, OutputsOf(task, values[OutGates(task).level]))
    /\ UNCHANGED <<task, input, values, served, preds>>

\* The sumchecks go from the output layer down; each starts from a copy of the
\* values of the layer below.
ServeLayer ==
    /\ phase = "serve" /\ pos[1] >= 1
    /\ served' = values[pos[1]]
    /\ pos' = <<pos[1] - 1, 0>>
    /\ UNCHANGED <<phase, task, input, values, ends, preds>>

WirePredicates(k, seed) ==
    /\ phase = "constructed"
    /\ task \in Checks
    /\ phase' = "predicates"
    /\ preds' = <<k, seed, computeWirePredicates(task, k, seed)>>
    /\ UNCHANGED <<task, input, values, pos, ends, served>>

Next ==
    \/ \E t \in Tasks \cup Checks : Construct(t)
    \/ \E s \in Seeds : InitializeInputs(s)
    \/ Claim
    \/ ComputeGate
    \/ SetEnds
    \/ ServeLayer
    \/ \E k \in 2 .. Len(values), s \in Seeds : WirePredicates(k, s)

Spec == Init /\ [][Next]_vars

=============================================================================
