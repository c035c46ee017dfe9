------------------------------ MODULE PwsCircuit ------------------------------
(***************************************************************************)
(* The arithmetic circuit that the CMT argument builds from the same       *)
(* worksheet (cmtgkr/circuit/pws_circuit_parser.cpp) and its evaluation    *)
(* (pws_circuit.cpp, magic_var_operation.cpp, circuit_layer.cpp).          *)
(*                                                                         *)
(* Operators thread the parser's state p: desc is the circuit description, *)
(* layer l of it is desc[l + 1]; cprims holds the circuit primitives       *)
(* (CVar and CConst) by primitive; constants the constants in the order in *)
(* which they were added; outConstantDesc and magicOps as in the code.     *)
(* A primitive is <<"V", i>>, <<"IO", i>> or <<"C", q>>; a gate position   *)
(* is <<layer, name>>.                                                     *)
(***************************************************************************)
EXTENDS PwsInterpreter, SequencesExt

NoPrim == <<"none", 0>>

\* The left fold of a sequence.  A choice from a singleton is its element; written
\* this way TLC computes a parser state before it is passed on.
The(S) == CHOOSE x \in S : TRUE
Fold(op(_, _), base, seq) ==
    LET f[i \in 0 .. Len(seq)] == IF i = 0 THEN base ELSE The({op(v, seq[i]) : v \in {f[i - 1]}})
    IN  f[Len(seq)]

EmptyParser == [desc |-> <<>>, cprims |-> <<>>, constants |-> <<>>,
                outConstantDesc |-> <<>>, magicOps |-> <<>>]

\* Maybe<Primitive>: invalidate() keeps a value that is valid.
Invalidate(m) == IF m = NoPrim THEN NoPrim ELSE m

\* The layer of a gate position and its gate; getLayer grows the circuit.
WithLayer(desc, l) == IF l < Len(desc) THEN desc
                      ELSE desc \o [i \in 1 .. l + 1 - Len(desc) |-> <<>>]
GateAt(desc, g) == desc[g[1] + 1][g[2] + 1]

addGate(p, op, in1, in2, outLayer) ==
    LET desc == WithLayer(p.desc, outLayer)
    IN  [p |-> [p EXCEPT !.desc = [desc EXCEPT ![outLayer + 1] =
                   Append(@, [op |-> op, in1 |-> in1, in2 |-> in2, bound |-> NoPrim])]],
         g |-> <<outLayer, Len(desc[outLayer + 1])>>]

-----------------------------------------------------------------------------
(* Circuit primitives. *)

Unbound(type) == [type |-> type, min |-> -1, max |-> -1, gateIndex |-> <<>>]
IsBound(cp) == cp.gateIndex # <<>>

\* The primitive a variable token names; inputs and outputs share one map.
ToPrimitive(tok) == CASE tok[1] \in {"I", "O"} -> <<"IO", tok[2]>>
                      [] tok[1] \in {"V", "M"} -> <<"V", tok[2]>>
                      [] OTHER -> tok

AddPrim(p, prim, type) ==
    IF prim \in DOMAIN p.cprims THEN p
    ELSE [p EXCEPT !.cprims = @ @@ (prim :> Unbound(type)),
                   !.constants = IF prim[1] = "C" THEN Append(@, prim) ELSE @]

\* A constant or variable is entered the first time it is met, with the type
\* its first letter says.
parsePrimitive(p, tok) ==
    AddPrim(p, ToPrimitive(tok),
            CASE tok[1] = "I" -> "INPUT" [] tok[1] = "O" -> "OUTPUT" [] tok[1] = "V" -> "TEMP"
              [] tok[1] = "M" -> "MAGIC" [] OTHER -> "CONST")
addConstant(p, n) == AddPrim(p, <<"C", QInt(n)>>, "CONST")

makeMagic(p, prim) == [p EXCEPT !.cprims[prim].type = "MAGIC"]

\* The variable now lives at gate g only, and the gate is bound to the variable.
bindVariable(p, prim, g) ==
    LET old == p.cprims[prim]
        unbound == [i \in DOMAIN p.desc[old.min + 1] |->
                      IF \E k \in DOMAIN old.gateIndex : old.gateIndex[k] = i - 1
                      THEN [p.desc[old.min + 1][i] EXCEPT !.bound = Invalidate(@)]
                      ELSE p.desc[old.min + 1][i]]
        p1 == IF IsBound(old) THEN [p EXCEPT !.desc[old.min + 1] = unbound] ELSE p
    IN  [p1 EXCEPT !.cprims[prim].min = g[1], !.cprims[prim].max = g[1],
                   !.cprims[prim].gateIndex = <<g[2]>>,
                   !.desc[g[1] + 1][g[2] + 1].bound = prim]

\* What makes a gate returns a = [p, g], the parser and the gate.
BindTo(a, prim) == bindVariable(a.p, prim, a.g)

\* A primitive that has no gate yet gets one in the input layer.
addToCircuit(p, prim) ==
    IF IsBound(p.cprims[prim]) THEN p ELSE BindTo(addGate(p, "CONSTANT", 0, 0, 0), prim)

RECURSIVE promotePrimitive(_, _, _)

GateInLayer(p, prim, layer) == promotePrimitive(p, prim, IF layer = 0 THEN p.cprims[prim].min ELSE layer)

\* getGate: the gate of a primitive in a layer; 0 means the lowest it has.
getGate(p, prim, layer) == GateInLayer(addToCircuit(p, prim), prim, layer)

\* The gate of a number, which becomes a constant of the circuit.
ConstantGate(p, n, layer) == getGate(addConstant(p, n), <<"C", QInt(n)>>, layer)

\* The gate one layer above a that adds zero to it.
AddOther(a, z) == addGate(z.p, "ADD", a.g[2], z.g[2], a.g[1] + 1)
AddZero(a) == AddOther(a, ConstantGate(a.p, 0, a.g[1]))

\* The primitive has one more gate, a.
Raised(a, prim) ==
    [a.p EXCEPT !.desc[a.g[1] + 1][a.g[2] + 1].bound = prim,
                !.cprims[prim].gateIndex = Append(@, a.g[2]),
                !.cprims[prim].max = @ + 1]

\* A primitive is carried to a higher layer by gates that add zero, one per layer.
promotePrimitive(p, prim, layer) ==
    LET cp == p.cprims[prim]
    IN  IF layer <= cp.max
        THEN [p |-> p, g |-> <<layer, cp.gateIndex[layer - cp.min + 1]>>]
        ELSE promotePrimitive(Raised(AddZero(getGate(addConstant(p, 0), prim, cp.max)), prim), prim, layer)

RECURSIVE CarryGate(_, _)
CarryGate(a, layer) == IF layer <= a.g[1] THEN a ELSE CarryGate(AddZero(a), layer)

\* A gate is carried through the primitive it is bound to, if any.
promoteGate(p, g, layer) ==
    LET prim == GateAt(p.desc, g).bound
    IN  IF prim # NoPrim THEN promotePrimitive(p, prim, layer) ELSE CarryGate([p |-> p, g |-> g], layer)

-----------------------------------------------------------------------------
(* Gates over gates. *)

\* A gate one layer above its operands, carried to the same layer first.
OverBoth(op, a, b) == addGate(b.p, op, a.g[2], b.g[2], a.g[1] + 1)
OverFirst(op, a, in2) == OverBoth(op, a, promoteGate(a.p, in2, a.g[1]))
makeGate(p, op, in1, in2) ==
    IF in1[1] = in2[1] THEN addGate(p, op, in1[2], in2[2], in1[1] + 1)
    ELSE OverFirst(op, promoteGate(p, in1, IF in1[1] > in2[1] THEN in1[1] ELSE in2[1]), in2)

Times(m, g) == addGate(m.p, "MUL", g[2], m.g[2], g[1] + 1)
negateGate(p, g) == Times(ConstantGate(p, -1, g[1]), g)

Plus(a, in1) == makeGate(a.p, "ADD", in1, a.g)
makeSubGate(p, in1, in2) == Plus(negateGate(p, in2), in1)

\* A constraint: the gate must have the value n in the output layer.
bindOutputConstant(p, g, n) == [p EXCEPT !.outConstantDesc = Append(@, <<g, QInt(n)>>)]

-----------------------------------------------------------------------------
(* A statement makes gates one after the other: b = [p, gs] is the parser  *)
(* and the gates made so far, which later ones name by their position.     *)

Builder(p) == [p |-> p, gs |-> <<>>]
With(b, a) == [p |-> a.p, gs |-> Append(b.gs, a.g)]
AddConstantGate(b, n) == With(b, ConstantGate(b.p, n, 0))

\* A step is <<operation, first operand, second operand>>; "SUB" is makeSubGate.
MakeStep(b, s) ==
    With(b, IF s[1] = "SUB" THEN makeSubGate(b.p, b.gs[s[2]], b.gs[s[3]])
            ELSE makeGate(b.p, s[1], b.gs[s[2]], b.gs[s[3]]))
MakeGates(b, steps) == Fold(MakeStep, b, steps)

\* The variable becomes gate i; the gates at the positions `is' must be 0.
Bind(b, prim, i) == [b EXCEPT !.p = bindVariable(b.p, prim, b.gs[i])]
MustBeZero(b, is) == [b EXCEPT !.p = Fold(LAMBDA p, i : bindOutputConstant(p, b.gs[i], 0), b.p, is)]

\* var * (var - other) = 0
makeZeroOrOtherGate(p, prim, other) ==
    LET c  == AddConstantGate(Builder(p), -other)
        cv == The({With(b, getGate(b.p, prim, 0)) : b \in {c}})
    IN  MustBeZero(MakeGates(cv, <<<<"ADD", 1, 2>>, <<"MUL", 2, 3>>>>), <<4>>).p

-----------------------------------------------------------------------------
(* Reductions. *)

\* One level of a reduction tree over gates of the same layer; of an odd number
\* the first is carried up.
ReduceLevel(p, op, in) ==
    LET odd == Len(in) % 2
        pairs == [i \in 1 .. Len(in) \div 2 |-> <<in[odd + 2 * i - 1], in[odd + 2 * i]>>]
        AddPair(b, pr) == With(b, addGate(b.p, op, pr[1][2], pr[2][2], pr[1][1] + 1))
    IN  Fold(AddPair, IF odd = 1 THEN With(Builder(p), promoteGate(p, in[1], in[1][1] + 1)) ELSE Builder(p), pairs)

RECURSIVE ReduceTree(_, _)
ReduceTree(b, op) == IF Len(b.gs) = 1 THEN [p |-> b.p, g |-> b.gs[1]]
                     ELSE ReduceTree(ReduceLevel(b.p, op, b.gs), op)

\* All terms are carried to the highest layer among them, then reduced.
reduce(p, op, terms) ==
    LET layers == {terms[i][1] : i \in DOMAIN terms}
        top == The({l \in layers : \A m \in layers : m <= l})
    IN  IF terms = <<>> THEN ConstantGate(p, 0, 0)
        ELSE IF Len(terms) = 1 THEN [p |-> p, g |-> terms[1]]
        ELSE ReduceTree(Fold(LAMBDA b, g : With(b, promoteGate(b.p, g, top)), Builder(p), terms), op)

\* The sum of the gates at the positions `is': one more gate, or a constraint.
Chosen(b, is) == [i \in DOMAIN is |-> b.gs[is[i]]]
AddSum(b, is) == With(b, reduce(b.p, "ADD", Chosen(b, is)))
SumIsOne(b, is) == [b EXCEPT !.p = The({bindOutputConstant(a.p, a.g, 1) : a \in {reduce(b.p, "ADD", Chosen(b, is))}})]

=============================================================================
