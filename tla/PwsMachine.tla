------------------------------ MODULE PwsMachine ------------------------------
(***************************************************************************)
(* A worksheet is run twice, as the two provers of the repository do:      *)
(* statement by statement by the interpreter of libv, and parsed into a    *)
(* circuit that is then evaluated layer by layer, magic operation by magic *)
(* operation (pws_circuit.cpp, magic_var_operation.cpp).                   *)
(***************************************************************************)
EXTENDS PwsParser

CONSTANT Worksheets    \* a sequence of pairs: a program and the set of its inputs

VARIABLES prog,     \* the statements of the worksheet
          input,    \* the inputs, a function on 0..n-1
          phase,    \* "interpret", "parse", "evaluate" or "done"
          k,        \* the next statement, or the next magic operation
          st,       \* the interpreter's variables
          p,        \* the circuit parser
          vals      \* vals[l + 1][i + 1]: rational q and residue z of gate i of layer l

vars == <<prog, input, phase, k, st, p, vals>>

-----------------------------------------------------------------------------
(* What a polynomial means, and how the compiler prints it: terms joined   *)
(* by "+", "-" in front of a term whose coefficient is -1, a factor that   *)
(* is a polynomial in parentheses.  A term is <<negated, factors>>.        *)

RECURSIVE PrintPoly(_), Meaning(_, _)

Joined(parts, sep) == FoldLeft(LAMBDA acc, x : IF acc = <<>> THEN x ELSE acc \o <<sep>> \o x, <<>>, parts)
PrintFactor(f) == IF f[1] = "poly" THEN <<<<"(", 0>>>> \o PrintPoly(f[2]) \o <<<<")", 0>>>> ELSE <<f>>
PrintTerm(t) == (IF t[1] THEN <<<<"-", 0>>>> ELSE <<>>)
                  \o Joined([i \in DOMAIN t[2] |-> PrintFactor(t[2][i])], <<"*", 0>>)
PrintPoly(a) == Joined([i \in DOMAIN a |-> PrintTerm(a[i])], <<"+", 0>>)

PolyStmt(y, a) == [op |-> "P", y |-> y, ast |-> a, toks |-> PrintPoly(a) \o <<<<"E", 0>>>>]

Meaning(s, a) ==
    LET Factor(f) == IF f[1] = "poly" THEN Meaning(s, f[2]) ELSE voc(s, f)
        Term(t) == FoldLeft(LAMBDA q, f : QMul(q, Factor(f)), QInt(IF t[1] THEN -1 ELSE 1), t[2])
    IN  FoldLeft(LAMBDA q, t : QAdd(q, Term(t)), QInt(0), a)

-----------------------------------------------------------------------------
(* The values of gates. *)

\* Gate::setValue of a rational and of an integer.
setValueQ(q) == [q |-> modIfNeededQ(q, 2), z |-> modIfNeeded(convert_to_z(q), 2)]
setValueZ(n) == [q |-> QInt(modIfNeeded(n, 2)), z |-> modIfNeeded(n, 2)]

\* applyGateOperation on the residues.
GateOp(op, a, b) == modIfNeeded(IF op = "ADD" THEN a + b ELSE a * b, 2)

\* The rational is computed beside the residue; DIV_INT divides it by the
\* integer whose inverse the second operand is.
computeGateValue(op, a, b) ==
    CASE op = "MUL" /\ (Num(a.q) = 0 \/ Num(b.q) = 0) -> [q |-> QInt(0), z |-> 0]
      [] OTHER -> [q |-> modIfNeededQ(CASE op = "ADD" -> QAdd(a.q, b.q)
                                        [] op = "MUL" -> QMul(a.q, b.q)
                                        [] OTHER -> QDiv(a.q, QInt(toTrueNumber(Invert(b.z)))), 2),
                   z |-> GateOp(op, a.z, b.z)]

\* Mutant: the guard also ends the evaluation of the layer above it.
MutevalGates(par, v, start, end) ==
    FoldLeft(LAMBDA w, l : [w EXCEPT ![l] = [i \in DOMAIN @ |->
                 IF i > (IF l <= Len(start) THEN start[l] ELSE 0) /\ i <= end[l - 1]
                 THEN LET gd == par.desc[l][i]
                      IN  computeGateValue(gd.op, w[l - 1][gd.in1 + 1], w[l - 1][gd.in2 + 1])
                 ELSE @[i]]],
             v, [l \in 1 .. Len(end) - 1 |-> l + 1])

\* The gates of the layers above the input layer from start to before end.
evalGates(par, v, start, end) ==
    FoldLeft(LAMBDA w, l : [w EXCEPT ![l] = [i \in DOMAIN @ |->
                 IF i > (IF l <= Len(start) THEN start[l] ELSE 0) /\ i <= end[l]
                 THEN LET gd == par.desc[l][i]
                      IN  computeGateValue(gd.op, w[l - 1][gd.in1 + 1], w[l - 1][gd.in2 + 1])
                 ELSE @[i]]],
             v, [l \in 1 .. Len(end) - 1 |-> l + 1])

-----------------------------------------------------------------------------
(* Magic operations. *)

setVal(v, g, n) == [v EXCEPT ![g[1] + 1][g[2] + 1] = [q |-> QInt(n), z |-> n]]
ValueAt(v, g) == v[g[1] + 1][g[2] + 1]

\* The gates gs get the values of f, a function on their positions.
SetVals(v, gs, f) == FoldLeft(LAMBDA w, i : setVal(w, gs[i], f[i]), v, [i \in DOMAIN gs |-> i])

computeMs(v, ms, sgn) ==
    SetVals(v, ms, <<IF sgn < 0 THEN 1 ELSE 0, IF sgn = 0 THEN 1 ELSE 0, IF sgn > 0 THEN 1 ELSE 0>>)

\* Bits of sum + 2^n, weighted, or of sum itself.
computeBits(v, gs, sum, trueBits) ==
    SetVals(v, gs, [i \in DOMAIN gs |-> IF trueBits THEN Bit(sum, i - 1)
                                        ELSE Bit(sum + 2^Len(gs), i - 1) * 2^(i - 1)])

\* M is the inverse of the difference.  Unreduced residues of the same number
\* compare as different; then there is no inverse and M does not matter.
computeNotEqual(v, op) ==
    LET x1 == ValueAt(v, op.x1).z
        x2 == ValueAt(v, op.x2).z
    IN  setVal(v, op.m, IF x1 = x2 THEN 0 ELSE Invert(x1 - x2))

\* The residues are turned into signed numbers in place, then compared.
computeLessThanInt(v, op) ==
    LET v1 == [v EXCEPT ![op.x1[1] + 1][op.x1[2] + 1].z = toTrueNumber(@)]
        v2 == IF op.x1 = op.x2 THEN v1 ELSE [v1 EXCEPT ![op.x2[1] + 1][op.x2[2] + 1].z = toTrueNumber(@)]
        d  == ValueAt(v2, op.x1).z - ValueAt(v2, op.x2).z
    IN  computeBits(computeMs(v2, op.ms, d), op.ns, IF d < 0 THEN d ELSE -d, FALSE)

\* The same on the rationals; the denominator's bits are true bits.
computeLessThanFloat(v, op) ==
    LET v1 == [v EXCEPT ![op.x1[1] + 1][op.x1[2] + 1].q = toTrueNumberQ(@)]
        v2 == [v1 EXCEPT ![op.x2[1] + 1][op.x2[2] + 1].q = toTrueNumberQ(@)]
        d  == QSub(ValueAt(v2, op.x1).q, ValueAt(v2, op.x2).q)
    IN  computeBits(computeBits(computeMs(v2, op.ms, Num(d)), op.ns, -Abs(Num(d)), FALSE),
                    op.ds, Den(d), TRUE)

computeMagicGates(v, op) ==
    CASE op.kind = "!=" -> computeNotEqual(v, op)
      [] op.kind = "<I" -> computeLessThanInt(v, op)
      [] op.kind = "<F" -> computeLessThanFloat(v, op)

-----------------------------------------------------------------------------
(* The circuit's inputs. *)

ZeroGates(par) == [l \in DOMAIN par.desc |-> [i \in DOMAIN par.desc[l] |-> [q |-> QInt(0), z |-> 0]]]

\* Constants are set one after the other through one mpz; a rational constant is
\* no integer to mpz_set_str, which leaves the previous constant in place.
SetConstants(v, consts) ==
    FoldLeft(LAMBDA acc, c : LET n == IF Den(c[1]) = 1 THEN Num(c[1]) ELSE acc.num
                             IN  [v |-> [acc.v EXCEPT ![1][c[2] + 1] = setValueZ(n)], num |-> n],
             [v |-> v, num |-> 0], consts).v

SetGates(v, layer, gates, qs) ==
    [v EXCEPT ![layer] = [i \in DOMAIN @ |->
        IF \E w \in DOMAIN gates : gates[w] = i - 1 /\ w[2] \in DOMAIN qs
        THEN setValueQ(qs[(CHOOSE w \in DOMAIN gates : gates[w] = i - 1)[2]]) ELSE @[i]]]

initializeInputs(par, ins) ==
    SetConstants(SetGates(ZeroGates(par), 1, inGates(par), ins), inConstants(par))

\* The verifier's copy of the output layer: the outputs it received, and the
\* constants that the constraints require; its other gates stay 0.
initializeOutputs(par, outs) ==
    LET v == SetGates(ZeroGates(par), Len(par.desc), outGates(par), outs)[Len(par.desc)]
    IN  [i \in DOMAIN v |->
           IF \E c \in DOMAIN par.outConstantDesc : par.outConstantDesc[c][1] = i - 1
           THEN setValueZ(Num(par.outConstantDesc[CHOOSE c \in DOMAIN par.outConstantDesc :
                                                    par.outConstantDesc[c][1] = i - 1][2]))
           ELSE v[i]]

-----------------------------------------------------------------------------

\* Every variable of a program; unwritten ones stay 0.
Indices(kinds) ==
    LET named == {prog[i].y : i \in DOMAIN prog}
    IN  {t[2] : t \in {u \in named : u[1] \in kinds}}
MaxIndex == 40

Init ==
    /\ \E w \in DOMAIN Worksheets : prog = Worksheets[w][1] /\ input \in Worksheets[w][2]
    /\ phase = "interpret" /\ k = 1
    /\ st = [io |-> [i \in DOMAIN input \cup Indices({"O"}) |->
                       IF i \in DOMAIN input THEN input[i] ELSE QInt(0)],
             F1 |-> [i \in 0 .. MaxIndex |-> QInt(0)]]
    /\ p = EmptyParser
    /\ vals = <<>>

\* compute_from_pws: one statement.
Interpret ==
    /\ phase = "interpret" /\ k <= Len(prog)
    /\ st' = compute_statement(st, prog[k])
    /\ k' = k + 1
    /\ UNCHANGED <<prog, input, phase, p, vals>>

\* The circuit parser starts over on the same worksheet.
StartParse ==
    /\ phase = "interpret" /\ k > Len(prog)
    /\ phase' = "parse" /\ k' = 1
    /\ UNCHANGED <<prog, input, st, p, vals>>

\* PWSCircuitParser::parse: one statement; what is no statement of the
\* circuit parser (the bit splits) is skipped.
Parse ==
    /\ phase = "parse" /\ k <= Len(prog)
    /\ LET s == prog[k]
       IN  p' = CASE s.op = "P"  -> parsePolyConstraint(p, s)
                  [] s.op = "<I" -> parseLessThanInt(p, s)
                  [] s.op = "<F" -> parseLessThanFloat(p, s)
                  [] s.op = "!=" -> parseNotEqual(p, s)
                  [] s.op = "/"  -> parseDivide(p, s)
                  [] OTHER -> p
    /\ k' = k + 1
    /\ UNCHANGED <<prog, input, phase, st, vals>>

\* The end of parse, constructCircuit and initializeInputs.
Construct ==
    /\ phase = "parse" /\ k > Len(prog)
    /\ p' = makeOutputLayer(p)
    /\ vals' = initializeInputs(p', input)
    /\ phase' = "evaluate" /\ k' = 1
    /\ UNCHANGED <<prog, input, st>>

LastGuard == IF k = 1 THEN <<>> ELSE p.magicOps[k - 1].guard

\* One turn of the loop of evaluate: the gates before the guard, then the magic gates.
EvaluateMagicOp ==
    /\ phase = "evaluate" /\ k <= Len(p.magicOps)
    /\ vals' = computeMagicGates(evalGates(p, vals, LastGuard, p.magicOps[k].guard), p.magicOps[k].op)
    /\ k' = k + 1
    /\ UNCHANGED <<prog, input, phase, st, p>>

\* Any remaining gates.
EvaluateRest ==
    /\ phase = "evaluate" /\ k > Len(p.magicOps)
    /\ vals' = evalGates(p, vals, LastGuard, [l \in DOMAIN p.desc |-> Len(p.desc[l])])
    /\ phase' = "done"
    /\ UNCHANGED <<prog, input, k, st, p>>

Done == phase = "done" /\ UNCHANGED vars

Next == Interpret \/ StartParse \/ Parse \/ Construct \/ EvaluateMagicOp \/ EvaluateRest \/ Done

Spec == Init /\ [][Next]_vars

-----------------------------------------------------------------------------
(* Properties. *)

\* What a statement must leave in its target (compute_from_pws).
Means(s, old, new) ==
    LET y == voc(new, s.y)
    IN  CASE s.op = "P"  -> IsConst(s.y) \/ y = Meaning(old, s.ast)
          [] s.op \in {"<I", "<F"} -> (y = QInt(1)) = (QCmp(voc(old, s.x1), voc(old, s.x2)) < 0)
          [] s.op = "!=" -> (y = QInt(1)) = (voc(old, s.x1) # voc(old, s.x2))
          [] s.op = "/"  -> QMul(y, voc(old, s.x2)) = voc(old, s.x1)
          [] s.op = "SI" -> SumFunction([i \in 0 .. s.N - 1 |-> Num(new.F1[s.y0 + i]) * 2^(s.N - 1 - i)])
                              = Num(voc(old, s.x))
          [] s.op = "SIL" -> SumFunction([i \in 0 .. s.N - 1 |->
                                 (IF s.signed /\ i = s.N - 1 THEN -1 ELSE 1) * Num(new.F1[s.y0 + i]) * 2^i])
                              = Num(voc(old, s.x))

\* Every step of the interpreter leaves in its target what the statement means:
\* the value of the polynomial as written, the truth of the comparison, bits that
\* recombine to the number that was split.
StatementMeans == [][Interpret => Means(prog[k], st, st')]_vars

Top == Len(p.desc)
Splits == \E i \in DOMAIN prog : prog[i].op \in {"SI", "SIL"}

ConstraintsMet(v) == \A i \in DOMAIN p.outConstantDesc :
    LET c == p.outConstantDesc[i] IN v[Top][c[1] + 1].z % prime = convert_to_z(c[2])

\* The two readings of a worksheet agree: the output layer that the verifier sets up
\* from the outputs the interpreter computed and from the constraints is, gate by
\* gate, the output layer that the prover evaluated, so the claim it checks is true.
ReadingsAgree ==
    phase = "done" /\ ~Splits =>
        LET ver == initializeOutputs(p, st.io)
        IN  \A i \in DOMAIN ver : ver[i].z % prime = vals[Top][i].z % prime

\* The evaluation with the magic values an honest prover computes meets every
\* constraint of the circuit (the constraint comments of the parse functions), and
\* the rational beside every output's residue is the same number.
ConstraintsHold ==
    phase = "done" /\ ~Splits =>
        /\ ConstraintsMet(vals)
        /\ \A o \in DOMAIN outGates(p) :
             LET g == vals[Top][outGates(p)[o] + 1] IN convert_to_z(g.q) = g.z % prime

\* The auxiliary values the interpreter chose are a witness for the circuit too:
\* put in the magic gates, they meet all its constraints.
WitnessFits ==
    phase = "done" /\ ~Splits =>
        ConstraintsMet(evalGates(p, SetGates(initializeInputs(p, input), 1, magicGates(p), st.F1),
                                 <<>>, [l \in DOMAIN p.desc |-> Len(p.desc[l])]))

=============================================================================
