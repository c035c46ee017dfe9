------------------------------- MODULE PwsParser -------------------------------
(***************************************************************************)
(* The statements of a worksheet as the circuit parser reads them          *)
(* (cmtgkr/circuit/pws_circuit_parser.cpp): each adds gates, binds its     *)
(* target and, for the comparisons, adds the constraints on the magic      *)
(* variables and the operation that will compute them.                     *)
(***************************************************************************)
EXTENDS PwsCircuit

\* The lowest gate of a token's primitive.
TokenGate(p, tok) == getGate(p, ToPrimitive(tok), 0)

\* The gates of a sequence of tokens, after those made so far.
TokenGates(b, toks) == Fold(LAMBDA acc, tok : With(acc, TokenGate(acc.p, tok)), b, toks)

\* All operands of a statement are entered before any gate is made.
Enter(p, toks) == Fold(parsePrimitive, p, toks)

-----------------------------------------------------------------------------
(* Polynomials.  The result of a parser is the parser state, the tokens    *)
(* read so far (k is the next one), and gs: <<gate>>, or <<>> for Maybe's  *)
(* invalid.  A token that was rewound is not consumed.                     *)

RECURSIVE parsePoly(_, _, _, _), PolyTerms(_, _, _, _), TermTokens(_, _)

\* The terms or factors a.gs become one gate r.
Reduced(a, r) == [p |-> r.p, k |-> a.k, gs |-> <<r.g>>]

\* "-" negates the factor that follows it.
NegateLast(a, n) == [a EXCEPT !.p = n.p, !.gs[Len(a.gs)] = n.g, !.negate = FALSE]
AfterSign(a) == IF a.negate THEN NegateLast(a, negateGate(a.p, Last(a.gs))) ELSE a

\* Parenthesised polynomials and primitives are the factors of a term.
PolyFactor(a, sub) == IF sub.gs = <<>> THEN [a EXCEPT !.p = sub.p, !.k = sub.k, !.ok = FALSE]
                      ELSE [a EXCEPT !.p = sub.p, !.k = sub.k, !.gs = @ \o sub.gs]
PrimFactor(a, f) == [a EXCEPT !.p = f.p, !.k = @ + 1, !.gs = Append(@, f.g)]

\* One token of a term; ok is FALSE after an error.
TermToken(toks, tok, a) ==
    CASE tok[1] = "(" -> PolyFactor(a, parsePoly(a.p, toks, a.k + 1, ")"))
      [] tok[1] = "-" -> [a EXCEPT !.k = @ + 1, !.negate = TRUE]
      [] tok[1] \in {"*", "+"} -> [a EXCEPT !.k = @ + 1, !.ok = (a.gs # <<>>)]
      [] OTHER -> PrimFactor(a, TokenGate(parsePrimitive(a.p, tok), tok))

\* The factors of a term, up to what ends it.
TermTokens(toks, a) ==
    IF ~a.ok \/ a.k > Len(toks) \/ toks[a.k][1] \in {"E", ")"}
          \/ (toks[a.k][1] = "+" /\ a.gs # <<>>) THEN a
    ELSE TermTokens(toks, The({IF toks[a.k][1] = "-" \/ ~b.ok THEN b ELSE AfterSign(b) :
                                 b \in {TermToken(toks, toks[a.k], a)}}))

TermGate(a) == IF ~a.ok \/ a.gs = <<>> THEN [p |-> a.p, k |-> a.k, gs |-> <<>>]
               ELSE Reduced(a, reduce(a.p, "MUL", a.gs))
parsePolyTerm(p, toks, k) ==
    TermGate(TermTokens(toks, [p |-> p, k |-> k, gs |-> <<>>, negate |-> FALSE, ok |-> TRUE]))

\* The terms of a polynomial up to the token end.
MoreTerms(toks, t, terms, end) == PolyTerms(toks, t, terms \o t.gs, end)
PolyTerms(toks, a, terms, end) ==
    CASE a.k > Len(toks) -> [a EXCEPT !.gs = terms]
      [] a.k <= Len(toks) /\ toks[a.k][1] = "+" ->
            IF terms = <<>> THEN [a EXCEPT !.k = @ + 1, !.gs = <<>>]
            ELSE PolyTerms(toks, [a EXCEPT !.k = @ + 1], terms, end)
      [] a.k <= Len(toks) /\ toks[a.k][1] = end -> [a EXCEPT !.k = @ + 1, !.gs = terms]
      [] OTHER -> MoreTerms(toks, parsePolyTerm(a.p, toks, a.k), terms, end)

SumOf(a) == IF a.gs = <<>> THEN a ELSE Reduced(a, reduce(a.p, "ADD", a.gs))
parsePoly(p, toks, k, end) == SumOf(PolyTerms(toks, [p |-> p, k |-> k, gs |-> <<>>], <<>>, end))

\* P: the target becomes the polynomial's gate; a constant target is a constraint.
Target(r, y) ==
    IF r.gs = <<>> THEN r.p
    ELSE IF IsConst(y) THEN [r.p EXCEPT !.outConstantDesc = Append(@, <<r.gs[1], y[2]>>)]
    ELSE bindVariable(r.p, ToPrimitive(y), r.gs[1])
parsePolyConstraint(p, s) == Target(parsePoly(parsePrimitive(p, s.y), s.toks, 1, "E"), s.y)

-----------------------------------------------------------------------------
(* Comparisons. *)

\* getOpGuard: the layers' sizes when the statement starts.
OpGuard(p) == [l \in DOMAIN p.desc |-> Len(p.desc[l])]

AddMagicOp(p, guard, op) == [p EXCEPT !.magicOps = Append(@, [guard |-> guard, op |-> op])]

\* The gate of a magic variable that is 0 or w.
MagicBit(p, v, w) == getGate(makeZeroOrOtherGate(makeMagic(AddPrim(p, v, "MAGIC"), v), v, w), v, 0)

\* n consecutive magic variables from index first, with the weights 1, 2, 4, ...,
\* and the constant - 2^n.
BitGates(b, first, n) ==
    AddConstantGate(Fold(LAMBDA acc, i : With(acc, MagicBit(acc.p, <<"V", first + i>>, 2^i)),
                         b, [i \in 1 .. n |-> i - 1]), -(2^n))

\* Exactly one of the three magic variables is 1; their gates are the next three.
AllMagic(p, ms) == Fold(makeMagic, p, ms)
AllZeroOrOne(p, ms) == Fold(LAMBDA q, m : makeZeroOrOtherGate(q, m, 1), p, ms)
OrderGates(b, ms) ==
    SumIsOne(TokenGates([b EXCEPT !.p = AllZeroOrOne(AllMagic(b.p, ms), ms)], ms),
             [i \in 1 .. 3 |-> Len(b.gs) + i])

\* Mutant: the two differences are exchanged.
MutOrderConstraints(b, s, m, gap, n) ==
    Bind(MustBeZero(MakeGates(TokenGates(b, <<s.x1, s.x2>>),
             <<<<"SUB", n + 2, n + 1>>, <<"SUB", n + 1, n + 2>>,
               <<"ADD", gap, n + 4>>, <<"MUL", m, n + 5>>,
               <<"ADD", gap, n + 3>>, <<"MUL", m + 2, n + 7>>,
               <<"MUL", m + 1, n + 3>>>>), <<n + 6, n + 8, n + 9>>), ToPrimitive(s.y), m)

\* The magic gates lt, eq, gt are m, m + 1, m + 2; gap is minus the distance; n gates
\* were made: lt * (x2 - x1 + gap) = 0, gt * (x1 - x2 + gap) = 0, eq * (x1 - x2) = 0;
\* then Y is lt's gate.
OrderConstraints(b, s, m, gap, n) ==
    Bind(MustBeZero(MakeGates(TokenGates(b, <<s.x1, s.x2>>),
             <<<<"SUB", n + 1, n + 2>>, <<"SUB", n + 2, n + 1>>,
               <<"ADD", gap, n + 4>>, <<"MUL", m, n + 5>>,
               <<"ADD", gap, n + 3>>, <<"MUL", m + 2, n + 7>>,
               <<"MUL", m + 1, n + 3>>>>), <<n + 6, n + 8, n + 9>>), ToPrimitive(s.y), m)

\* The operation that will compute the magic gates; x1 and x2 are the last two gates.
AddOrderOp(b, guard, kind, m, ns, ds) ==
    AddMagicOp(b.p, guard,
        [kind |-> kind, ms |-> Chosen(b, <<m, m + 1, m + 2>>), ns |-> Chosen(b, ns), ds |-> Chosen(b, ds),
         x1 |-> b.gs[Len(b.gs) - 1], x2 |-> Last(b.gs)])

\* <I
parseLessThanInt(p, s) ==
    LET n    == s.N - 1
        ms   == <<s.lt, s.eq, s.gt>>
        bits == BitGates(Builder(Enter(p, <<<<"V", s.n0>>>> \o ms \o <<s.x1, s.x2, s.y>>)), s.n0, n)
        gap  == AddSum(OrderGates(bits, ms), [i \in 1 .. n + 1 |-> i])
    IN  AddOrderOp(TokenGates(OrderConstraints(gap, s, n + 2, n + 5, n + 5), <<s.x1, s.x2>>),
                   OpGuard(p), "<I", n + 2, [i \in 1 .. n |-> i], <<>>)

\* The bits of D have the weights 1, 1/2, 1/4, ...: a bit, its weight, the product.
WeightedBit(b, v, i) ==
    MakeGates(AddConstantGate(With(b, MagicBit(b.p, v, 1)), Invert(2^i)),
              <<<<"MUL", Len(b.gs) + 2, Len(b.gs) + 1>>>>)
WeightedBits(b, s) == Fold(LAMBDA acc, i : WeightedBit(acc, <<"V", s.d0 + i>>, i),
                           b, [i \in 1 .. s.Nb + 1 |-> i - 1])

\* <F: N, D and ND are bound to the gates that compute them from the bits;
\* exactly one of D's bits is set.
parseLessThanFloat(p, s) ==
    LET na  == s.Na
        sum == na + 2
        ds  == [i \in 1 .. s.Nb + 1 |-> sum + 3 * i - 2]
        d   == sum + 3 * (s.Nb + 1) + 1
        ms  == <<s.lt, s.eq, s.gt>>
        bits == BitGates(Builder(Enter(p, <<<<"V", s.n0>>, s.n, <<"V", s.d0>>, s.d, s.nd>> \o ms
                                            \o <<s.x1, s.x2, s.y>>)), s.n0, na)
        N   == Bind(AddSum(bits, [i \in 1 .. na + 1 |-> i]), ToPrimitive(s.n), sum)
        D   == Bind(AddSum(SumIsOne(WeightedBits(N, s), ds), [i \in DOMAIN ds |-> ds[i] + 2]),
                    ToPrimitive(s.d), d)
        ND  == Bind(MakeGates(D, <<<<"MUL", sum, d>>>>), ToPrimitive(s.nd), d + 1)
    IN  AddOrderOp(TokenGates(OrderConstraints(OrderGates(ND, ms), s, d + 2, d + 1, d + 4), <<s.x1, s.x2>>),
                   OpGuard(p), "<F", d + 2, [i \in 1 .. na |-> i], ds)

\* !=: Y = M * (x1 - x2), and (x1 - x2) - (x1 - x2) * Y = 0.
AddNotEqualOp(b, guard) ==
    AddMagicOp(b.p, guard, [kind |-> "!=", m |-> b.gs[1], x1 |-> b.gs[Len(b.gs) - 1], x2 |-> Last(b.gs)])
parseNotEqual(p, s) ==
    LET magic == makeMagic(Enter(p, <<s.m, s.x1, s.x2, s.y>>), ToPrimitive(s.m))
        gates == MakeGates(TokenGates(Builder(magic), <<s.m, s.x1, s.x2>>),
                           <<<<"SUB", 2, 3>>, <<"SUB", 3, 2>>, <<"MUL", 1, 4>>, <<"MUL", 6, 5>>,
                             <<"ADD", 7, 4>>>>)
        ends  == MustBeZero(Bind(gates, ToPrimitive(s.y), 6), <<8>>)
    IN  AddNotEqualOp(TokenGates(ends, <<s.x1, s.x2>>), OpGuard(p))

\* "/": a DIV_INT gate, which multiplies by the inverse of the integer divisor.
parseDivide(p, s) ==
    LET c == AddConstantGate(Builder(Enter(p, <<s.y, s.x1>>)), Invert(Num(s.x2[2])))
    IN  Bind(MakeGates(TokenGates(c, <<s.x1>>), <<<<"DIV_INT", 2, 1>>>>), ToPrimitive(s.y), 3).p

-----------------------------------------------------------------------------

\* The names of the bound outputs.
BoundOutputs(p) == {v \in DOMAIN p.cprims : p.cprims[v].type = "OUTPUT" /\ IsBound(p.cprims[v])}

OutputLayer(p) ==
    LET layers == {p.outConstantDesc[i][1][1] : i \in DOMAIN p.outConstantDesc}
                    \cup {p.cprims[v].min : v \in BoundOutputs(p)} \cup {0}
    IN  CHOOSE l \in layers : \A m \in layers : m <= l

\* Constraint gates, then outputs, are carried to the highest layer one of them
\* has; outConstants are the constraints with their gate in that layer.
OutConstants(b, cs) == [b.p EXCEPT !.outConstantDesc = [i \in DOMAIN cs |-> <<b.gs[i][2], cs[i][2]>>]]
PromoteConstraints(p, top) ==
    OutConstants(Fold(LAMBDA b, c : With(b, promoteGate(b.p, c[1], top)), Builder(p), p.outConstantDesc),
                 p.outConstantDesc)
PromoteOutputs(p, top) == Fold(LAMBDA q, v : promotePrimitive(q, v, top).p, p, SetToSeq(BoundOutputs(p)))
makeOutputLayer(p) == PromoteOutputs(PromoteConstraints(p, OutputLayer(p)), OutputLayer(p))

\* The indexes of a parsed circuit: input, output and magic gates by variable,
\* constants in their order with their gates.
inGates(p) == [v \in {w \in DOMAIN p.cprims : p.cprims[w].type = "INPUT" /\ IsBound(p.cprims[w])} |->
                 p.cprims[v].gateIndex[1]]
outGates(p) == [v \in BoundOutputs(p) |-> Last(p.cprims[v].gateIndex)]
magicGates(p) == [v \in {w \in DOMAIN p.cprims : p.cprims[w].type = "MAGIC" /\ IsBound(p.cprims[w])} |->
                    p.cprims[v].gateIndex[1]]
inConstants(p) == LET bound == SelectSeq(p.constants, LAMBDA c : IsBound(p.cprims[c]))
                  IN  [i \in DOMAIN bound |-> <<bound[i][2], p.cprims[bound[i]].gateIndex[1]>>]

=============================================================================
