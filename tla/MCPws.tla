--------------------------------- MODULE MCPws ---------------------------------
(* Worksheets in the forms the compiler emits, with all small inputs. *)
EXTENDS PwsMachine

I(i) == <<"I", i>>
O(i) == <<"O", i>>
V(i) == <<"V", i>>
C(n) == <<"C", QInt(n)>>
P(a) == <<"poly", a>>
pos(fs) == <<FALSE, fs>>
neg(fs) == <<TRUE, fs>>
Copy(y, x) == PolyStmt(y, <<pos(<<x>>)>>)

LtI(n0, m, x1, x2, y) == [op |-> "<I", n0 |-> n0, N |-> 4, lt |-> V(m), eq |-> V(m + 1), gt |-> V(m + 2),
                          x1 |-> x1, x2 |-> x2, y |-> y]
LtF(n0, x1, x2, y) == [op |-> "<F", n0 |-> n0, Na |-> 4, n |-> V(n0 + 4), d0 |-> n0 + 5, Nb |-> 1,
                       d |-> V(n0 + 7), nd |-> V(n0 + 8), lt |-> V(n0 + 9), eq |-> V(n0 + 10),
                       gt |-> V(n0 + 11), x1 |-> x1, x2 |-> x2, y |-> y]
Ne(m, x1, x2, y) == [op |-> "!=", m |-> V(m), x1 |-> x1, x2 |-> x2, y |-> y]
Div(y, x, c) == [op |-> "/", y |-> y, x1 |-> x, x2 |-> C(c)]
SIL(signed, n, x, y) == [op |-> "SIL", signed |-> signed, N |-> n, x |-> x, y0 |-> y, y |-> V(y)]
SI(n, x, y) == [op |-> "SI", N |-> n, x |-> x, y0 |-> y, y |-> V(y)]

Ints(n, S) == {[i \in 0 .. n - 1 |-> QInt(f[i])] : f \in [0 .. n - 1 -> S]}
Halves == {QInt(-1), QInt(0), Q(1, 2), QInt(2), Q(3, 2)}

MCWorksheets == <<
    \* nested polynomials with signs; a target used by the next statement
    <<<<Copy(V(0), I(0)),
        PolyStmt(V(1), <<pos(<<I(0), I(1)>>), neg(<<I(1)>>), pos(<<C(3)>>)>>),
        PolyStmt(O(2), <<neg(<<V(0), P(<<pos(<<V(1)>>), neg(<<I(1), V(0)>>)>>)>>), pos(<<V(1), V(1)>>)>>),
        PolyStmt(O(3), <<neg(<<P(<<neg(<<P(<<pos(<<I(0)>>), pos(<<C(2)>>)>>)>>)>>)>>)>>)>>,
      Ints(2, {-2, 0, 1, 3})>>,
    \* three terms: the odd one is carried; a constraint with a constant target
    <<<<PolyStmt(V(0), <<pos(<<I(0)>>), pos(<<I(1)>>), pos(<<I(0), I(1), I(1)>>)>>),
        PolyStmt(O(2), <<pos(<<V(0)>>)>>),
        PolyStmt(C(0), <<pos(<<V(0)>>), neg(<<O(2)>>)>>)>>,
      Ints(2, {-1, 0, 2})>>,
    \* a comparison of inputs, and one of values computed from its result
    <<<<Copy(V(0), I(0)), Copy(V(1), I(1)),
        LtI(2, 5, V(0), V(1), V(8)),
        PolyStmt(V(9), <<pos(<<V(8), C(2)>>), pos(<<C(1)>>)>>),
        LtI(10, 13, C(2), V(9), O(2))>>,
      Ints(2, {-3, 0, 1, 4})>>,
    \* inequality of a difference, then a sum with its result
    <<<<PolyStmt(V(0), <<pos(<<I(0)>>), neg(<<I(1)>>)>>),
        Ne(1, V(0), C(1), V(2)),
        PolyStmt(O(2), <<pos(<<V(2), I(0)>>), pos(<<I(1)>>)>>)>>,
      Ints(2, {-1, 0, 1, 2})>>,
    \* exact division and a comparison of rationals
    <<<<Div(V(0), I(0), 2), LtF(1, V(0), I(1), V(20)),
        PolyStmt(O(2), <<pos(<<V(20)>>), pos(<<V(0)>>)>>)>>,
      {[i \in 0 .. 1 |-> IF i = 0 THEN QInt(a) ELSE b] : a \in {-1, 0, 1, 3}, b \in Halves}>>,
    \* bits, which only the interpreter knows
    <<<<SI(3, I(0), 0), SIL(FALSE, 3, I(0), 3), SIL(TRUE, 4, I(1), 6), Copy(O(2), V(0))>>,
      {[i \in 0 .. 1 |-> QInt(IF i = 0 THEN a ELSE b)] : a \in 0 .. 7, b \in -8 .. 7}>>>>
=============================================================================
