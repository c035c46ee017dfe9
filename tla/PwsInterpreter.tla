---------------------------- MODULE PwsInterpreter ----------------------------
(***************************************************************************)
(* The prover's interpreter of a prover worksheet (libv/computation_p.cpp) *)
(* A worksheet is a sequence of statements; a statement is a record with   *)
(* the operands its tokens name, and a polynomial is the sequence of its   *)
(* tokens.  A token is a pair: <<"I", i>>, <<"O", i>>, <<"V", i>> name a   *)
(* variable, <<"C", q>> a rational constant, the others are punctuation.   *)
(* The interpreter's state st has the fields io (input_output_q) and       *)
(* F1 (F1_q, addressed by the variable's index).                           *)
(***************************************************************************)
EXTENDS GmpNumbers

CONSTANT temp_stack_size    \* size of the stack of temporaries temp_qs

IsConst(tok) == tok[1] = "C"

\* "variable or constant"
voc(st, tok) == CASE tok[1] \in {"I", "O"} -> st.io[tok[2]]
                  [] tok[1] = "V" -> st.F1[tok[2]]
                  [] OTHER -> tok[2]

\* Assignment through the reference voc returns; to a constant it only
\* overwrites the temporary.
Assign(st, tok, q) == CASE tok[1] \in {"I", "O"} -> [st EXCEPT !.io[tok[2]] = q]
                        [] tok[1] = "V" -> [st EXCEPT !.F1[tok[2]] = q]
                        [] OTHER -> st

\* Both operands of a comparison live in temp_q when they are constants, so the
\* first is overwritten by the second.
FirstOperand(st, x1, x2) == IF IsConst(x1) /\ IsConst(x2) THEN voc(st, x2) ELSE voc(st, x1)

-----------------------------------------------------------------------------

\* The pending term is added to the polynomial.
EmitTerm(a) ==
    IF ~a.hasFactors THEN a
    ELSE LET t == IF a.negate THEN QNeg(a.term) ELSE a.term
         IN  [a EXCEPT !.poly = IF a.hasTerms THEN QAdd(a.poly, t) ELSE t,
                       !.hasTerms = TRUE, !.hasFactors = FALSE, !.negate = FALSE]

MulFactor(a, q) == [a EXCEPT !.term = IF a.hasFactors THEN QMul(a.term, q) ELSE q,
                             !.hasFactors = TRUE]

RECURSIVE compute_poly(_, _, _, _), PolyTokens(_, _, _, _)

\* The value of the polynomial that starts at token k, and the token after it.
compute_poly(st, toks, k, tempNum) ==
    IF tempNum >= temp_stack_size - 1 THEN [poly |-> QInt(0), k |-> k]
    ELSE EmitTerm(PolyTokens(st, toks, tempNum,
             [k |-> k, poly |-> QInt(0), term |-> QInt(0),
              hasTerms |-> FALSE, hasFactors |-> FALSE, negate |-> FALSE]))

PolyTokens(st, toks, tempNum, a) ==
    IF a.k > Len(toks) THEN a
    ELSE LET tok == toks[a.k]
             e   == IF tok[1] \in {"+", "-"} THEN EmitTerm(a) ELSE a
             b   == [e EXCEPT !.k = @ + 1]
         IN  CASE tok[1] = "(" ->
                    LET sub == compute_poly(st, toks, b.k, tempNum + 2)
                    IN  PolyTokens(st, toks, tempNum, MulFactor([b EXCEPT !.k = sub.k], sub.poly))
               [] tok[1] \in {")", "E"} -> b
               [] tok[1] \in {"+", "*"} -> PolyTokens(st, toks, tempNum, b)
               [] tok[1] = "-" -> PolyTokens(st, toks, tempNum, [b EXCEPT !.negate = ~@])
               [] OTHER -> PolyTokens(st, toks, tempNum, MulFactor(b, voc(st, tok)))

-----------------------------------------------------------------------------

\* Consecutive auxiliary variables from index first get the values of f, a
\* function on 0..n-1.
AssignAll(st, first, n, f) ==
    [st EXCEPT !.F1 = [v \in DOMAIN @ |-> IF v \in first .. first + n - 1 THEN QInt(f[v - first]) ELSE @[v]]]

\* Which of <, =, > holds.
AssignOrder(st, s, cmp) ==
    Assign(Assign(Assign(st, s.lt, QInt(IF cmp < 0 THEN 1 ELSE 0)),
                             s.eq, QInt(IF cmp = 0 THEN 1 ELSE 0)),
                             s.gt, QInt(IF cmp > 0 THEN 1 ELSE 0))

\* Mutant: the bits are those of the difference itself.
Mutcompute_less_than_int(st, s) ==
    LET x1 == FirstOperand(st, s.x1, s.x2)
        x2 == voc(st, s.x2)
        st1 == AssignOrder(st, s, QCmp(x1, x2))
        t  == Num(IF QCmp(x1, x2) > 0 THEN QSub(x1, x2) ELSE QSub(x2, x1))
    IN  AssignAll(Assign(st1, s.y, voc(st1, s.lt)), s.n0, s.N - 1,
                  [i \in 0 .. s.N - 2 |-> TruncBit(t, i) * 2^i])

\* <I: the order, Y, and 2^(N-1) - |X1 - X2| split into weighted bits.
compute_less_than_int(st, s) ==
    LET x1 == FirstOperand(st, s.x1, s.x2)
        x2 == voc(st, s.x2)
        st1 == AssignOrder(st, s, QCmp(x1, x2))
        t  == 2^(s.N - 1) + Num(IF QCmp(x1, x2) > 0 THEN QSub(x2, x1) ELSE QSub(x1, x2))
    IN  AssignAll(Assign(st1, s.y, voc(st1, s.lt)), s.n0, s.N - 1,
                  [i \in 0 .. s.N - 2 |-> TruncBit(t, i) * 2^i])

\* <F: the same for rationals; the difference is N/D, -1/1 when they are equal.
\* D's bits say which power of two the denominator is.
compute_less_than_float(st, s) ==
    LET x1 == FirstOperand(st, s.x1, s.x2)
        x2 == voc(st, s.x2)
        cmp == QCmp(x1, x2)
        d  == IF cmp = 0 THEN QInt(-1) ELSE IF cmp < 0 THEN QSub(x1, x2) ELSE QSub(x2, x1)
        st1 == AssignOrder(st, s, cmp)
        st2 == Assign(Assign(st1, s.n, QInt(Num(d))), s.y, voc(st1, s.lt))
        st3 == AssignAll(st2, s.n0, s.Na, [i \in 0 .. s.Na - 1 |-> TruncBit(2^s.Na + Num(d), i) * 2^i])
        st4 == AssignAll(st3, s.d0, s.Nb + 1, [i \in 0 .. s.Nb |-> Bit(Den(d), i)])
    IN  Assign(Assign(st4, s.d, Q(1, Den(d))), s.nd, Q(Num(d), Den(d)))

\* !=: M is the inverse of the difference modulo the prime, times its denominator.
compute_not_equal(st, s) ==
    LET d == QSub(voc(st, s.x1), voc(st, s.x2))
    IN  IF Num(d) = 0
        THEN Assign(Assign(st, s.m, QInt(0)), s.y, QInt(0))
        ELSE Assign(Assign(st, s.m, QInt(Invert(Num(d)) * Den(d))), s.y, QInt(1))

\* SI: big endian bits of a nonnegative integer.
compute_split_unsignedint(st, s) ==
    AssignAll(st, s.y0, s.N, [i \in 0 .. s.N - 1 |-> Bit(Num(voc(st, s.x)), s.N - i - 1)])

\* Mutant: the sign bit is taken from the shifted number.
Mutcompute_split_int_le(st, s) ==
    LET n == Num(voc(st, s.x))
        t == IF n < 0 THEN n + 2^(s.N - 1) ELSE n
    IN  AssignAll(st, s.y0, s.N, [i \in 0 .. s.N - 1 |-> TruncBit(t, i)])

\* SIL: little endian bits, two's complement when signed.
compute_split_int_le(st, s) ==
    LET n == Num(voc(st, s.x))
        t == IF n < 0 THEN n + 2^s.N ELSE n
    IN  AssignAll(st, s.y0, s.N,
            [i \in 0 .. s.N - 1 |-> IF i = s.N - 1 /\ s.signed THEN (IF n < 0 THEN 1 ELSE 0)
                                    ELSE TruncBit(t, i)])

\* One statement of compute_from_pws; an unknown statement is skipped.
compute_statement(st, s) ==
    CASE s.op = "P"   -> Assign(st, s.y, compute_poly(st, s.toks, 1, 0).poly)
      [] s.op = "<I"  -> compute_less_than_int(st, s)
      [] s.op = "<F"  -> compute_less_than_float(st, s)
      [] s.op = "!="  -> compute_not_equal(st, s)
      [] s.op = "/"   -> Assign(st, s.y, QDiv(voc(st, s.x1), voc(st, s.x2)))
      [] s.op = "SI"  -> compute_split_unsignedint(st, s)
      [] s.op = "SIL" -> compute_split_int_le(st, s)

=============================================================================
