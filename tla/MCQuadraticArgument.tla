------------------------- MODULE MCQuadraticArgument -------------------------
(* The five computations for m = 2.  Ginger's constraints: w0 = x * x with the
   input copied into w1, and y = w0 + 3 as output; modulo 13. *)
EXTENDS QuadraticArgument

Vec(s) == [i \in 0 .. Len(s) - 1 |-> s[i + 1]]

MCF1_index == Vec(<<1, 0>>)
Line(g, c, con, x, y) == [g |-> g, c |-> c, con |-> con, x |-> x, y |-> y]
Line0(g, c, con, v_) == [g |-> g, c |-> c, con |-> con, v |-> v_]

\* 0: w1 - x = 0;  1: w0 - w1 * w1 = 0;  2: y - w0 - 3 = 0.
MCGamma12 == <<Line(1, 1, 0, 1, 0), Line(1, 1, 1, 0, 0), Line(2, -1, 1, 1, 1), Line(1, -1, 2, 0, 0)>>
MCGamma0 == <<Line0("G", -1, 0, 0), Line0("G", 1, 2, 1), Line0("C", -3, 2, 0)>>

Asg(w0, w1, x, y) == [w |-> Vec(<<w1, w0>>), io |-> Vec(<<x, y>>)]
Rat(a, b) == [num |-> a, den |-> b]

MCSharedInput == [a \in {"hdist", "polyeval"} |->
    IF a = "hdist" THEN Vec(<<3, 5, 4, 5>>) ELSE Vec(<<2, 0, 3, 1, 5, 4, 1, 2, 7, 6>>)]

MCInputs == [a \in Apps |->
    CASE a = "ginger"   -> {Asg(9, 3, 3, 12), Asg(8, 3, 3, 11)}
      [] a = "hdist"    -> {Vec(<<3, 5>>), Vec(<<4, 9>>)}
      [] a = "polyeval" -> {Vec(<<2, -3>>), Vec(<<5, 1>>)}
      [] a = "matrix"   -> {Vec(<<1, -2, 3, 4, 2, 5, -1, 3>>), Vec(<<7, 1, 0, 2, 9, 4, 6, 1>>)}
      [] a = "matrix_q" -> {Vec(<<Rat(1, 2), Rat(-2, 1), Rat(3, 1), Rat(1, 3),
                                  Rat(2, 1), Rat(5, 2), Rat(-1, 1), Rat(0, 1)>>),
                            [i \in 0 .. 2 * m * m - 1 |-> Rat(0, 1)]}]
\* 99: the weight of the last output is 0 in the last repetition only.
MCPubSeeds == {39, 99}
=============================================================================
