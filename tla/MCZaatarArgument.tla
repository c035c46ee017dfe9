--------------------------- MODULE MCZaatarArgument ---------------------------
(* y = x^3 + 5 modulo 17: variables 1, w1 = x*x, w2 = w1*x, x, y. *)
EXTENDS ZaatarArgument

Entry(i, j, c) == [i |-> i, j |-> j, c |-> c]

\* Three lines of A, four of B, three of C.
MCQapFile == <<Entry(3, 1, 1), Entry(1, 2, 1), Entry(0, 3, 1),
               Entry(3, 1, 1), Entry(3, 2, 1), Entry(2, 3, 1), Entry(0, 3, 5),
               Entry(1, 1, -1), Entry(2, 2, -1), Entry(4, 3, -1)>>

MCBuilds == {"fft", "recursive_fft", "tree"}

Assignment(w1, w2, x, y) == [w |-> [i \in 0 .. 1 |-> <<w1, w2>>[i + 1]],
                             io |-> [i \in 0 .. 1 |-> <<x, y>>[i + 1]]]

\* Two solutions, a wrong output, a wrong intermediate value.
MCAssignments == {Assignment(4, 8, 2, 13), Assignment(15, 16, 7, 4),
                  Assignment(4, 8, 2, 12), Assignment(5, 10, 2, 15)}

\* 74: the second tau, 13, is a root of unity; 65: the first, 3, is a root of the tree build.
MCPubSeeds == {65, 74}
MCPrivSeeds == {5}
=============================================================================
