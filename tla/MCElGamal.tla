------------------------------ MODULE MCElGamal ------------------------------
EXTENDS ElGamal

Vec(a, b, c) == [i \in Idx |-> <<a, b, c>>[i + 1]]
MCPlains == {Vec(1, 4, 0), Vec(3, 2, 4)}
\* 0 as a coefficient, and inner products below and above the order.
MCVectors == {Vec(0, 1, 3), Vec(4, 3, 2)}
=============================================================================
