----------------------------- MODULE MCNetClient -----------------------------
EXTENDS NetClient

MCElems == {"a", "b"}
MCRawSize == [x \in MCElems |-> IF x = "a" THEN 4 ELSE 6]
\* A body that fits, an empty one, one that makes the buffer of 8 bytes grow.
MCMessages == {[header |-> "m1", hsize |-> 2, body |-> <<"b">>],
               [header |-> "m2", hsize |-> 3, body |-> <<>>],
               [header |-> "m3", hsize |-> 2, body |-> <<"a", "b">>]}
=============================================================================
