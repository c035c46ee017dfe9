--------------------------- MODULE MCCachedCircuit ----------------------------
(* Instances of CachedCircuit: small circuits evaluated, the two    *)
(* smallest of each application checked.                                   *)
EXTENDS CachedCircuit

MCTasks  == {<<"hamdist", 1>>, <<"hamdist", 2>>, <<"matmul++", 1>>, <<"matmul", 1>>}
MCChecks == {<<app, d>> : app \in {"hamdist", "matmul++", "matmul"}, d \in 1 .. 2}

=============================================================================
