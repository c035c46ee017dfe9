----------------------------- MODULE MCCmtSumcheck -----------------------------
(***************************************************************************)
(* CmtSumcheck for TLC: three gates over two, so that the label space of   *)
(* the layer is not full and a layer has two coordinates over one.         *)
(***************************************************************************)
EXTENDS CmtSumcheck

Gate(type, in1, in2) == [type |-> type, in1 |-> in1, in2 |-> in2]

MCWirings ==
    { [g \in 0 .. 2 |-> CASE g = 0 -> Gate("ADD", 0, 1)
                          [] g = 1 -> Gate("MUL", 0, 1)
                          [] g = 2 -> Gate("MUL", 1, 1)],
      [g \in 0 .. 2 |-> CASE g = 0 -> Gate("MUL", 0, 0)
                          [] g = 1 -> Gate("ADD", 1, 0)
                          [] g = 2 -> Gate("ADD", 0, 0)] }

MCInputs == { [g \in 0 .. 1 |-> IF g = 0 THEN 2 ELSE 3],
              [g \in 0 .. 1 |-> IF g = 0 THEN 0 ELSE 4] }
=============================================================================
