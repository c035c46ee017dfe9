----------------------------- MODULE MCCmtProtocol -----------------------------
(***************************************************************************)
(* CmtProtocol for TLC: one input, three or four gates above it and one    *)
(* output; log2i(1) is 1, so the sumchecks have five and four rounds.      *)
(***************************************************************************)
EXTENDS CmtProtocol

MCLogSize == [l \in 0 .. 2 |-> IF l = 1 THEN 2 ELSE 1]
=============================================================================
