-------------------------------- MODULE MCRIV --------------------------------
(***************************************************************************)
(* The reachable-integer-values analysis on every control-flow graph of    *)
(* the entry and three more blocks.  Each block defines an integer (its    *)
(* first value) and a float (its second), except B, which defines nothing. *)
(***************************************************************************)
EXTENDS RIV, MCIR

MCIntegerValues == {"x", "E1", "A1", "B1", "C1"}
MCInputs == {"x", "y"}

MCBodies == {[b \in Targets |-> IF b = "B" THEN <<>> ELSE <<Add(b, "1", "x"), Add(b, "2", "y")>>]}

Cfgs == CfgFunctions({ <<<<Add("E", "1", "x"), CondBr("x")>>, <<"A", "C">>>>,
                       <<<<Add("E", "1", "x"), Br>>, <<"A">>>> }, MCBodies)
=============================================================================
