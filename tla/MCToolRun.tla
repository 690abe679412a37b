----------------------------- MODULE MCToolRun -----------------------------
(***************************************************************************)
(* ToolRun for TLC: four calls, the second of a tool nobody registered.    *)
(***************************************************************************)
EXTENDS ToolRun

Registered == {1, 3, 4}
=============================================================================
