----------------------------- MODULE MCGateExec -----------------------------
(* A chunk of two units in a frame of one, and a limit the second chunk meets. *)
EXTENDS GateExec
=============================================================================
