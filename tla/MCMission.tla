----------------------------- MODULE MCMission ------------------------------
(***************************************************************************)
(* Two phases with one gate each, a G0 and a G4, where commands overlap;   *)
(* one phase with a G0 and a G5 gate, where they run one after the other   *)
(* and may end between two gates.                                          *)
(***************************************************************************)
EXTENDS Mission, TLC

TwoPhases == <<"P0", "P1">>
OneGateEach == [ph \in {"P0", "P1"} |-> IF ph = "P0" THEN <<"P0-G0">> ELSE <<"P1-G4">>]
TwoFamilies == [g \in {"P0-G0", "P1-G4"} |-> IF g = "P0-G0" THEN 0 ELSE 4]

OnePhase == <<"P0">>
TwoGates == [ph \in {"P0"} |-> <<"P0-G0", "P0-G5">>]
TwoInOne == [g \in {"P0-G0", "P0-G5"} |-> IF g = "P0-G0" THEN 0 ELSE 5]

Processes == Permutations(Process)
=============================================================================
