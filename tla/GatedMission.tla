---------------------------- MODULE GatedMission ----------------------------
(***************************************************************************)
(* What the archipelago protocol promises about a mission, as if every     *)
(* command took effect at one instant: a failed gate is on record until a  *)
(* run passes it, a phase closes only over passed gates, and the stage     *)
(* moves back only together with a failure.                                *)
(***************************************************************************)
EXTENDS Naturals

CONSTANTS Phase, Gate, GatesIn, Missing

VARIABLES
    verdict,    \* the last word on each gate, or Missing before kickoff
    failures,   \* gates with a loopback that no run has resolved
    closed,     \* phases that are done
    stage       \* the stage of the mission, 0 to 7

Init == verdict = Missing /\ failures = {} /\ closed = {} /\ stage = 2

Kickoff ==
    /\ verdict = Missing
    /\ verdict' = [g \in Gate |-> "pending"]
    /\ UNCHANGED <<failures, closed, stage>>

Run(phase) ==
    /\ verdict # Missing
    /\ \E result \in [GatesIn[phase] -> {"passed", "failed"}] :
          /\ \A g \in GatesIn[phase] : verdict[g] = "passed" => result[g] = "passed"
          /\ verdict' = [g \in Gate |-> IF g \in GatesIn[phase] THEN result[g] ELSE verdict[g]]
          /\ failures' = {g \in failures : verdict'[g] # "passed"}
    /\ UNCHANGED <<closed, stage>>

Fail(gate) ==
    /\ verdict # Missing
    /\ verdict' = [verdict EXCEPT ![gate] = "failed"]
    /\ failures' = failures \cup {gate}
    /\ stage' \in 0..stage
    /\ UNCHANGED closed

Advance ==
    /\ verdict # Missing
    /\ stage' \in stage..7
    /\ UNCHANGED <<verdict, failures, closed>>

Close(phase) ==
    /\ verdict # Missing
    /\ \A g \in GatesIn[phase] : verdict[g] = "passed" /\ g \notin failures
    /\ closed' = closed \cup {phase}
    /\ UNCHANGED <<verdict, failures, stage>>

Next ==
    \/ Kickoff
    \/ Advance
    \/ \E phase \in Phase : Run(phase) \/ Close(phase)
    \/ \E gate \in Gate : Fail(gate)

Spec == Init /\ [][Next]_<<verdict, failures, closed, stage>>
=============================================================================
