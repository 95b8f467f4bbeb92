-------------------------- MODULE AcceptedHistory ---------------------------
(***************************************************************************)
(* What the freshness checkpoint promises, without files, locks or runs:   *)
(* the set of accepted release entries only grows, and it changes only     *)
(* together with a strictly higher index sequence, so that one sequence    *)
(* never stands for two histories.                                         *)
(***************************************************************************)
EXTENDS Naturals

VARIABLES
    history,    \* the accepted release entries
    level       \* the index sequence they were accepted under

Init == history = {} /\ level = 0

Accept ==
    /\ level' \in Nat
    /\ level < level'
    /\ history \subseteq history'
    /\ history' # {}

Spec == Init /\ [][Accept]_<<history, level>>
=============================================================================
