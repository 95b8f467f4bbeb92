---------------------------- MODULE LaunchFence -----------------------------
(***************************************************************************)
(* What the checkpoint lock of the launcher promises the consumers it      *)
(* runs, without indexes, checkpoints or modes: a launcher runs at most    *)
(* one consumer, only while it holds the lock, and gives the lock back     *)
(* only when that consumer has ended.  A launcher that is killed loses the *)
(* lock at once; its consumer lives on.                                    *)
(***************************************************************************)
EXTENDS Naturals

CONSTANTS Launchers, Nobody

VARIABLES
    holder,     \* the launcher that holds the lock, or Nobody
    gone,       \* the launchers that were killed
    child       \* each launcher's consumer: "none", "running" or "exited"

Init == holder = Nobody /\ gone = {} /\ child = [l \in Launchers |-> "none"]

Take(l) ==
    /\ holder = Nobody
    /\ l \notin gone /\ child[l] = "none"
    /\ holder' = l
    /\ UNCHANGED <<gone, child>>

Launch(l) ==
    /\ holder = l
    /\ child[l] = "none"
    /\ child' = [child EXCEPT ![l] = "running"]
    /\ UNCHANGED <<holder, gone>>

Release(l) ==
    /\ holder = l
    /\ child[l] # "running"
    /\ holder' = Nobody
    /\ UNCHANGED <<gone, child>>

Exit(l) ==
    /\ child[l] = "running"
    /\ child' = [child EXCEPT ![l] = "exited"]
    /\ UNCHANGED <<holder, gone>>

Die(l) ==
    /\ l \notin gone
    /\ gone' = gone \cup {l}
    /\ holder' = IF holder = l THEN Nobody ELSE holder
    /\ UNCHANGED child

Next == \E l \in Launchers : Take(l) \/ Launch(l) \/ Release(l) \/ Exit(l) \/ Die(l)

Spec == Init /\ [][Next]_<<holder, gone, child>>
=============================================================================
