---------------------------- MODULE TrustedState ----------------------------
(***************************************************************************)
(* What the root checkpoint promises, without files, chains or processes:  *)
(* the accepted root and the accepted release only advance.  One version   *)
(* never stands for two roots, and nothing is accepted anew without a      *)
(* release of a higher sequence, not even a rotated root.                  *)
(***************************************************************************)
EXTENDS Naturals

VARIABLES
    root,       \* the accepted root metadata
    version,    \* its version, 0 before the first acceptance
    sequence    \* the sequence of the accepted release

Init == version = 0 /\ sequence = 0

Accept ==
    /\ version' \in Nat
    /\ sequence' \in Nat
    /\ sequence < sequence'
    /\ version <= version'
    /\ version = version' => root' = root

Spec == Init /\ [][Accept]_<<root, version, sequence>>
=============================================================================
