----------------------------- MODULE MCPublish ------------------------------
(***************************************************************************)
(* One skill of one file and one control file.  The second content of the  *)
(* registry names the next release; the second of the skill no longer      *)
(* shows the pattern the policy permits.                                   *)
(***************************************************************************)
EXTENDS Publish, TLC
MCSkillFiles == <<"s">>
MCOtherFiles == <<"launcher">>
MCProfile == <<"release", "release">>
MCPermits == <<{"curl"}, {"curl"}>>
MCIdentity == [c \in 1..2 |-> [release |-> <<"v1", "v2">>[c], manifestSequence |-> c]]
MCShows == [s |-> <<{"curl"}, {}>>]
Tools == Permutations(Tool)
=============================================================================
