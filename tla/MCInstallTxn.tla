---------------------------- MODULE MCInstallTxn ----------------------------
(***************************************************************************)
(* A default fleet whose second target is optional and whose third is      *)
(* another name of the first, and an invocation of each kind, but for dry  *)
(* runs: they write nothing, and their report promises nothing.            *)
(***************************************************************************)
EXTENDS InstallTxn, TLC

T(path, optional) == [path |-> path, optional |-> optional]
J(command, flag, named) == [command |-> command, flag |-> flag, named |-> named]

MCHome == <<T("agents", FALSE), T("claude", TRUE), T("agents", FALSE)>>
MCFleet == <<"agents", "claude">>
OneTarget == <<T("agents", FALSE)>>
OneRoot == <<"agents">>
OneSkill == <<"tdd">>
TwoSkills == <<"tdd", "wizard">>
Native == {J("install", "write", FALSE)}
EffectiveKinds ==
    {J("install", "write", FALSE), J("install", "verify", TRUE),
     J("export", "write", FALSE), J("parity", "verify", FALSE)}
Interchangeable ==
    {f @@ g : f \in Permutations(Installer), g \in Permutations(Version)}
=============================================================================
