----------------------------- MODULE MCLaunched -----------------------------
(***************************************************************************)
(* Two launchers, each with a consumer of any kind, over the fleet of      *)
(* MCInstallTxn.                                                           *)
(***************************************************************************)
EXTENDS LaunchedInstall, MCInstallTxn

\* Bound: every property is about the time until a launcher is killed under its
\* consumer, and a launcher killed before it has one is one that never runs.
Together == gone = {}

\* Bound: where a consumer was killed, no checkout is edited and no file is put
\* in the way of another as well.
OneTrouble == (\E p \in Installer : pc[p] = "dead") => Undisturbed
=============================================================================
