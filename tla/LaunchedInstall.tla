-------------------------- MODULE LaunchedInstall ---------------------------
(***************************************************************************)
(* The consumers of InstallTxn as the launchers of                         *)
(* bootstrap/idc_verify_fresh.py run them: each consumer has a launcher,   *)
(* which takes the checkpoint lock, runs the consumer, waits for it and    *)
(* gives the lock back, and which may be killed at any moment.  A launcher *)
(* has its consumer's name.  What comes before the lock is Freshness, and  *)
(* changes nothing here.                                                   *)
(***************************************************************************)
EXTENDS InstallTxn

VARIABLES
    holder,     \* the launcher that holds the flock, or None
    gone,       \* the launchers that were killed
    orphaned    \* history: a launcher was killed while its consumer ran

ASSUME NobodyAssumption == None \notin Installer

launchers == <<holder, gone, orphaned>>

LInit == Init /\ holder = None /\ gone = {} /\ orphaned = FALSE

-----------------------------------------------------------------------------
(* verify_release around its consumer *)

\* Fault for mutation runs: the lock is not waited for.
TakeLockAnyway(p) ==
    /\ pc[p] = "idle" /\ p \notin gone
    /\ holder' = p
    /\ UNCHANGED <<vars, gone, orphaned>>

\* flock(LOCK_EX) of a launcher that has still to run its consumer.
TakeLock(p) ==
    /\ holder = None
    /\ pc[p] = "idle" /\ p \notin gone
    /\ holder' = p
    /\ UNCHANGED <<vars, gone, orphaned>>

\* subprocess.run starts the consumer.
RunConsumer(p) ==
    /\ holder = p
    /\ Start(p)
    /\ UNCHANGED launchers

\* Fault for mutation runs: the child is started and not waited for.
GiveLockEarly(p) ==
    /\ holder = p
    /\ holder' = None
    /\ UNCHANGED <<vars, gone, orphaned>>

\* The finally clause of the lock: the consumer has ended, or the run was
\* refused before there was one.
GiveLock(p) ==
    /\ holder = p /\ ~Active(p)
    /\ holder' = None
    /\ UNCHANGED <<vars, gone, orphaned>>

\* SIGKILL: the kernel drops the flock, the consumer lives on.  A launcher
\* killed before it has the lock is one that never runs; one killed when its
\* consumer has ended does what GiveLock does.
LauncherDies(p) ==
    /\ holder = p /\ pc[p] \notin Ended
    /\ gone' = gone \cup {p}
    /\ holder' = None
    /\ orphaned' = (orphaned \/ Active(p))
    /\ UNCHANGED vars

-----------------------------------------------------------------------------
(* The consumers, and what happens around them *)

Work(p) ==
    /\ Active(p)
    /\ Step(p)
    /\ UNCHANGED launchers

Disturb ==
    /\ \/ \E p \in Installer, k \in Number : Edit(p, k)
       \/ \E s \in Slots : Obstruct(s)
    /\ UNCHANGED launchers

LNext ==
    \/ \E p \in Installer :
          TakeLock(p) \/ RunConsumer(p) \/ Work(p) \/ GiveLock(p) \/ LauncherDies(p)
    \/ Disturb

lvars == <<vars, launchers>>

LSpec == LInit /\ [][LNext]_lvars

-----------------------------------------------------------------------------
(* Correctness *)

\* The life of a consumer as its launcher sees it.
Child ==
    [p \in Installer |->
        CASE pc[p] = "idle" -> "none"
          [] pc[p] \in Ended -> "exited"
          [] OTHER -> "running"]

Fence ==
    INSTANCE LaunchFence WITH
        Launchers <- Installer,
        Nobody <- None,
        child <- Child

\* Installer and launcher together are the fence that Freshness implements.
LaunchedUnderFence == Fence!Spec

\* Until a launcher is killed under its consumer, the lock keeps the copies
\* safe: no failing call and no killed consumer loses both the old and the new.
LaunchedLosesNothing == ~orphaned => OldOrNewUnlessBlocked

\* Nor does a rollback touch what another consumer installed, or end without
\* having put back what it found.
LaunchedRollsBack == ~orphaned => RollbackRemovesOwnCopy /\ FailureRestores

\* Nor does a consumer report a success, or parity a pass, that the file
\* systems do not bear out.
LaunchedReportsTruly == [][~orphaned => SuccessIsEarned /\ PassIsEarned]_lvars

\* "Each skill-directory replacement is atomic": until then, the staging,
\* backups and rollbacks of all consumers implement the abstract fleet, and no
\* loss is silent.
LaunchedReplacesAtomically ==
    AtomicFleet!Init /\ [][~orphaned => ReplacesAtomically]_lvars
=============================================================================
