----------------------------- MODULE Freshness ------------------------------
(***************************************************************************)
(* The freshness launcher, bootstrap/idc_verify_fresh.py.                  *)
(*                                                                         *)
(* A run is one launcher process.  It captures its configuration and the   *)
(* candidate checkout, lets the threshold verifier check (and advance) the *)
(* root checkpoint, reads the signed index, checks it against the          *)
(* freshness checkpoint, stages the release, and then, under the           *)
(* checkpoint lock, checks again, writes the checkpoint and either reports *)
(* READY or runs a consumer child that installs the release.  Runs share   *)
(* the two checkpoints, the lock and the installed targets, and the        *)
(* operator may replace the configuration and the checkout at any moment.  *)
(***************************************************************************)
EXTENDS ReleaseIndex

CONSTANTS
    Run,            \* launcher processes, each a single invocation
    Config,         \* configurations the operator may put in place
    Checkout,       \* releases the candidate repository may hold
    Target,         \* directories the install consumer writes
    MaxClock        \* bound of the model: the last instant of the clock

Statements ==
    [releaseSequence : Nat \ {0}, expires : Nat,
     freshnessIndex : Indexes, manifest : Entries]

Configs ==
    [statement : Statements,            \* what the threshold verifier reads
     receipt : Statements,              \* the pinned threshold receipt
     bootstrapIndex : Indexes,
     minimumIndexSequence : Nat \ {0},
     minimumManifestSequence : Nat \ {0}]

Modes == {"verify", "consume", "offline"}

ASSUME FreshnessAssumption ==
    /\ Config \subseteq Configs
    /\ Checkout \subseteq Entries
    /\ MaxClock \in Nat
    /\ None \notin Run \cup Statements

VARIABLES
    clock,          \* the host's UTC clock
    config,         \* the configuration file on disk
    repo,           \* the release the candidate checkout holds
    rootCheckpoint, \* the release part of the root checkpoint file
    checkpoint,     \* the freshness checkpoint file
    lock,           \* holder of the flock on checkpoint.lock
    pc,             \* how far each run is
    run,            \* what each run has captured
    child,          \* each run's consumer process
    todo,           \* targets that consumer has still to write
    installed       \* manifest sequence installed in each target, 0 for none

deployment == <<config, repo>>
processes == <<child, todo, installed>>
vars == <<clock, config, repo, rootCheckpoint, checkpoint, lock, pc, run,
          child, todo, installed>>

IndexOf(r) == run[r].config.receipt.freshnessIndex

Finished == {"ready", "unverified", "consumed", "refused", "dead"}

Critical == {"locked", "validated", "written", "consuming"}

Init ==
    /\ clock = 0
    /\ config \in Config
    /\ repo \in Checkout
    /\ rootCheckpoint = None
    /\ checkpoint = None
    /\ lock = None
    /\ pc = [r \in Run |-> "idle"]
    /\ run = [r \in Run |-> None]
    /\ child = [r \in Run |-> "none"]
    /\ todo = [r \in Run |-> {}]
    /\ installed = [t \in Target |-> 0]

-----------------------------------------------------------------------------
(* The world around the launcher *)

Tick ==
    /\ clock < MaxClock
    /\ clock' = clock + 1
    /\ UNCHANGED <<deployment, rootCheckpoint, checkpoint, lock, pc, run, processes>>

Configure ==
    /\ config' \in Config \ {config}
    /\ UNCHANGED <<clock, repo, rootCheckpoint, checkpoint, lock, pc, run, processes>>

CheckOut ==
    /\ repo' \in Checkout \ {repo}
    /\ UNCHANGED <<clock, config, rootCheckpoint, checkpoint, lock, pc, run, processes>>

-----------------------------------------------------------------------------
(* The launcher *)

\* A step whose checks either let the run go on or end it with exit code 2.
Advance(r, from, ok, to) ==
    /\ pc[r] = from
    /\ pc' = [pc EXCEPT ![r] = IF ok THEN to ELSE "refused"]

\* Fault for mutation runs: a refusal that skips the finally clause.
AdvanceHeld(r, from, ok, to) ==
    /\ Advance(r, from, ok, to)
    /\ lock' = lock

\* The same step under the lock, which the finally clause releases on refusal.
AdvanceLocked(r, from, ok, to) ==
    /\ Advance(r, from, ok, to)
    /\ lock' = IF ok THEN lock ELSE None

Start(r, mode) ==
    /\ Advance(r, "idle", TRUE, "captured")
    /\ run' = [run EXCEPT ![r] = [mode |-> mode, config |-> config, manifest |-> None]]
    /\ UNCHANGED <<clock, deployment, rootCheckpoint, checkpoint, lock, processes>>

\* Fault for mutation runs: no rollback check against the root checkpoint.
ThresholdAcceptsAny(statement) ==
    /\ clock < statement.expires
    /\ ParseIndex(statement.freshnessIndex, clock)
    /\ Newest(statement.freshnessIndex) = statement.manifest
    /\ repo = statement.manifest

\* The external root verifier: rollback and equivocation against its own
\* checkpoint, then the statement against the index, the manifest and HEAD.
ThresholdAccepts(statement) ==
    /\ \/ rootCheckpoint = None
       \/ rootCheckpoint.releaseSequence < statement.releaseSequence
       \/ rootCheckpoint = statement
    /\ clock < statement.expires
    /\ ParseIndex(statement.freshnessIndex, clock)
    /\ Newest(statement.freshnessIndex) = statement.manifest
    /\ repo = statement.manifest

\* It writes the root checkpoint before the launcher compares its output with
\* the pinned receipt, so a run that is then refused has already advanced it.
ThresholdRun(r, from, to) ==
    LET statement == run[r].config.statement
        accepted  == ThresholdAccepts(statement)
    IN  /\ Advance(r, from, accepted /\ statement = run[r].config.receipt, to)
        /\ rootCheckpoint' = IF accepted THEN statement ELSE rootCheckpoint
        /\ UNCHANGED <<clock, deployment, checkpoint, lock, run, processes>>

Reproduce(r) == ThresholdRun(r, "captured", "trusted")

\* The manifest of the checkout, against the receipt and the manifest floor.
ManifestAccepted(c, manifest) ==
    /\ manifest = c.receipt.manifest
    /\ manifest.manifestSequence >= c.minimumManifestSequence

\* The captured index, against the receipt, the clock, the floor and the
\* release tuple of the checkout.
IndexAccepted(c, index, manifest) ==
    /\ index = c.receipt.freshnessIndex
    /\ ParseIndex(index, clock)
    /\ index.indexSequence >= c.minimumIndexSequence
    /\ Newest(index) = manifest

WithManifest(capture, manifest) ==
    [mode |-> capture.mode, config |-> capture.config, manifest |-> manifest]

\* The source may serve any published index.
ReadRelease(r, served) ==
    LET c == run[r].config IN
    /\ Advance(r, "trusted",
               ManifestAccepted(c, repo) /\ IndexAccepted(c, served, repo), "indexed")
    /\ run[r].mode # "offline"
    /\ run' = [run EXCEPT ![r] = WithManifest(@, repo)]
    /\ UNCHANGED <<clock, deployment, rootCheckpoint, checkpoint, lock, processes>>

\* Offline mode stops before any index is read and never reports readiness.
ReadOffline(r) ==
    /\ Advance(r, "trusted", ManifestAccepted(run[r].config, repo), "offline")
    /\ run[r].mode = "offline"
    /\ run' = [run EXCEPT ![r] = WithManifest(@, repo)]
    /\ UNCHANGED <<clock, deployment, rootCheckpoint, checkpoint, lock, processes>>

ReportOffline(r, contentReady) ==
    /\ Advance(r, "offline", contentReady /\ repo = run[r].manifest, "unverified")
    /\ UNCHANGED <<clock, deployment, rootCheckpoint, checkpoint, lock, run, processes>>

CheckpointAccepts(r) ==
    ValidateCheckpoint(checkpoint, IndexOf(r), run[r].config.bootstrapIndex)

\* Preflight takes and releases the lock around a read: one step when it is free.
Preflight(r) ==
    /\ lock = None
    /\ Advance(r, "indexed", CheckpointAccepts(r), "preflighted")
    /\ UNCHANGED <<clock, deployment, rootCheckpoint, checkpoint, lock, run, processes>>

\* The content verifier on the staged copy, then the re-reads of the manifest
\* and the configuration.
Stage(r, contentReady) ==
    /\ Advance(r, "preflighted",
               contentReady /\ repo = run[r].manifest /\ config = run[r].config, "staged")
    /\ UNCHANGED <<clock, deployment, rootCheckpoint, checkpoint, lock, run, processes>>

RecheckExpiry(r) ==
    /\ Advance(r, "staged", ParseIndex(IndexOf(r), clock), "rechecked")
    /\ UNCHANGED <<clock, deployment, rootCheckpoint, checkpoint, lock, run, processes>>

ReproduceAgain(r) == ThresholdRun(r, "rechecked", "cleared")

\* Fault for mutation runs: the second critical section without its lock.
AcquireUnlocked(r) ==
    /\ Advance(r, "cleared", TRUE, "locked")
    /\ lock' = r
    /\ UNCHANGED <<clock, deployment, rootCheckpoint, checkpoint, run, processes>>

Acquire(r) ==
    /\ lock = None
    /\ Advance(r, "cleared", TRUE, "locked")
    /\ lock' = r
    /\ UNCHANGED <<clock, deployment, rootCheckpoint, checkpoint, run, processes>>

\* Fault for mutation runs: the preflight verdict is trusted under the lock.
RevalidateNot(r) ==
    /\ AdvanceLocked(r, "locked", TRUE, "validated")
    /\ UNCHANGED <<clock, deployment, rootCheckpoint, checkpoint, run, processes>>

Revalidate(r) ==
    /\ AdvanceLocked(r, "locked", CheckpointAccepts(r), "validated")
    /\ UNCHANGED <<clock, deployment, rootCheckpoint, checkpoint, run, processes>>

\* Fault for mutation runs: the release tuple is stored, not the index.
WriteEntry(r, written) ==
    /\ AdvanceLocked(r, "validated", written, "written")
    /\ checkpoint' = run[r].manifest
    /\ UNCHANGED <<clock, deployment, rootCheckpoint, run, processes>>

\* A new file takes the checkpoint's place.  Any step of it may fail: a run
\* refused before the rename has left the checkpoint, one refused after it,
\* when the directory is flushed, has moved it.
WriteCheckpoint(r, written) ==
    /\ AdvanceLocked(r, "validated", written, "written")
    /\ checkpoint' \in {IndexOf(r)} \cup (IF written THEN {} ELSE {checkpoint})
    /\ UNCHANGED <<clock, deployment, rootCheckpoint, run, processes>>

\* Without a consumer: the staged copy is checked once more and the lock goes.
Report(r, intact) ==
    /\ Advance(r, "written", intact, "ready")
    /\ run[r].mode = "verify"
    /\ lock' = None
    /\ UNCHANGED <<clock, deployment, rootCheckpoint, checkpoint, run, processes>>

\* With a consumer: expiry and the staged copy, then the child, lock held.
Launch(r, intact) ==
    LET ok == intact /\ ParseIndex(IndexOf(r), clock) IN
    /\ AdvanceLocked(r, "written", ok, "consuming")
    /\ run[r].mode = "consume"
    /\ child' = [child EXCEPT ![r] = IF ok THEN "running" ELSE "none"]
    /\ todo' = [todo EXCEPT ![r] = IF ok THEN Target ELSE {}]
    /\ UNCHANGED <<clock, deployment, rootCheckpoint, checkpoint, run, installed>>

\* subprocess.run returns: the lock is released and the exit code passed on.
Reap(r) ==
    /\ child[r] = "exited"
    /\ Advance(r, "consuming", TRUE, "consumed")
    /\ lock' = None
    /\ UNCHANGED <<clock, deployment, rootCheckpoint, checkpoint, run, processes>>

\* The launcher is killed.  The kernel drops its flock; a child lives on.
Die(r) ==
    /\ pc[r] \notin Finished \cup {"idle"}
    /\ pc' = [pc EXCEPT ![r] = "dead"]
    /\ lock' = IF lock = r THEN None ELSE lock
    /\ UNCHANGED <<clock, deployment, rootCheckpoint, checkpoint, run, processes>>

-----------------------------------------------------------------------------
(* The install consumer, a child process of the launcher *)

ConsumerWrite(r, t) ==
    /\ child[r] = "running"
    /\ t \in todo[r]
    /\ todo' = [todo EXCEPT ![r] = @ \ {t}]
    /\ installed' = [installed EXCEPT ![t] = run[r].manifest.manifestSequence]
    /\ UNCHANGED <<clock, deployment, rootCheckpoint, checkpoint, lock, pc, run, child>>

\* It ends when it is done, or earlier when it fails or is killed.
ConsumerExit(r) ==
    /\ child[r] = "running"
    /\ child' = [child EXCEPT ![r] = "exited"]
    /\ UNCHANGED <<clock, deployment, rootCheckpoint, checkpoint, lock, pc, run,
                   todo, installed>>

-----------------------------------------------------------------------------
PublishedIndexes == {c.receipt.freshnessIndex : c \in Config}

Launcher(r) ==
    \/ Reproduce(r)
    \/ \E served \in PublishedIndexes : ReadRelease(r, served)
    \/ ReadOffline(r)
    \/ \E contentReady \in BOOLEAN : ReportOffline(r, contentReady)
    \/ Preflight(r)
    \/ \E contentReady \in BOOLEAN : Stage(r, contentReady)
    \/ RecheckExpiry(r)
    \/ ReproduceAgain(r)
    \/ Acquire(r)
    \/ Revalidate(r)
    \/ \E written \in BOOLEAN : WriteCheckpoint(r, written)
    \/ \E intact \in BOOLEAN : Report(r, intact)
    \/ \E intact \in BOOLEAN : Launch(r, intact)
    \/ Reap(r)

Consumer(r) ==
    \/ \E t \in Target : ConsumerWrite(r, t)
    \/ ConsumerExit(r)

Next ==
    \/ Tick
    \/ Configure
    \/ CheckOut
    \/ \E r \in Run :
          \/ \E mode \in Modes : Start(r, mode)
          \/ Launcher(r)
          \/ Consumer(r)
          \/ Die(r)

Spec == Init /\ [][Next]_vars

\* A started launcher is scheduled, and a consumer ends; nobody has to start
\* a run, and nothing has to die.
FairSpec ==
    Spec /\ \A r \in Run : WF_vars(Launcher(r)) /\ WF_vars(Consumer(r))
-----------------------------------------------------------------------------
(* Correctness *)

Captures == [mode : Modes, config : Config, manifest : Checkout \cup {None}]

Steps == Finished \cup Critical \cup
    {"idle", "captured", "trusted", "offline", "indexed", "preflighted",
     "staged", "rechecked", "cleared"}

\* Every variable keeps its type, and a run that has started has captured
\* its configuration.
TypeOK ==
    /\ clock \in 0..MaxClock
    /\ config \in Config
    /\ repo \in Checkout
    /\ rootCheckpoint \in Statements \cup {None}
    /\ checkpoint \in Indexes \cup {None}
    /\ lock \in Run \cup {None}
    /\ pc \in [Run -> Steps]
    /\ run \in [Run -> Captures \cup {None}]
    /\ child \in [Run -> {"none", "running", "exited"}]
    /\ todo \in [Run -> SUBSET Target]
    /\ installed \in [Target -> Nat]
    /\ \A r \in Run : pc[r] # "idle" => run[r] \in Captures

\* The fence of the comment over the consumer step: while a launcher waits
\* for its consumer it alone holds the lock, and the checkpoint is still the
\* index this consumer was authorized under, whatever other runs did since.
ConsumerFence ==
    \A r \in Run :
        pc[r] = "consuming" => lock = r /\ checkpoint = IndexOf(r)

\* What was once reported ready, handed to a consumer or installed stays in
\* the accepted history: no later run, and no orphaned consumer, can leave
\* a release in use that the checkpoint has disowned.
AuthorizedStaysAccepted ==
    /\ \A r \in Run :
          pc[r] \in {"ready", "consumed"} \/ child[r] # "none" =>
             checkpoint # None /\ run[r].manifest \in EntriesOf(checkpoint)
    /\ \A t \in Target :
          installed[t] # 0 =>
             /\ checkpoint # None
             /\ \E e \in EntriesOf(checkpoint) : e.manifestSequence = installed[t]

\* The two checkpoints advance at different moments of a run.  The root
\* checkpoint is never behind: the index in the freshness checkpoint, and
\* the one of every run past the threshold verifier, come with a statement
\* whose releaseSequence the root checkpoint has reached.
RootCoversAccepted ==
    /\ \A r \in Run :
          pc[r] \in {"trusted", "offline", "indexed", "preflighted", "staged",
                     "rechecked", "cleared"} \cup Critical =>
             /\ rootCheckpoint # None
             /\ run[r].config.receipt.releaseSequence <= rootCheckpoint.releaseSequence
    /\ checkpoint # None =>
          \E c \in Config :
             /\ c.receipt.freshnessIndex = checkpoint
             /\ rootCheckpoint # None
             /\ c.receipt.releaseSequence <= rootCheckpoint.releaseSequence

-----------------------------------------------------------------------------
(* The parts of the inductive invariant the safety properties rest on *)

\* The lock is held by exactly the run inside the second critical section.
LockHeld == \A r \in Run : pc[r] \in Critical <=> lock = r

\* A consumer exists only after its launcher reached the consumer step.
ChildOfLauncher ==
    \A r \in Run : child[r] # "none" => pc[r] \in {"consuming", "consumed", "dead"}

\* A run past the index checks knows a release that is the newest entry of a
\* well-ordered index, and so does one whose consumer outlives it.
Identified(r) ==
    /\ run[r].manifest \in Checkout
    /\ run[r].manifest = Newest(IndexOf(r))
    /\ WellOrdered(IndexOf(r).releases)

Identifying ==
    {"indexed", "preflighted", "staged", "rechecked", "cleared",
     "ready", "consumed"} \cup Critical

RunsIdentified ==
    \A r \in Run : pc[r] \in Identifying \/ child[r] # "none" => Identified(r)

CheckpointWellOrdered == checkpoint # None => WellOrdered(checkpoint.releases)

\* Nothing moves the checkpoint between the check, the write and the consumer.
ValidatedStaysValid ==
    \A r \in Run :
        /\ pc[r] = "validated" => CheckpointAccepts(r)
        /\ pc[r] \in {"written", "consuming"} => checkpoint = IndexOf(r)

Inductive ==
    /\ TypeOK
    /\ LockHeld
    /\ ChildOfLauncher
    /\ RunsIdentified
    /\ CheckpointWellOrdered
    /\ ValidatedStaysValid
    /\ AuthorizedStaysAccepted
    /\ RootCoversAccepted

Orphan(r) == child[r] = "running" /\ pc[r] # "consuming"

\* The aim of the fence: an older run never overwrites a newer installed
\* generation, as long as no launcher has died under its running consumer.
InstalledNeverRollsBack ==
    [][(\A r \in Run : ~Orphan(r)) =>
          \A t \in Target : installed'[t] >= installed[t]]_vars

\* The freshness checkpoint implements an append-only accepted history.
AcceptedHistory ==
    INSTANCE AcceptedHistory WITH
        history <- IF checkpoint = None THEN {} ELSE EntriesOf(checkpoint),
        level <- IF checkpoint = None THEN 0 ELSE checkpoint.indexSequence

AcceptedOnlyGrows == AcceptedHistory!Spec

\* The verifier that is one step here keeps the promise of the one that is many
\* steps in TrustRoot: the recorded release only advances.  Its root is fixed.
TrustedState ==
    INSTANCE TrustedState WITH
        root <- None,
        version <- IF rootCheckpoint = None THEN 0 ELSE 1,
        sequence <- IF rootCheckpoint = None THEN 0 ELSE rootCheckpoint.releaseSequence

ReleaseOnlyAdvances == TrustedState!Spec

\* To the consumers the launcher is a fence: at most one child of a living
\* launcher runs, and only while that launcher holds the lock.
LaunchFence ==
    INSTANCE LaunchFence WITH
        Launchers <- Run,
        Nobody <- None,
        holder <- lock,
        gone <- {r \in Run : pc[r] = "dead"}

FencesConsumers == LaunchFence!Spec

\* Every started run ends: with a verdict, a refusal or its own death.  No
\* waiter starves on the lock, no refusal leaves it held, and no child of a
\* dead launcher runs on for ever.
EveryRunEnds ==
    \A r \in Run :
        pc[r] # "idle" ~> pc[r] \in Finished /\ child[r] # "running"

\* The comment over the consumer step, taken at its word: an older run
\* cannot overwrite the newer installed generation.
NoOlderOverwrite ==
    [][\A t \in Target : installed'[t] >= installed[t]]_vars
=============================================================================
