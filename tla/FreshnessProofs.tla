-------------------------- MODULE FreshnessProofs ---------------------------
(***************************************************************************)
(* The safety properties of Freshness for any number of runs, targets,     *)
(* configurations and indexes, and any length of time.                     *)
(***************************************************************************)
EXTENDS Freshness, TLAPS

USE FreshnessAssumption, NoneAssumption

-----------------------------------------------------------------------------
(* Indexes and checkpoints *)

\* Every release entry of an index is at most as new as the last one, which
\* is what "newest" means in the launcher.
LEMMA NewestIsGreatest ==
    ASSUME NEW x \in Indexes, WellOrdered(x.releases)
    PROVE  /\ Newest(x) \in EntriesOf(x)
           /\ \A e \in EntriesOf(x) : e.manifestSequence <= Newest(x).manifestSequence
  <1> DEFINE n == Len(x.releases)
  <1>1. /\ x.releases \in Seq(Entries)
        /\ DOMAIN x.releases = 1..n
        /\ n \in Nat
    BY DEF Indexes
  <1>2. n \in 1..n
    BY <1>1 DEF WellOrdered
  <1>3. ASSUME NEW i \in 1..n
        PROVE  x.releases[i].manifestSequence <= x.releases[n].manifestSequence
    <2>1. x.releases[i] \in Entries /\ x.releases[n] \in Entries
      BY <1>1, <1>2
    <2>2. CASE i = n
      BY <2>1, <2>2 DEF Entries
    <2>3. CASE i < n
      BY <1>1, <1>2, <2>1, <2>3 DEF WellOrdered, Entries
    <2> QED
      BY <1>1, <2>2, <2>3
  <1> QED
    BY <1>1, <1>2, <1>3 DEF EntriesOf, Newest

\* Entries of an index are entries.
LEMMA EntriesType ==
    ASSUME NEW x \in Indexes
    PROVE  EntriesOf(x) \subseteq Entries
  BY DEF EntriesOf, Indexes

-----------------------------------------------------------------------------
(* Type correctness *)

\* What a run has captured is what the types of the constants promise.
LEMMA CaptureType ==
    ASSUME TypeOK, NEW r \in Run, pc[r] # "idle"
    PROVE  /\ run[r] \in Captures
           /\ run[r].config \in Config
           /\ run[r].config \in Configs
           /\ IndexOf(r) \in Indexes
           /\ run[r].config.receipt \in Statements
           /\ run[r].config.statement \in Statements
           /\ run[r].manifest \in Checkout \cup {None}
  <1>1. run[r] \in Captures
    BY DEF TypeOK
  <1>2. run[r].config \in Configs
    BY <1>1 DEF Captures
  <1>3. /\ run[r].config.receipt \in Statements
        /\ run[r].config.statement \in Statements
    BY <1>2 DEF Configs
  <1> QED
    BY <1>1, <1>2, <1>3 DEF Captures, IndexOf, Statements

\* Reading the release and the index changes only what one run knows, and a
\* run that goes on has identified its release.
LEMMA ReadEffect ==
    ASSUME TypeOK, NEW r \in Run,
           (\E served \in PublishedIndexes : ReadRelease(r, served)) \/ ReadOffline(r)
    PROVE  /\ pc[r] = "trusted"
           /\ run[r] \in Captures
           /\ \E step \in {"indexed", "offline", "refused"} :
                 /\ pc' = [pc EXCEPT ![r] = step]
                 /\ step = "indexed" => repo = Newest(IndexOf(r)) /\ WellOrdered(IndexOf(r).releases)
           /\ run' = [run EXCEPT ![r] = WithManifest(run[r], repo)]
           /\ repo \in Checkout
           /\ UNCHANGED <<rootCheckpoint, checkpoint, lock, child, installed>>
  <1>1. pc[r] = "trusted" /\ run[r] \in Captures
    BY CaptureType DEF ReadRelease, ReadOffline, Advance
  <1>2. CASE ReadOffline(r)
    BY <1>1, <1>2 DEF ReadOffline, Advance, TypeOK, processes
  <1>3. CASE \E served \in PublishedIndexes : ReadRelease(r, served)
    <2>1. PICK served \in PublishedIndexes : ReadRelease(r, served)
      BY <1>3
    <2>2. CASE ManifestAccepted(run[r].config, repo) /\ IndexAccepted(run[r].config, served, repo)
      <3>1. pc' = [pc EXCEPT ![r] = "indexed"]
        BY <2>1, <2>2 DEF ReadRelease, Advance
      <3>2. repo = Newest(IndexOf(r)) /\ WellOrdered(IndexOf(r).releases)
        BY <2>2 DEF IndexAccepted, ParseIndex, IndexOf
      <3> QED
        BY <1>1, <2>1, <3>1, <3>2 DEF ReadRelease, TypeOK, processes
    <2>3. CASE ~(ManifestAccepted(run[r].config, repo) /\ IndexAccepted(run[r].config, served, repo))
      <3>1. pc' = [pc EXCEPT ![r] = "refused"]
        BY <2>1, <2>3 DEF ReadRelease, Advance
      <3> QED
        BY <1>1, <2>1, <3>1 DEF ReadRelease, TypeOK, processes
    <2> QED
      BY <2>2, <2>3
  <1> QED
    BY <1>2, <1>3

\* The capture keeps its configuration when the manifest is filled in.
LEMMA WithManifestKeeps ==
    ASSUME NEW capture, NEW m
    PROVE  /\ WithManifest(capture, m).config = capture.config
           /\ WithManifest(capture, m).manifest = m
  BY DEF WithManifest

\* The threshold verifier changes the root checkpoint, never downwards, and
\* only a run whose receipt it reproduced goes on.
LEMMA ThresholdEffect ==
    ASSUME TypeOK, NEW r \in Run, NEW from, NEW to, from # "idle", ThresholdRun(r, from, to)
    PROVE  /\ pc[r] = from
           /\ UNCHANGED <<checkpoint, lock, run, child, installed>>
           /\ rootCheckpoint' \in Statements \cup {None}
           /\ rootCheckpoint # None =>
                 /\ rootCheckpoint' # None
                 /\ rootCheckpoint.releaseSequence <= rootCheckpoint'.releaseSequence
           /\ \/ pc' = [pc EXCEPT ![r] = "refused"]
              \/ /\ pc' = [pc EXCEPT ![r] = to]
                 /\ rootCheckpoint' = run[r].config.receipt
                 /\ rootCheckpoint' # None
                 /\ rootCheckpoint'.releaseSequence \in Nat
  <1> DEFINE statement == run[r].config.statement
             accepted == ThresholdAccepts(statement)
  <1>1. pc[r] = from
    BY DEF ThresholdRun, Advance
  <1>2. statement \in Statements /\ statement.releaseSequence \in Nat /\ statement # None
    <2>1. statement \in Statements
      BY <1>1, CaptureType
    <2> QED
      BY <2>1 DEF Statements
  <1>3. UNCHANGED <<checkpoint, lock, run, child, installed>>
    BY DEF ThresholdRun, processes
  <1>4. rootCheckpoint' = IF accepted THEN statement ELSE rootCheckpoint
    BY DEF ThresholdRun
  <1>9. rootCheckpoint' \in Statements \cup {None}
    BY <1>2, <1>4 DEF TypeOK
  <1>5. accepted /\ rootCheckpoint # None =>
           rootCheckpoint.releaseSequence <= statement.releaseSequence
    <2>1. rootCheckpoint # None => rootCheckpoint.releaseSequence \in Nat
      BY DEF TypeOK, Statements
    <2> QED
      BY <1>2, <2>1 DEF ThresholdAccepts
  <1>6. rootCheckpoint # None => rootCheckpoint.releaseSequence <= rootCheckpoint.releaseSequence
    BY DEF TypeOK, Statements
  <1>7. CASE accepted /\ statement = run[r].config.receipt
    <2>1. pc' = [pc EXCEPT ![r] = to]
      BY <1>7 DEF ThresholdRun, Advance
    <2> QED
      BY <1>1, <1>2, <1>3, <1>4, <1>5, <1>7, <1>9, <2>1
  <1>8. CASE ~(accepted /\ statement = run[r].config.receipt)
    <2>1. pc' = [pc EXCEPT ![r] = "refused"]
      BY <1>8 DEF ThresholdRun, Advance
    <2> QED
      BY <1>1, <1>2, <1>3, <1>4, <1>5, <1>6, <1>8, <1>9, <2>1
  <1> QED
    BY <1>7, <1>8

\* Before the first run every variable has its type.
LEMMA TypeInit == Init => TypeOK
  BY DEF Init, TypeOK, Steps, Finished, Critical

\* No step of the operator, a launcher or a consumer breaks a type; writing the
\* checkpoint needs to know that the run has identified an index.
LEMMA TypeStep == TypeOK /\ RunsIdentified /\ [Next]_vars => TypeOK'
  <1> SUFFICES ASSUME TypeOK, RunsIdentified, [Next]_vars PROVE TypeOK'
    OBVIOUS
  <1> USE DEF TypeOK, Steps, Finished, Critical
  <1>1. CASE Tick
    BY <1>1 DEF Tick, deployment, processes
  <1>2. CASE Configure
    BY <1>2 DEF Configure, processes
  <1>3. CASE CheckOut
    BY <1>3 DEF CheckOut, processes
  <1>4. ASSUME NEW r \in Run, NEW mode \in Modes, Start(r, mode) PROVE TypeOK'
    BY <1>4 DEF Start, Advance, Captures, deployment, processes
  <1>5. ASSUME NEW r \in Run, NEW from \in Steps \ {"idle"}, NEW to \in Steps \ {"idle"},
               ThresholdRun(r, from, to)
        PROVE  TypeOK'
    <2>1. pc[r] # "idle" /\ run[r].config.statement \in Statements
      BY <1>5, CaptureType DEF ThresholdRun, Advance
    <2> QED
      BY <1>5, <2>1 DEF ThresholdRun, Advance, deployment, processes
  <1>6. ASSUME NEW r \in Run, Reproduce(r) PROVE TypeOK'
    BY <1>5, <1>6 DEF Reproduce
  <1>7. ASSUME NEW r \in Run, ReproduceAgain(r) PROVE TypeOK'
    BY <1>5, <1>7 DEF ReproduceAgain
  <1>8. ASSUME NEW r \in Run, NEW served \in PublishedIndexes, ReadRelease(r, served)
        PROVE  TypeOK'
    <2>1. pc[r] # "idle" /\ run[r] \in Captures
      BY <1>8, CaptureType DEF ReadRelease, Advance
    <2>2. WithManifest(run[r], repo) \in Captures
      BY <2>1 DEF Captures, WithManifest
    <2> QED
      BY <1>8, <2>1, <2>2 DEF ReadRelease, Advance, deployment, processes
  <1>9. ASSUME NEW r \in Run, ReadOffline(r) PROVE TypeOK'
    <2>1. pc[r] # "idle" /\ run[r] \in Captures
      BY <1>9, CaptureType DEF ReadOffline, Advance
    <2>2. WithManifest(run[r], repo) \in Captures
      BY <2>1 DEF Captures, WithManifest
    <2> QED
      BY <1>9, <2>1, <2>2 DEF ReadOffline, Advance, deployment, processes
  <1>10. ASSUME NEW r \in Run, NEW ready \in BOOLEAN, ReportOffline(r, ready)
         PROVE  TypeOK'
    BY <1>10 DEF ReportOffline, Advance, deployment, processes
  <1>11. ASSUME NEW r \in Run, Preflight(r) PROVE TypeOK'
    BY <1>11 DEF Preflight, Advance, deployment, processes
  <1>12. ASSUME NEW r \in Run, NEW ready \in BOOLEAN, Stage(r, ready) PROVE TypeOK'
    BY <1>12 DEF Stage, Advance, deployment, processes
  <1>13. ASSUME NEW r \in Run, RecheckExpiry(r) PROVE TypeOK'
    BY <1>13 DEF RecheckExpiry, Advance, deployment, processes
  <1>14. ASSUME NEW r \in Run, Acquire(r) PROVE TypeOK'
    BY <1>14 DEF Acquire, Advance, deployment, processes
  <1>15. ASSUME NEW r \in Run, Revalidate(r) PROVE TypeOK'
    BY <1>15 DEF Revalidate, AdvanceLocked, Advance, deployment, processes
  <1>16. ASSUME NEW r \in Run, NEW written \in BOOLEAN, WriteCheckpoint(r, written)
        PROVE  TypeOK'
    <2>1. IndexOf(r) \in Indexes
      BY <1>16, CaptureType DEF WriteCheckpoint, AdvanceLocked, Advance
    <2>2. checkpoint' \in Indexes \cup {None}
      BY <1>16, <2>1 DEF WriteCheckpoint
    <2> QED
      BY <1>16, <2>2 DEF WriteCheckpoint, AdvanceLocked, Advance, deployment, processes
  <1>17. ASSUME NEW r \in Run, NEW intact \in BOOLEAN, Report(r, intact) PROVE TypeOK'
    BY <1>17 DEF Report, Advance, deployment, processes
  <1>18. ASSUME NEW r \in Run, NEW intact \in BOOLEAN, Launch(r, intact) PROVE TypeOK'
    BY <1>18 DEF Launch, AdvanceLocked, Advance, deployment
  <1>19. ASSUME NEW r \in Run, Reap(r) PROVE TypeOK'
    BY <1>19 DEF Reap, Advance, deployment, processes
  <1>20. ASSUME NEW r \in Run, Die(r) PROVE TypeOK'
    BY <1>20 DEF Die, deployment, processes
  <1>21. ASSUME NEW r \in Run, NEW t \in Target, ConsumerWrite(r, t) PROVE TypeOK'
    <2>1. run[r].manifest \in Entries
      BY <1>21 DEF ConsumerWrite, RunsIdentified, Identified
    <2>2. run[r].manifest.manifestSequence \in Nat
      BY <2>1 DEF Entries
    <2> QED
      BY <1>21, <2>2 DEF ConsumerWrite, deployment
  <1>22. ASSUME NEW r \in Run, ConsumerExit(r) PROVE TypeOK'
    BY <1>22 DEF ConsumerExit, deployment
  <1>23. CASE UNCHANGED vars
    BY <1>23 DEF vars
  <1> QED
    BY <1>1, <1>2, <1>3, <1>4, <1>6, <1>7, <1>8, <1>9, <1>10, <1>11, <1>12, <1>13,
       <1>14, <1>15, <1>16, <1>17, <1>18, <1>19, <1>20, <1>21, <1>22, <1>23
       DEF Next, Launcher, Consumer
-----------------------------------------------------------------------------
(* The lock and the life of a consumer *)

Control == LockHeld /\ ChildOfLauncher

\* Exactly the holder of the lock is in the critical section, and only a
\* launcher that reached the consumer step has a child; every step keeps that.
LEMMA ControlStep == TypeOK /\ Control /\ [Next]_vars => Control'
  <1> SUFFICES ASSUME TypeOK, Control, [Next]_vars PROVE Control'
    OBVIOUS
  <1> USE DEF Control, TypeOK, LockHeld, ChildOfLauncher, Critical
  <1>1. CASE Tick
    BY <1>1 DEF Tick, deployment, processes
  <1>2. CASE Configure
    BY <1>2 DEF Configure, processes
  <1>3. CASE CheckOut
    BY <1>3 DEF CheckOut, processes
  <1>4. ASSUME NEW r \in Run, NEW mode \in Modes, Start(r, mode) PROVE Control'
    BY <1>4 DEF Start, Advance, deployment, processes
  <1>5. ASSUME NEW r \in Run, Reproduce(r) PROVE Control'
    BY <1>5 DEF Reproduce, ThresholdRun, Advance, deployment, processes
  <1>6. ASSUME NEW r \in Run, ReproduceAgain(r) PROVE Control'
    BY <1>6 DEF ReproduceAgain, ThresholdRun, Advance, deployment, processes
  <1>7. ASSUME NEW r \in Run, NEW served \in PublishedIndexes, ReadRelease(r, served) PROVE Control'
    BY <1>7 DEF ReadRelease, Advance, deployment, processes
  <1>8. ASSUME NEW r \in Run, ReadOffline(r) PROVE Control'
    BY <1>8 DEF ReadOffline, Advance, deployment, processes
  <1>9. ASSUME NEW r \in Run, NEW ready \in BOOLEAN, ReportOffline(r, ready) PROVE Control'
    BY <1>9 DEF ReportOffline, Advance, deployment, processes
  <1>10. ASSUME NEW r \in Run, Preflight(r) PROVE Control'
    BY <1>10 DEF Preflight, Advance, deployment, processes
  <1>11. ASSUME NEW r \in Run, NEW ready \in BOOLEAN, Stage(r, ready) PROVE Control'
    BY <1>11 DEF Stage, Advance, deployment, processes
  <1>12. ASSUME NEW r \in Run, RecheckExpiry(r) PROVE Control'
    BY <1>12 DEF RecheckExpiry, Advance, deployment, processes
  <1>13. ASSUME NEW r \in Run, Acquire(r) PROVE Control'
    BY <1>13 DEF Acquire, Advance, deployment, processes
  <1>14. ASSUME NEW r \in Run, Revalidate(r) PROVE Control'
    BY <1>14 DEF Revalidate, AdvanceLocked, Advance, deployment, processes
  <1>15. ASSUME NEW r \in Run, NEW written \in BOOLEAN, WriteCheckpoint(r, written)
        PROVE  Control'
    BY <1>15 DEF WriteCheckpoint, AdvanceLocked, Advance, deployment, processes
  <1>16. ASSUME NEW r \in Run, NEW intact \in BOOLEAN, Report(r, intact) PROVE Control'
    BY <1>16 DEF Report, Advance, deployment, processes
  <1>17. ASSUME NEW r \in Run, NEW intact \in BOOLEAN, Launch(r, intact) PROVE Control'
    BY <1>17 DEF Launch, AdvanceLocked, Advance, deployment
  <1>18. ASSUME NEW r \in Run, Reap(r) PROVE Control'
    BY <1>18 DEF Reap, Advance, deployment, processes
  <1>19. ASSUME NEW r \in Run, Die(r) PROVE Control'
    BY <1>19 DEF Die, deployment, processes
  <1>20. ASSUME NEW r \in Run, NEW t \in Target, ConsumerWrite(r, t) PROVE Control'
    BY <1>20 DEF ConsumerWrite, deployment
  <1>21. ASSUME NEW r \in Run, ConsumerExit(r) PROVE Control'
    BY <1>21 DEF ConsumerExit, deployment
  <1>22. CASE UNCHANGED vars
    BY <1>22 DEF vars
  <1> QED
    BY <1>1, <1>2, <1>3, <1>4, <1>5, <1>6, <1>7, <1>8, <1>9, <1>10,
       <1>11, <1>12, <1>13, <1>14, <1>15, <1>16, <1>17, <1>18, <1>19,
       <1>20, <1>21, <1>22
       DEF Next, Launcher, Consumer

-----------------------------------------------------------------------------
(* The identified release and the checkpoint *)

Fence == RunsIdentified /\ CheckpointWellOrdered /\ ValidatedStaysValid

\* A run keeps the release it identified, the checkpoint keeps its order, and
\* what was validated under the lock is still valid when it is used.
LEMMA FenceStep ==
    TypeOK /\ Control /\ Fence /\ [Next]_vars => Fence'
  <1> SUFFICES ASSUME TypeOK, Control, Fence, [Next]_vars PROVE Fence'
    OBVIOUS
  <1> USE DEF Fence, Control, TypeOK, LockHeld, ChildOfLauncher, Critical, RunsIdentified,
          Identified, Identifying, IndexOf, CheckpointWellOrdered, ValidatedStaysValid,
          CheckpointAccepts
  <1>1. CASE Tick
    BY <1>1 DEF Tick, deployment, processes
  <1>2. CASE Configure
    BY <1>2 DEF Configure, processes
  <1>3. CASE CheckOut
    BY <1>3 DEF CheckOut, processes
  <1>4. ASSUME NEW r \in Run, NEW mode \in Modes, Start(r, mode) PROVE Fence'
    BY <1>4 DEF Start, Advance, deployment, processes
  <1>5. ASSUME NEW r \in Run, Reproduce(r) PROVE Fence'
    BY <1>5 DEF Reproduce, ThresholdRun, Advance, deployment, processes
  <1>6. ASSUME NEW r \in Run, ReproduceAgain(r) PROVE Fence'
    BY <1>6 DEF ReproduceAgain, ThresholdRun, Advance, deployment, processes
  <1>7. ASSUME NEW r \in Run, NEW served \in PublishedIndexes, ReadRelease(r, served) PROVE Fence'
    BY <1>7, ReadEffect, WithManifestKeeps
  <1>8. ASSUME NEW r \in Run, ReadOffline(r) PROVE Fence'
    BY <1>8, ReadEffect, WithManifestKeeps
  <1>9. ASSUME NEW r \in Run, NEW ready \in BOOLEAN, ReportOffline(r, ready) PROVE Fence'
    BY <1>9 DEF ReportOffline, Advance, deployment, processes
  <1>10. ASSUME NEW r \in Run, Preflight(r) PROVE Fence'
    BY <1>10 DEF Preflight, Advance, deployment, processes
  <1>11. ASSUME NEW r \in Run, NEW ready \in BOOLEAN, Stage(r, ready) PROVE Fence'
    BY <1>11 DEF Stage, Advance, deployment, processes
  <1>12. ASSUME NEW r \in Run, RecheckExpiry(r) PROVE Fence'
    BY <1>12 DEF RecheckExpiry, Advance, deployment, processes
  <1>13. ASSUME NEW r \in Run, Acquire(r) PROVE Fence'
    BY <1>13 DEF Acquire, Advance, deployment, processes
  <1>14. ASSUME NEW r \in Run, Revalidate(r) PROVE Fence'
    BY <1>14 DEF Revalidate, AdvanceLocked, Advance, deployment, processes
  <1>15. ASSUME NEW r \in Run, NEW written \in BOOLEAN, WriteCheckpoint(r, written)
        PROVE  Fence'
    BY <1>15 DEF WriteCheckpoint, AdvanceLocked, Advance, deployment, processes
  <1>16. ASSUME NEW r \in Run, NEW intact \in BOOLEAN, Report(r, intact) PROVE Fence'
    BY <1>16 DEF Report, Advance, deployment, processes
  <1>17. ASSUME NEW r \in Run, NEW intact \in BOOLEAN, Launch(r, intact) PROVE Fence'
    BY <1>17 DEF Launch, AdvanceLocked, Advance, deployment
  <1>18. ASSUME NEW r \in Run, Reap(r) PROVE Fence'
    BY <1>18 DEF Reap, Advance, deployment, processes
  <1>19. ASSUME NEW r \in Run, Die(r) PROVE Fence'
    BY <1>19 DEF Die, deployment, processes
  <1>20. ASSUME NEW r \in Run, NEW t \in Target, ConsumerWrite(r, t) PROVE Fence'
    BY <1>20 DEF ConsumerWrite, deployment
  <1>21. ASSUME NEW r \in Run, ConsumerExit(r) PROVE Fence'
    BY <1>21 DEF ConsumerExit, deployment
  <1>22. CASE UNCHANGED vars
    BY <1>22 DEF vars
  <1> HIDE DEF Fence, Control, TypeOK, LockHeld, ChildOfLauncher, Critical, RunsIdentified,
           Identified, Identifying, IndexOf, CheckpointWellOrdered, ValidatedStaysValid,
           CheckpointAccepts
  <1> QED
    BY <1>1, <1>2, <1>3, <1>4, <1>5, <1>6, <1>7, <1>8, <1>9, <1>10,
       <1>11, <1>12, <1>13, <1>14, <1>15, <1>16, <1>17, <1>18, <1>19,
       <1>20, <1>21, <1>22
       DEF Next, Launcher, Consumer

-----------------------------------------------------------------------------
(* What was authorized stays accepted *)

\* A new checkpoint contains every entry of the old one, so what was reported
\* ready, launched or installed before is still among its entries.
LEMMA AuthorizedStep ==
    TypeOK /\ Control /\ Fence /\ AuthorizedStaysAccepted /\ [Next]_vars
       => AuthorizedStaysAccepted'
  <1> SUFFICES ASSUME TypeOK, Control, Fence, AuthorizedStaysAccepted, [Next]_vars
               PROVE  AuthorizedStaysAccepted'
    OBVIOUS
  <1> USE DEF TypeOK, AuthorizedStaysAccepted, Control, LockHeld, ChildOfLauncher
  <1>1. CASE Tick
    BY <1>1 DEF Tick, deployment, processes
  <1>2. CASE Configure
    BY <1>2 DEF Configure, processes
  <1>3. CASE CheckOut
    BY <1>3 DEF CheckOut, processes
  <1>4. ASSUME NEW r \in Run, NEW mode \in Modes, Start(r, mode) PROVE AuthorizedStaysAccepted'
    BY <1>4 DEF Start, Advance, deployment, processes
  <1>5. ASSUME NEW r \in Run, Reproduce(r) PROVE AuthorizedStaysAccepted'
    BY <1>5 DEF Reproduce, ThresholdRun, Advance, deployment, processes
  <1>6. ASSUME NEW r \in Run, ReproduceAgain(r) PROVE AuthorizedStaysAccepted'
    BY <1>6 DEF ReproduceAgain, ThresholdRun, Advance, deployment, processes
  <1>7. ASSUME NEW r \in Run, NEW served \in PublishedIndexes, ReadRelease(r, served) PROVE AuthorizedStaysAccepted'
    BY <1>7, ReadEffect, WithManifestKeeps
  <1>8. ASSUME NEW r \in Run, ReadOffline(r) PROVE AuthorizedStaysAccepted'
    BY <1>8, ReadEffect, WithManifestKeeps
  <1>9. ASSUME NEW r \in Run, NEW ready \in BOOLEAN, ReportOffline(r, ready) PROVE AuthorizedStaysAccepted'
    BY <1>9 DEF ReportOffline, Advance, deployment, processes
  <1>10. ASSUME NEW r \in Run, Preflight(r) PROVE AuthorizedStaysAccepted'
    BY <1>10 DEF Preflight, Advance, deployment, processes
  <1>11. ASSUME NEW r \in Run, NEW ready \in BOOLEAN, Stage(r, ready) PROVE AuthorizedStaysAccepted'
    BY <1>11 DEF Stage, Advance, deployment, processes
  <1>12. ASSUME NEW r \in Run, RecheckExpiry(r) PROVE AuthorizedStaysAccepted'
    BY <1>12 DEF RecheckExpiry, Advance, deployment, processes
  <1>13. ASSUME NEW r \in Run, Acquire(r) PROVE AuthorizedStaysAccepted'
    BY <1>13 DEF Acquire, Advance, deployment, processes
  <1>14. ASSUME NEW r \in Run, Revalidate(r) PROVE AuthorizedStaysAccepted'
    BY <1>14 DEF Revalidate, AdvanceLocked, Advance, deployment, processes
  <1>15. ASSUME NEW r \in Run, NEW written \in BOOLEAN, WriteCheckpoint(r, written)
        PROVE  AuthorizedStaysAccepted'
    <2>1. /\ pc[r] = "validated"
          /\ \/ pc' = [pc EXCEPT ![r] = "written"] /\ checkpoint' = IndexOf(r)
             \/ pc' = [pc EXCEPT ![r] = "refused"] /\ checkpoint' \in {IndexOf(r), checkpoint}
      BY <1>15 DEF WriteCheckpoint, AdvanceLocked, Advance
    <2>2. IndexOf(r) # None
      BY <2>1, CaptureType
    <2>3. checkpoint # None => EntriesOf(checkpoint) \subseteq EntriesOf(checkpoint')
      BY <2>1 DEF Fence, ValidatedStaysValid, CheckpointAccepts, ValidateCheckpoint, RetainsHistory
    <2>4. UNCHANGED <<run, child, installed>>
      BY <1>15 DEF WriteCheckpoint, processes
    <2> QED
      BY <2>1, <2>2, <2>3, <2>4
  <1>16. ASSUME NEW r \in Run, NEW intact \in BOOLEAN, Report(r, intact) PROVE AuthorizedStaysAccepted'
    <2>1. pc[r] = "written"
      BY <1>16 DEF Report, Advance, processes
    <2>2. /\ checkpoint # None
          /\ run[r].manifest \in EntriesOf(checkpoint)
      BY <2>1, CaptureType, NewestIsGreatest
         DEF Fence, ValidatedStaysValid, RunsIdentified, Identified, Identifying, Critical
    <2> QED
      BY <1>16, <2>1, <2>2 DEF Report, Advance, processes
  <1>17. ASSUME NEW r \in Run, NEW intact \in BOOLEAN, Launch(r, intact) PROVE AuthorizedStaysAccepted'
    <2>1. pc[r] = "written"
      BY <1>17 DEF Launch, AdvanceLocked, Advance
    <2>2. /\ checkpoint # None
          /\ run[r].manifest \in EntriesOf(checkpoint)
      BY <2>1, CaptureType, NewestIsGreatest
         DEF Fence, ValidatedStaysValid, RunsIdentified, Identified, Identifying, Critical
    <2> QED
      BY <1>17, <2>1, <2>2 DEF Launch, AdvanceLocked, Advance
  <1>18. ASSUME NEW r \in Run, Reap(r) PROVE AuthorizedStaysAccepted'
    BY <1>18 DEF Reap, Advance, deployment, processes
  <1>19. ASSUME NEW r \in Run, Die(r) PROVE AuthorizedStaysAccepted'
    BY <1>19 DEF Die, deployment, processes
  <1>20. ASSUME NEW r \in Run, NEW t \in Target, ConsumerWrite(r, t) PROVE AuthorizedStaysAccepted'
    BY <1>20 DEF ConsumerWrite, deployment
  <1>21. ASSUME NEW r \in Run, ConsumerExit(r) PROVE AuthorizedStaysAccepted'
    BY <1>21 DEF ConsumerExit, deployment
  <1>22. CASE UNCHANGED vars
    BY <1>22 DEF vars
  <1> QED
    BY <1>1, <1>2, <1>3, <1>4, <1>5, <1>6, <1>7, <1>8, <1>9, <1>10,
       <1>11, <1>12, <1>13, <1>14, <1>15, <1>16, <1>17, <1>18, <1>19,
       <1>20, <1>21, <1>22
       DEF Next, Launcher, Consumer

-----------------------------------------------------------------------------
(* The root checkpoint is never behind *)

\* The threshold verifier leaves the root checkpoint at or above the statement
\* of every run it has let through.
LEMMA ThresholdNeverLowers ==
    ASSUME TypeOK, RootCoversAccepted, NEW r \in Run, NEW from, NEW to, from # "idle",
           to \in {"trusted", "cleared"}, ThresholdRun(r, from, to)
    PROVE  RootCoversAccepted'
  <1>1. \A q \in Run : pc[q] # "idle" => run[q].config.receipt.releaseSequence \in Nat
    BY CaptureType DEF Statements
  <1>2. \A c \in Config : c.receipt.releaseSequence \in Nat
    BY DEF Configs, Statements
  <1>3. rootCheckpoint # None => rootCheckpoint.releaseSequence \in Nat
    BY DEF TypeOK, Statements
  <1>4. rootCheckpoint # None => rootCheckpoint'.releaseSequence \in Nat
    BY ThresholdEffect DEF Statements
  <1> QED
    BY <1>1, <1>2, <1>3, <1>4, ThresholdEffect DEF RootCoversAccepted, Critical, TypeOK

\* No step lets a run, or the freshness checkpoint, get ahead of the root
\* checkpoint.
LEMMA RootStep ==
    TypeOK /\ RootCoversAccepted /\ [Next]_vars => RootCoversAccepted'
  <1> SUFFICES ASSUME TypeOK, RootCoversAccepted, [Next]_vars
               PROVE  RootCoversAccepted'
    OBVIOUS
  <1> USE DEF TypeOK, RootCoversAccepted, Critical
  <1>1. CASE Tick
    BY <1>1 DEF Tick, deployment, processes
  <1>2. CASE Configure
    BY <1>2 DEF Configure, processes
  <1>3. CASE CheckOut
    BY <1>3 DEF CheckOut, processes
  <1>4. ASSUME NEW r \in Run, NEW mode \in Modes, Start(r, mode) PROVE RootCoversAccepted'
    BY <1>4 DEF Start, Advance, deployment, processes
  <1>5. ASSUME NEW r \in Run, Reproduce(r) PROVE RootCoversAccepted'
    BY <1>5, ThresholdNeverLowers DEF Reproduce
  <1>6. ASSUME NEW r \in Run, ReproduceAgain(r) PROVE RootCoversAccepted'
    BY <1>6, ThresholdNeverLowers DEF ReproduceAgain
  <1>7. ASSUME NEW r \in Run, NEW served \in PublishedIndexes, ReadRelease(r, served) PROVE RootCoversAccepted'
    BY <1>7, ReadEffect, WithManifestKeeps
  <1>8. ASSUME NEW r \in Run, ReadOffline(r) PROVE RootCoversAccepted'
    BY <1>8, ReadEffect, WithManifestKeeps
  <1>9. ASSUME NEW r \in Run, NEW ready \in BOOLEAN, ReportOffline(r, ready) PROVE RootCoversAccepted'
    BY <1>9 DEF ReportOffline, Advance, deployment, processes
  <1>10. ASSUME NEW r \in Run, Preflight(r) PROVE RootCoversAccepted'
    BY <1>10 DEF Preflight, Advance, deployment, processes
  <1>11. ASSUME NEW r \in Run, NEW ready \in BOOLEAN, Stage(r, ready) PROVE RootCoversAccepted'
    BY <1>11 DEF Stage, Advance, deployment, processes
  <1>12. ASSUME NEW r \in Run, RecheckExpiry(r) PROVE RootCoversAccepted'
    BY <1>12 DEF RecheckExpiry, Advance, deployment, processes
  <1>13. ASSUME NEW r \in Run, Acquire(r) PROVE RootCoversAccepted'
    BY <1>13 DEF Acquire, Advance, deployment, processes
  <1>14. ASSUME NEW r \in Run, Revalidate(r) PROVE RootCoversAccepted'
    BY <1>14 DEF Revalidate, AdvanceLocked, Advance, deployment, processes
  <1>15. ASSUME NEW r \in Run, NEW written \in BOOLEAN, WriteCheckpoint(r, written)
        PROVE  RootCoversAccepted'
    <2>1. /\ pc[r] = "validated"
          /\ \E s \in {"written", "refused"} : pc' = [pc EXCEPT ![r] = s]
          /\ checkpoint' \in {run[r].config.receipt.freshnessIndex, checkpoint}
          /\ UNCHANGED <<rootCheckpoint, run>>
      BY <1>15 DEF WriteCheckpoint, AdvanceLocked, Advance, IndexOf
    <2>2. run[r].config \in Config
      BY <2>1, CaptureType
    <2> QED
      BY <2>1, <2>2
  <1>16. ASSUME NEW r \in Run, NEW intact \in BOOLEAN, Report(r, intact) PROVE RootCoversAccepted'
    BY <1>16 DEF Report, Advance, deployment, processes
  <1>17. ASSUME NEW r \in Run, NEW intact \in BOOLEAN, Launch(r, intact) PROVE RootCoversAccepted'
    BY <1>17 DEF Launch, AdvanceLocked, Advance, deployment
  <1>18. ASSUME NEW r \in Run, Reap(r) PROVE RootCoversAccepted'
    BY <1>18 DEF Reap, Advance, deployment, processes
  <1>19. ASSUME NEW r \in Run, Die(r) PROVE RootCoversAccepted'
    BY <1>19 DEF Die, deployment, processes
  <1>20. ASSUME NEW r \in Run, NEW t \in Target, ConsumerWrite(r, t) PROVE RootCoversAccepted'
    BY <1>20 DEF ConsumerWrite, deployment
  <1>21. ASSUME NEW r \in Run, ConsumerExit(r) PROVE RootCoversAccepted'
    BY <1>21 DEF ConsumerExit, deployment
  <1>22. CASE UNCHANGED vars
    BY <1>22 DEF vars
  <1> QED
    BY <1>1, <1>2, <1>3, <1>4, <1>5, <1>6, <1>7, <1>8, <1>9, <1>10,
       <1>11, <1>12, <1>13, <1>14, <1>15, <1>16, <1>17, <1>18, <1>19,
       <1>20, <1>21, <1>22
       DEF Next, Launcher, Consumer
-----------------------------------------------------------------------------
(* Theorems *)

\* The inductive invariant holds before the first run.
LEMMA InductiveInit == Init => Inductive
  <1> SUFFICES ASSUME Init PROVE Inductive
    OBVIOUS
  <1>1. TypeOK
    BY TypeInit
  <1>2. \A r \in Run : pc[r] = "idle" /\ child[r] = "none"
    BY DEF Init
  <1>3. LockHeld
    BY <1>2 DEF LockHeld, Critical, Init
  <1>4. /\ ChildOfLauncher
        /\ RunsIdentified
        /\ CheckpointWellOrdered
        /\ ValidatedStaysValid
    BY <1>2 DEF Init, ChildOfLauncher, RunsIdentified, Identifying, Critical,
                CheckpointWellOrdered, ValidatedStaysValid
  <1>5. AuthorizedStaysAccepted /\ RootCoversAccepted
    BY <1>2 DEF Init, AuthorizedStaysAccepted, RootCoversAccepted, Critical
  <1> QED
    BY <1>1, <1>3, <1>4, <1>5 DEF Inductive

\* Every step keeps the inductive invariant; its parts lean on each other in
\* the order of the lemmas above.
LEMMA InductiveStep == Inductive /\ [Next]_vars => Inductive'
  BY TypeStep, ControlStep, FenceStep, AuthorizedStep, RootStep
     DEF Inductive, Control, Fence

\* The invariant the whole argument rests on holds in every reachable state.
THEOREM InductiveHolds == Spec => []Inductive
  BY InductiveInit, InductiveStep, PTL DEF Spec

\* Type correctness, for any deployment and any number of launcher runs.
THEOREM TypeCorrect == Spec => []TypeOK
  <1>1. Inductive => TypeOK
    BY DEF Inductive
  <1> QED
    BY <1>1, InductiveHolds, PTL

\* A launcher waiting for its consumer alone holds the lock, over the very
\* index it wrote (the fence of verify_release).
THEOREM FenceHolds == Spec => []ConsumerFence
  <1>1. Inductive => ConsumerFence
    BY DEF Inductive, ConsumerFence, LockHeld, ValidatedStaysValid, Critical
  <1> QED
    BY <1>1, InductiveHolds, PTL

\* Nothing reported ready, launched or installed is ever disowned.
THEOREM AuthorizationIsLasting == Spec => []AuthorizedStaysAccepted
  <1>1. Inductive => AuthorizedStaysAccepted
    BY DEF Inductive
  <1> QED
    BY <1>1, InductiveHolds, PTL

\* The root checkpoint has always reached the accepted statement.
THEOREM RootNeverBehind == Spec => []RootCoversAccepted
  <1>1. Inductive => RootCoversAccepted
    BY DEF Inductive
  <1> QED
    BY <1>1, InductiveHolds, PTL

\* Only WriteCheckpoint moves the checkpoint, and only to an accepted index.
LEMMA CheckpointMoves ==
    ASSUME TypeOK, ValidatedStaysValid, [Next]_vars, checkpoint' # checkpoint
    PROVE  \E r \in Run :
              /\ pc[r] = "validated"
              /\ CheckpointAccepts(r)
              /\ checkpoint' = IndexOf(r)
  <1>1. ASSUME NEW r \in Run, NEW written \in BOOLEAN, WriteCheckpoint(r, written)
        PROVE  /\ pc[r] = "validated"
               /\ CheckpointAccepts(r)
               /\ checkpoint' = IndexOf(r)
    BY <1>1 DEF WriteCheckpoint, AdvanceLocked, Advance, ValidatedStaysValid
  <1>2. ASSUME NEW r \in Run, Launcher(r), ~\E written \in BOOLEAN : WriteCheckpoint(r, written)
        PROVE  FALSE
    BY <1>2 DEF Launcher, Reproduce, ReproduceAgain, ThresholdRun, ReadRelease, ReadOffline,
                ReportOffline, Preflight, Stage, RecheckExpiry, Acquire, Revalidate,
                Report, Launch, Reap
  <1> QED
    BY <1>1, <1>2 DEF Next, Tick, Configure, CheckOut, Start, Die, Consumer, ConsumerWrite,
                      ConsumerExit, vars

\* The checkpoint file implements the append-only accepted history.
THEOREM CheckpointRefinesHistory == Spec => AcceptedOnlyGrows
  <1>1. Init => AcceptedHistory!Init
    BY DEF Init, AcceptedHistory!Init
  <1>2. Inductive /\ [Next]_vars =>
          [AcceptedHistory!Accept]_<<IF checkpoint = None THEN {} ELSE EntriesOf(checkpoint),
                    IF checkpoint = None THEN 0 ELSE checkpoint.indexSequence>>
    <2> SUFFICES ASSUME Inductive, [Next]_vars, checkpoint' # checkpoint
                 PROVE  \/ AcceptedHistory!Accept
                        \/ UNCHANGED <<IF checkpoint = None THEN {} ELSE EntriesOf(checkpoint),
                                       IF checkpoint = None THEN 0 ELSE checkpoint.indexSequence>>
      BY DEF EntriesOf
    <2>1. PICK r \in Run : /\ pc[r] = "validated"
                           /\ CheckpointAccepts(r)
                           /\ checkpoint' = IndexOf(r)
      BY CheckpointMoves DEF Inductive
    <2>2. /\ IndexOf(r) \in Indexes
          /\ WellOrdered(IndexOf(r).releases)
      BY <2>1, CaptureType DEF Inductive, RunsIdentified, Identified, Identifying, Critical
    <2>3. /\ checkpoint' # None
          /\ checkpoint'.indexSequence \in Nat
          /\ 0 < checkpoint'.indexSequence
          /\ EntriesOf(checkpoint') # {}
      BY <2>1, <2>2, NewestIsGreatest DEF Indexes
    <2>4. CASE checkpoint = None
      BY <2>3, <2>4 DEF AcceptedHistory!Accept
    <2>5. CASE checkpoint # None
      <3>1. checkpoint.indexSequence \in Nat
        BY <2>5 DEF Inductive, TypeOK, Indexes
      <3>2. /\ checkpoint.indexSequence < checkpoint'.indexSequence
            /\ EntriesOf(checkpoint) \subseteq EntriesOf(checkpoint')
        BY <2>1, <2>3, <2>5, <3>1
           DEF CheckpointAccepts, ValidateCheckpoint, RetainsHistory, Indexes
      <3> QED
        BY <2>3, <2>5, <3>1, <3>2 DEF AcceptedHistory!Accept
    <2> QED
      BY <2>4, <2>5
  <1> QED
    BY <1>1, <1>2, InductiveHolds, PTL DEF Spec, AcceptedOnlyGrows, AcceptedHistory!Spec

\* While no launcher has died under its consumer, a target never goes back to
\* an older release.
THEOREM NoRollbackWithoutOrphan == Spec => InstalledNeverRollsBack
  <1> DEFINE Monotone == \A t \in Target : installed'[t] >= installed[t]
             NoOrphan == \A r \in Run : ~Orphan(r)
  <1>1. Inductive /\ [Next]_vars => [NoOrphan => Monotone]_vars
    <2> SUFFICES ASSUME Inductive, Next, NoOrphan, NEW t \in Target
                 PROVE  installed'[t] >= installed[t]
      BY DEF vars
    <2>1. installed[t] \in Nat
      BY DEF Inductive, TypeOK
    <2>2. CASE \E r \in Run : \E u \in Target : ConsumerWrite(r, u)
      <3>1. PICK r \in Run, u \in Target : ConsumerWrite(r, u)
        BY <2>2
      <3>2. pc[r] = "consuming"
        BY <3>1 DEF ConsumerWrite, Orphan
      <3>3. /\ checkpoint = IndexOf(r)
            /\ IndexOf(r) \in Indexes
            /\ WellOrdered(IndexOf(r).releases)
            /\ run[r].manifest = Newest(IndexOf(r))
        BY <3>2, CaptureType
           DEF Inductive, ValidatedStaysValid, RunsIdentified, Identified, Identifying, Critical
      <3>4. run[r].manifest.manifestSequence \in Nat
        BY <3>3, NewestIsGreatest, EntriesType DEF Entries
      <3>5. CASE u # t
        BY <2>1, <3>1, <3>5 DEF ConsumerWrite, Inductive, TypeOK
      <3>6. CASE u = t
        <4>1. installed'[t] = run[r].manifest.manifestSequence
          BY <3>1, <3>6 DEF ConsumerWrite, Inductive, TypeOK
        <4>2. CASE installed[t] = 0
          BY <3>4, <4>1, <4>2
        <4>3. CASE installed[t] # 0
          <5>1. PICK e \in EntriesOf(checkpoint) : e.manifestSequence = installed[t]
            BY <4>3 DEF Inductive, AuthorizedStaysAccepted
          <5>2. e.manifestSequence <= run[r].manifest.manifestSequence
            BY <3>3, NewestIsGreatest
          <5> QED
            BY <2>1, <3>4, <4>1, <5>1, <5>2
        <4> QED
          BY <4>2, <4>3
      <3> QED
        BY <3>5, <3>6
    <2>3. CASE ~(\E r \in Run : \E u \in Target : ConsumerWrite(r, u))
      <3>1. ASSUME NEW r \in Run, Launcher(r) PROVE UNCHANGED installed
        BY <3>1 DEF Launcher, Reproduce, ReproduceAgain, ThresholdRun, ReadRelease, ReadOffline,
                    ReportOffline, Preflight, Stage, RecheckExpiry, Acquire, Revalidate,
                    WriteCheckpoint, Report, Launch, Reap, processes
      <3>2. UNCHANGED installed
        BY <2>3, <3>1 DEF Next, Tick, Configure, CheckOut, Start, Die, Consumer, ConsumerExit,
                          processes
      <3> QED
        BY <2>1, <3>2
    <2> QED
      BY <2>2, <2>3
  <1> QED
    BY <1>1, InductiveHolds, PTL DEF Spec, InstalledNeverRollsBack
-----------------------------------------------------------------------------
(* What the launcher is to the root verifier and to its consumers *)

\* The threshold verifier records a statement only if it is of a higher
\* sequence than the one it has.
LEMMA ThresholdAdvances ==
    ASSUME TypeOK, NEW r \in Run, NEW from, NEW to, from # "idle", ThresholdRun(r, from, to),
           rootCheckpoint' # rootCheckpoint
    PROVE  /\ rootCheckpoint' # None
           /\ rootCheckpoint'.releaseSequence \in Nat \ {0}
           /\ rootCheckpoint # None =>
                 /\ rootCheckpoint.releaseSequence \in Nat
                 /\ rootCheckpoint.releaseSequence < rootCheckpoint'.releaseSequence
  <1> DEFINE statement == run[r].config.statement
  <1>1. /\ ThresholdAccepts(statement)
        /\ rootCheckpoint' = statement
        /\ pc[r] = from
    BY DEF ThresholdRun, Advance
  <1>2. statement \in Statements
    BY <1>1, CaptureType
  <1>3. statement # None /\ statement.releaseSequence \in Nat \ {0}
    BY <1>2 DEF Statements
  <1>4. rootCheckpoint # None => rootCheckpoint.releaseSequence \in Nat
    BY DEF TypeOK, Statements
  <1>5. rootCheckpoint # None => rootCheckpoint.releaseSequence < statement.releaseSequence
    BY <1>1 DEF ThresholdAccepts
  <1> QED
    BY <1>1, <1>3, <1>4, <1>5

\* Only the two runs of the threshold verifier move the root checkpoint.
LEMMA RootMoves ==
    ASSUME [Next]_vars, rootCheckpoint' # rootCheckpoint
    PROVE  \E r \in Run : Reproduce(r) \/ ReproduceAgain(r)
  <1>1. ASSUME NEW r \in Run, Launcher(r), ~Reproduce(r), ~ReproduceAgain(r) PROVE FALSE
    BY <1>1 DEF Launcher, ReadRelease, ReadOffline, ReportOffline, Preflight, Stage,
                RecheckExpiry, Acquire, Revalidate, WriteCheckpoint, Report, Launch, Reap
  <1> QED
    BY <1>1 DEF Next, Tick, Configure, CheckOut, Start, Die, Consumer, ConsumerWrite,
                ConsumerExit, vars

\* The verifier that is one step of a run implements the trusted state that
\* the step-by-step model of the verifier implements too.
THEOREM RootCheckpointRefinesTrustedState == Spec => ReleaseOnlyAdvances
  <1>1. Init => TrustedState!Init
    BY DEF Init, TrustedState!Init
  <1>2. Inductive /\ [Next]_vars =>
          [TrustedState!Accept]_<<None, IF rootCheckpoint = None THEN 0 ELSE 1,
              IF rootCheckpoint = None THEN 0 ELSE rootCheckpoint.releaseSequence>>
    <2> SUFFICES ASSUME Inductive, [Next]_vars, rootCheckpoint' # rootCheckpoint
                 PROVE  TrustedState!Accept
      OBVIOUS
    <2>1. PICK r \in Run : Reproduce(r) \/ ReproduceAgain(r)
      BY RootMoves
    <2>2. /\ rootCheckpoint' # None
          /\ rootCheckpoint'.releaseSequence \in Nat \ {0}
          /\ rootCheckpoint # None =>
                /\ rootCheckpoint.releaseSequence \in Nat
                /\ rootCheckpoint.releaseSequence < rootCheckpoint'.releaseSequence
      BY <2>1, ThresholdAdvances DEF Inductive, Reproduce, ReproduceAgain
    <2>3. CASE rootCheckpoint = None
      BY <2>2, <2>3 DEF TrustedState!Accept
    <2>4. CASE rootCheckpoint # None
      BY <2>2, <2>4 DEF TrustedState!Accept
    <2> QED
      BY <2>3, <2>4
  <1> QED
    BY <1>1, <1>2, InductiveHolds, PTL DEF Spec, ReleaseOnlyAdvances, TrustedState!Spec

Gone == {r \in Run : pc[r] = "dead"}

\* A step of the launch sequence is a step of the fence, every other one a
\* stutter.
LEMMA FenceSimulation ==
    Inductive /\ [Next]_vars => [LaunchFence!Next]_<<lock, Gone, child>>
  <1> SUFFICES ASSUME TypeOK, Control, [Next]_vars
               PROVE  LaunchFence!Next \/ UNCHANGED <<lock, Gone, child>>
    BY DEF Inductive, Control
  <1> USE DEF Gone, TypeOK
  <1>1. CASE Tick \/ Configure \/ CheckOut \/ UNCHANGED vars
    BY <1>1 DEF Tick, Configure, CheckOut, processes, vars
  <1>2. ASSUME NEW r \in Run, NEW from, NEW ok, NEW to, Advance(r, from, ok, to),
               from # "dead", to # "dead"
        PROVE  UNCHANGED Gone
    BY <1>2 DEF Advance
  <1>3. ASSUME NEW r \in Run, NEW from, NEW to, from # "dead", to # "dead",
               ThresholdRun(r, from, to)
        PROVE  UNCHANGED <<lock, Gone, child>>
    BY <1>2, <1>3 DEF ThresholdRun, processes
  <1>4. ASSUME NEW r \in Run, NEW mode \in Modes, Start(r, mode)
        PROVE  UNCHANGED <<lock, Gone, child>>
    BY <1>2, <1>4 DEF Start, processes
  <1>5. ASSUME NEW r \in Run, Reproduce(r) \/ ReproduceAgain(r)
        PROVE  UNCHANGED <<lock, Gone, child>>
    BY <1>3, <1>5 DEF Reproduce, ReproduceAgain
  <1>6. ASSUME NEW r \in Run,
               \/ \E served \in PublishedIndexes : ReadRelease(r, served)
               \/ ReadOffline(r)
               \/ \E contentReady \in BOOLEAN : ReportOffline(r, contentReady)
               \/ Preflight(r)
               \/ \E contentReady \in BOOLEAN : Stage(r, contentReady)
               \/ RecheckExpiry(r)
        PROVE  UNCHANGED <<lock, Gone, child>>
    BY <1>2, <1>6 DEF ReadRelease, ReadOffline, ReportOffline, Preflight, Stage, RecheckExpiry,
                      processes
  <1>7. ASSUME NEW r \in Run, Acquire(r) PROVE LaunchFence!Take(r)
    <2>1. UNCHANGED <<Gone, child>>
      BY <1>2, <1>7 DEF Acquire, processes
    <2>2. pc[r] = "cleared" /\ child[r] = "none"
      BY <1>7 DEF Acquire, Advance, Control, ChildOfLauncher
    <2> QED
      BY <1>7, <2>1, <2>2 DEF Acquire, LaunchFence!Take
  <1>8. ASSUME NEW r \in Run, pc[r] \in Critical, child[r] # "running",
               lock' = lock \/ lock' = None, UNCHANGED <<Gone, child>>
        PROVE  LaunchFence!Release(r) \/ UNCHANGED <<lock, Gone, child>>
    BY <1>8 DEF LaunchFence!Release, Control, LockHeld
  <1>9. ASSUME NEW r \in Run, Revalidate(r)
        PROVE  LaunchFence!Release(r) \/ UNCHANGED <<lock, Gone, child>>
    <2>1. /\ pc[r] \in Critical /\ child[r] # "running"
          /\ lock' = lock \/ lock' = None
      BY <1>9 DEF Revalidate, AdvanceLocked, Advance, Critical, Control, ChildOfLauncher
    <2>2. UNCHANGED <<Gone, child>>
      BY <1>2, <1>9 DEF Revalidate, AdvanceLocked, processes
    <2> QED
      BY <1>8, <2>1, <2>2
  <1>16. ASSUME NEW r \in Run, NEW written \in BOOLEAN, WriteCheckpoint(r, written)
         PROVE  LaunchFence!Release(r) \/ UNCHANGED <<lock, Gone, child>>
    <2>1. /\ pc[r] \in Critical /\ child[r] # "running"
          /\ lock' = lock \/ lock' = None
      BY <1>16 DEF WriteCheckpoint, AdvanceLocked, Advance, Critical, Control, ChildOfLauncher
    <2>2. UNCHANGED <<Gone, child>>
      BY <1>2, <1>16 DEF WriteCheckpoint, AdvanceLocked, processes
    <2> QED
      BY <1>8, <2>1, <2>2
  <1>10. ASSUME NEW r \in Run, NEW intact \in BOOLEAN, Report(r, intact)
         PROVE  LaunchFence!Release(r) \/ UNCHANGED <<lock, Gone, child>>
    <2>1. /\ pc[r] \in Critical /\ child[r] # "running"
          /\ lock' = lock \/ lock' = None
      BY <1>10 DEF Report, Advance, Critical, Control, ChildOfLauncher
    <2>2. UNCHANGED <<Gone, child>>
      BY <1>2, <1>10 DEF Report, processes
    <2> QED
      BY <1>8, <2>1, <2>2
  <1>11. ASSUME NEW r \in Run, Reap(r)
         PROVE  LaunchFence!Release(r) \/ UNCHANGED <<lock, Gone, child>>
    <2>1. /\ pc[r] \in Critical /\ child[r] # "running"
          /\ lock' = lock \/ lock' = None
      BY <1>11 DEF Reap, Advance, Critical
    <2>2. UNCHANGED <<Gone, child>>
      BY <1>2, <1>11 DEF Reap, processes
    <2> QED
      BY <1>8, <2>1, <2>2
  <1>12. ASSUME NEW r \in Run, NEW intact \in BOOLEAN, Launch(r, intact)
         PROVE  \/ LaunchFence!Launch(r)
                \/ LaunchFence!Release(r)
                \/ UNCHANGED <<lock, Gone, child>>
    <2> DEFINE ok == intact /\ ParseIndex(IndexOf(r), clock)
    <2>1. pc[r] \in Critical /\ child[r] = "none" /\ lock = r
      BY <1>12 DEF Launch, AdvanceLocked, Advance, Critical, Control, LockHeld, ChildOfLauncher
    <2>2. /\ UNCHANGED Gone
          /\ lock' = IF ok THEN lock ELSE None
          /\ child' = [child EXCEPT ![r] = IF ok THEN "running" ELSE "none"]
      BY <1>2, <1>12 DEF Launch, AdvanceLocked
    <2>3. CASE ok
      BY <2>1, <2>2, <2>3 DEF LaunchFence!Launch
    <2>4. CASE ~ok
      <3>1. UNCHANGED child
        BY <2>1, <2>2, <2>4
      <3> QED
        BY <1>8, <2>1, <2>2, <2>4, <3>1
    <2> QED
      BY <2>3, <2>4
  <1>13. ASSUME NEW r \in Run, Die(r) PROVE LaunchFence!Die(r)
    <2>1. r \notin Gone /\ Gone' = Gone \cup {r}
      BY <1>13 DEF Die, Finished
    <2> QED
      BY <1>13, <2>1 DEF Die, LaunchFence!Die, processes
  <1>14. ASSUME NEW r \in Run, NEW t \in Target, ConsumerWrite(r, t)
         PROVE  UNCHANGED <<lock, Gone, child>>
    BY <1>14 DEF ConsumerWrite
  <1>15. ASSUME NEW r \in Run, ConsumerExit(r) PROVE LaunchFence!Exit(r)
    BY <1>15 DEF ConsumerExit, LaunchFence!Exit
  <1> QED
    BY <1>1, <1>4, <1>5, <1>6, <1>7, <1>9, <1>10, <1>11, <1>12, <1>13, <1>14, <1>15,
       <1>16 DEF Next, Launcher, Consumer, LaunchFence!Next

\* The launcher is the fence that its consumers rely on: one child at a time
\* of the living launchers, and that one under the lock.
THEOREM LauncherImplementsFence == Spec => FencesConsumers
  <1>1. Init => LaunchFence!Init
    BY DEF Init, LaunchFence!Init
  <1> QED
    BY <1>1, FenceSimulation, InductiveHolds, PTL
       DEF Spec, FencesConsumers, LaunchFence!Spec, Gone
=============================================================================
