# IDC Skills: a verification project

TLA+ models of the parts of this repository that keep state and can go wrong
in time: the **freshness launcher** that decides whether a release may be
used, the **external root verifier** it relies on, the **consumers** it runs
(installer, export, fleet parity), the **skill integrity verifier** with the
PreToolUse hook, the **release builders** that publish what it signed, and the
**archipelago mission loop** with the execution of its gates. TLC checks them on
small instances; TLAPS proves every safety property those runs find to hold, for
every value of the constants (some for serial use only, or until a launcher is
killed under its consumer, as section 5 says). Of each document claim that
TLC refutes, TLAPS also proves a condition under which it holds.

Paths below are relative to the repository (`src/` is its root).

## 1. The system

| Component | State it keeps | Operations | Interacts with |
| --- | --- | --- | --- |
| **Freshness launcher** `bootstrap/idc_verify_fresh.py` | freshness checkpoint file, `checkpoint.lock` (an flock) | `verify_release` in modes verify, consume (`--consumer`), offline | runs the external root verifier twice and a consumer child; reads the operator's configuration and the candidate checkout |
| **Release index** `parse_index`, `validate_checkpoint`; twin in `scripts/trust_root.py` | none (data) | parse, compare with checkpoint | launcher, root verifier |
| **External root verifier / trust root** `scripts/verify_external_root.py`, `scripts/trust_root.py` | root checkpoint file | root chain, thresholds, release statement, checkpoint transition | subprocess of the launcher |
| **Native installer** `scripts/install.py` | the skill directories of up to four harness roots, an export directory, staging and backup directories | `run_install`, `--verify-only`, dry run, Claude.ai exports | started by the launcher as its consumer, or directly |
| **Skill integrity verifier** `scripts/skill_integrity.py` | `integrity/manifest.json` and its detached signature | manifest, sign, verify a repository or one skill directory | reads the working tree; used by launcher, installer, hook, builders |
| **PreToolUse hook** `scripts/pretooluse-skill-integrity.py` | none | one decision per tool call | verifies the repository, then reads the installed skill |
| **Fleet parity** `scripts/verify_fleet_parity.py` | none | compare the roots | consumer under the launcher's lock |
| **Trust metadata builder** `scripts/build_trust_metadata.py` | release index, release archive, release payload | release-index, release-archive, release-payload; offline envelopes | reads HEAD, tags and the working tree; produces what launcher and trust root read |
| **Mission loop** `skills/archipelago/protocol/scripts/{kickoff,loop}.py` | `ops/mission/state.json`, `ledger.jsonl`, evidence files, the rendered page | kickoff, run-gates, fail, advance, close-phase, status, verify-ledger | gate commands as subprocesses with two pipes |
| **Validators, generators, console, other skills** | none, or build output | one pass over documents | continuous integration |

Where the difficulty is, and what makes each part correct:

- *Launcher.* Several launchers may run at once on one host, and any of them
  may be killed. The checkpoint is read under the lock, the lock is dropped for
  the long content verification, and it is taken again for check, write and
  consumer. In between, the operator may replace configuration and checkout,
  time passes, and other runs move both checkpoints. Correct: what was accepted
  stays accepted (no rollback, no second history for one sequence), a consumer
  runs only under the checkpoint its launcher wrote, an older release is not
  installed over a newer one, the two checkpoints never contradict each other,
  and every run ends.
- *Root verifier.* It is meant to be run again and again, by hand and by
  launchers, against whatever files a mirror serves. One locked transaction reads
  the checkpoint, verifies a chain of roots and a statement, and replaces the
  checkpoint by a named temporary file; a kill leaves that file behind. Correct:
  each accepted root follows from the one before by signed rotations, the
  recorded release is authorised by the recorded root, nothing goes back, and
  every verifier ends.
- *Consumers.* A skill directory is replaced by two renames with copying and
  checking around them, a rollback in an `except` clause and a second one in a
  `finally` clause that also deletes. Every call may fail, the process may be
  killed, and the checkout it copies from may be edited after its signature was
  checked. Correct: a complete old or new copy always exists, a failed
  replacement restores what it found, nothing of another installer is deleted,
  no unsigned byte reaches a destination, a report of success means every
  promised copy is in place, and parity passes only over an equal fleet.
- *Integrity.* `verify` reads the tree file by file and twice over, with a fetch
  of remote pins in between, while editors, `manifest` and `sign` work on the same
  files; nothing is locked. The hook goes on from there to the installed skill,
  which an installer may be replacing. Correct: what is called ready was the
  tree of one instant, its findings are those of its bytes and exactly the
  permitted ones, and what the hook allows was the signed directory of one
  instant.
- *Builders.* A command pins HEAD, captures the manifest, lists the commit HEAD
  names by then, compares, and looks at HEAD again at the end, while commits,
  tags and edits go on and HEAD is moved. Correct: an archive and a payload are of
  one whole commit, so is every entry of an index (with one exception, section 6),
  and a new index is one every launcher accepts over the checkpoint it was built
  from.
- *Mission loop.* Each command loads the whole document, works for as long as
  its gates take, appends to the ledger and writes the whole document back.
  There is no lock and the write is not atomic. Correct: the ledger is an intact
  chain, nothing counts as passed or closed without a passing run in it, a
  failure is not forgotten, and the document is of one piece.
- *One gate.* Two daemon threads drain two pipes into one evidence file under one
  budget, while the main thread waits, times out, signals a process group and
  joins; a child of the gate may survive all signals with a pipe in its hand.
  Correct: the budget holds, output that is not in the evidence is declared, a
  recorded pass ended by itself in time, nothing is written after the record, and
  the gate ends.

The `hazards` list in `PROJECT.json` names each such point at its line, with the
properties that cover it or the reason none does.

## 2. The plan

Order: what decides about releases first, then what writes to users' machines,
then the mission protocol; pure parsing and formatting last or never.

| Step | Modules | State |
| --- | --- | --- |
| 1 | `ReleaseIndex`, `Freshness`, abstract `AcceptedHistory`, `MCFreshness`, `FreshnessProofs` | done: modelled, checked, safety proved |
| 2 | `InstallTxn`, abstract `AtomicFleet`, `MCInstallTxn`, `InstallProofs` | done: install, export, verify-only, dry run and fleet parity as one family of consumers; modelled, checked under their launchers in step 8, safety proved |
| 3 | `Mission`, abstract `GatedMission`, `MCMission`, `MissionProofs`, `MissionRefines` | done: modelled, checked, safety and the refinement proved |
| 4 | `RootChain`, `TrustRoot`, abstract `TrustedState`, `MCTrustRoot`, `TrustRootProofs` | done: modelled, checked, safety proved |
| 5 | `GateExec`, `MCGateExec`, `GateExecProofs` | done: modelled, checked, safety proved |
| 6 | `Integrity`, `IntegrityProofs` | done: modelled, checked (in the run of step 7), safety proved |
| 7 | `Publish`, which extends `Integrity` and uses `ReleaseIndex`, `MCPublish`, `PublishProofs` | done: modelled, checked, safety proved |
| 8 | `LaunchedInstall`: launchers and `InstallTxn`'s consumers, abstract `LaunchFence`, `MCLaunched` | done: modelled, checked (the run of step 2 too), safety and both refinements proved (in `InstallProofs`) |

Abstract specifications: `AcceptedHistory` and `TrustedState` (what the two
checkpoints promise), `LaunchFence` (what the checkpoint lock promises the
consumers), `AtomicFleet` (what the installer promises of the skill directories)
and `GatedMission` (what the protocol promises). Two of them are implemented
twice, which is how the models fit together: `TrustedState` by `TrustRoot` in
many steps and by the launcher's one-step verifier, `LaunchFence` by `Freshness`
with its consumer abstracted and by `LaunchedInstall` with its launcher
abstracted. Runs are few: one per question.

What would come next: `GateExec` shown to implement `Mission`'s one-step
`ExecuteGate`, the Windows branch of `execute_gate`, and the encodings of `build_trust_metadata.py` that only a
property about formats would need.

Modules are written to be proved about: parameters are CONSTANTS with named
assumptions, one action per step of the code, no RECURSIVE operator, invariants
in named parts. `Freshness` lists its inductive invariant itself, so TLC can
check what TLAPS proves.

## 3. The modules and the code

**`ReleaseIndex`** is data: entries, indexes, `ParseIndex` (`parse_index`),
`ValidateCheckpoint` (`validate_checkpoint`). SHA-256 is taken to be injective,
so digests are the things digested. An entry's `content` stands for the
manifest, verifier and launcher digests and the commit, which are only compared
for equality. A checkpoint stores sequence, digest and entries of one index,
and is therefore modelled as that index.

**`Freshness`** is the launcher. A run is one process; `pc` is how far
`verify_release` has come, `run` what it captured at start and when it read the
manifest. Its actions in order:

| Action | Code |
| --- | --- |
| `Start` | captures of configuration, receipt, tools (1691-1735) |
| `Reproduce`, `ReproduceAgain` | `_run_threshold_verifier`; the verifier's own checkpoint write precedes the comparison of its output |
| `ReadRelease`, `ReadOffline`, `ReportOffline` | manifest, index, expiry, floors, release tuple; offline mode's shortcut |
| `Preflight` | first critical section, one step because it only reads |
| `Stage` | content verification of the staged copy, re-reads of manifest and configuration |
| `RecheckExpiry` | the second clock check |
| `Acquire`, `Revalidate`, `WriteCheckpoint` | the second critical section |
| `Report`, `Launch`, `Reap` | verify mode's end; consumer start and end with the lock held |
| `Die` | SIGKILL: the kernel drops the flock, the child lives on |
| `ConsumerWrite`, `ConsumerExit` | the child, one step for each target it writes |
| `Tick`, `Configure`, `CheckOut` | the clock, and an operator who may act at any moment |

The checkpoint is written to a temporary file and renamed, so its write is one
step; it may fail before the rename, or after it, when the directory is flushed
and the checkpoint has moved under a run that is refused. A refusal anywhere is exit code 2 (`refused`); under the lock the
`finally` clause releases it (`AdvanceLocked`). Content verification and the
checks of the staged copy are choices over both outcomes. The modelled consumer
is the installer.

**`AcceptedHistory`** has two variables: the set of accepted entries and the
sequence they were accepted under. The history grows only with a strictly higher
sequence. `AcceptedOnlyGrows` is that specification under the mapping "history
is the set of the checkpoint's entries".

**`LaunchFence`** has launchers, the holder of the lock and the life of each
launcher's child. `FencesConsumers` maps `Freshness` to it: holder is `lock`, gone
the dead runs, child the consumer.

**`RootChain`** is data: envelopes with their signatures, roots with their two
roles, release statements, and what `trust_root.py` computes of them
(`ParseEnvelope`, `ParseRoot`, `MeetsThreshold`, `Rotation`, `VerifyRootChain`,
`ValidateRootCheckpoint`, `VerifyStatement`). A signature is a key id and
whether `ssh-keygen` verifies it. The checkpoint stores a root's version and
digest and a statement's sequence and digest; the model stores the root and the
signed payload. As in the code the checkpoint is compared with the statement
before any signature of the statement has been checked.

**`TrustRoot`** is `verify_external_root.py`. `Start` takes the command line,
`Acquire` the flock, `ReadCheckpoint`, `CheckChain`, `CheckCheckpoint` and
`CheckStatement` are the steps of `verify_external_release`, each reading its
files when it comes to them, so `Deploy` may replace files in between.
`OpenTemporary`, `Replace` and `Finish` are the write: exclusive creation under a
name made of the process id, rename, directory synchronisation. A refusal
anywhere releases the lock and removes the temporary file (`Advance`); `Die`
releases only the lock. `Pid` is small, so process ids are reused. The artifact,
archive and Git comparisons are one choice (`bound`).

**`TrustedState`** has the accepted root, its version and the release sequence;
`TrustOnlyAdvances` maps the checkpoint to it. `Freshness` keeps the verifier
as one step (`ThresholdRun`) with a fixed root, which is where it ends when no
root rotates. `ReleaseOnlyAdvances` says that this step keeps the promise of
`TrustedState` too.

**`InstallTxn`** is every consumer the launcher runs on a fleet. A process has a
`job`: an install or an export, each writing, `--verify-only` or `--dry-run`, or
fleet parity. All authenticate their checkout first (`VerifySources`). An
install goes through `_preflight_install` (`Preflight`: optional targets whose
harness is absent, aliases of a path an earlier target serves, destinations that
are no directories) and walks over targets and skills (`NextSlot`, `Finish`):
`_sync_skill` is `SyncEqual`, `SyncReport`, `SyncRefuse`, `SyncChange`. An export
copies its sources first (`StageSources`) and then makes one replacement at its
output. Both run the same transaction, `_transactional_copy` and
`_replace_export`, which is every file-system step of the swap with its flags
`movedOld`, `movedNew`, `committed`, the `except` clause (`Rollback` to
`Restore`) and the `finally` clause (`RestoreAgain` to `DropStaging`). Parity
reads a root's inventory (`ReadRoot`) and compares its skills (`CompareSkill`).
A tree is a version and whether it is whole; `checkout` is what a process's
source directory holds, which `Edit` changes to a version under no signature.
`Faults` selects which calls may fail, whether a process may be killed between
two calls, whether a checkout is edited, and whether another program may create
a file in a free place (`Obstruct`). Private directories a killed or failing run
leaves behind are `litter`. Nothing in this module keeps two consumers apart.

**`AtomicFleet`** is that fleet without staging, backups or steps: a place takes a
complete released copy at once, and anything worse comes together with a run
that reports failure or was killed. `ReplacesAtomically` maps a step to it by
counting, at a place whose replacement is under way, what the replacement has
found there and would put back: an ordinary replacement commits in one step, and
one that loses its copies does so in the step in which the run's failure is sure.
`LaunchedReplacesAtomically` says it of every step until a launcher is killed
under its consumer.

**`LaunchedInstall`** puts a launcher beside every consumer of `InstallTxn`.
`TakeLock`, `RunConsumer` and `GiveLock` are the checkpoint lock around the
consumer; `LauncherDies` frees the lock while the consumer lives on, and
`orphaned` remembers that it did. A launcher killed before it has the lock is one
that never runs, and one killed when its consumer has ended does what `GiveLock`
does, so `LauncherDies` is the rest. A consumer's own steps are `Work`. What a
launcher decides before the lock is `Freshness` and touches none of this. The
properties of the consumers are stated here, because without the lock they do
not hold.

**`Mission`** is `kickoff.py` and `loop.py`. A process is one command; `doc` is
its copy of the document, `entry` what it is about to append, `tip` what it has
read of the ledger, `turn` the gate of its phase that `run-gates` is at. `ReadTip`, `CheckTip` and `AppendEntry` are the three moments
of `ledger_append`; `SaveOpen` and `SaveWrite` the two of `write_text`. A ledger
entry stores the position of the entry it was chained to instead of its hash.
`approved` is the binding of `idea.lock` and `plan.lock` to the document, which
`Drift` breaks. Left out: the rendered page, the journal and timestamps (nothing
reads them back), the fields of a ledger entry nothing compares, and the inside
of one gate execution (`ExecuteGate` chooses the verdict, `CustodyLost` is the
exit when evidence was touched), which is `GateExec`.

**`GatedMission`** is the protocol as if each command took effect at one
instant: failures stay until a run passes the gate, a phase closes only over
passed gates without open failures, the stage moves back only with a failure.
`FollowsProtocol` maps `state.json` to it; while a command is between truncating
and writing the file, the document being written stands for it.

**`Integrity`** is `skill_integrity.py` and the hook. A process of `Tool` runs
manifest, sign or verify. The tree is one content number per tracked file.
`build_manifest` is a pass along `Plan`, the order in which it reads files, some
of them more than once: policy and registry are parsed, each skill file is
scanned and then hashed, the control files are hashed, every tracked file is
hashed for `repositoryFiles`, and the policy once more. `Read` is one read; a
manifest is what the reads contributed.

| Action | Code |
| --- | --- |
| `Read`, `Built`, `Truncate`, `Flush` | `cmd_manifest`: a pass, judged, and the two moments of `write_bytes` |
| `Load`, `Unlink`, `ReadToSign`, `Emit` | `cmd_sign`: the check, then `ssh-keygen`, which opens the manifest again |
| `Capture`, `Authenticate` | the signed inputs captured once and authenticated |
| `Compare`, `Fetch`, `Confirm` | first snapshot, remote pins, final snapshot of `verify_repository` |
| `Authorize`, `Look`, `LookAgain`, `Decide` | the hook: `verify_skill_directory`'s two captures of the installed skill |
| `Edit`, `EditInstalled` | editors of the tree, installers of the skill |

`heldTree` and `heldSkills` are auxiliary: the files at the one instant the
properties are about. No action reads them.

**`Publish`** extends `Integrity` with Git and the three builders of
`build_trust_metadata.py`. A builder follows its `Script`, the lines of the
command in order; `base` is the HEAD it pinned, `peer` the commit HEAD named when
`git ls-tree` ran, `product` what it will write. `CompareFile` compares one file
with its record and with the commit. `Commit`, `MoveHead`, `Tag`, `Resign`, `Edit`
and `AcceptIndex` happen around it. `MoveHead` is `git reset --soft`: HEAD names
another commit, forth or back, and the files stay. `returned` and `doubted` are
auxiliary and no action reads them: the index builders under which HEAD went back
to the commit they had pinned, and the commit and manifest of the entries such
builders wrote. Indexes and their transition are those of `ReleaseIndex`, which the
launcher uses too. The guards `NarrowTools`, `NarrowCommit`, `NarrowBuilder`,
`NarrowTags` and `NarrowHead` are bounds, off unless the constant `Narrow` is true.

**`GateExec`** is `execute_gate` with `stream_gate_pipe` and
`terminate_gate_process`. Output is counted in units. `leader` is the gate's
shell, `child` something it left running, which may have left the process group.
A reader thread calls read (`CallRead`), gets a chunk (`ReadChunk`) or the end
(`ReadEnd`), takes the lock (`Look`) and writes what fits into the budget
(`WriteChunk`). The main thread is `Launch`, the waits (`WaitExit`, `Expire`,
`GraceOver`, `KillUnanswered`), the signals (`Poll`, `Term`, `Kill`), the joins
(`Join`, `Close`, `Rejoin`) and the completion record (`Record`, `Hash`). The pipe
object is locked while a thread is inside read, so `Close` waits for it.

## 4. What the runs check

| Run | Instance | Shows |
| --- | --- | --- |
| `FreshnessUpgrade` | 2 runs, 2 configurations, instants 0-2, 1 target | `ConsumerFence`, `RootCoversAccepted`, `FencesConsumers`, `EveryRunEnds` for an upgrade with expiry, kills and operator changes |
| `FreshnessFork` | 2 runs, 8 configurations, instant 0, 1 target | `AuthorizedStaysAccepted`, `AcceptedOnlyGrows`, `InstalledNeverRollsBack` against forked, shortened and repeated indexes and a wrong receipt |
| `FreshnessOrphan` | as upgrade | **violated**: `NoOlderOverwrite` |
| `TrustRoot` | 2 verifiers, 2 process ids, 8 deployments, 4 keys, chains of up to 3 roots, instants 0-1, kills | `AcceptedIsAuthorized`, `RotationsAreSigned`, `TrustOnlyAdvances`, `EveryVerifierEnds` |
| `LaunchedInstall` | 2 launchers with a consumer each, 4 kinds of job, 2 versions, 3 targets over 2 roots and an output, 1 skill; every fault, kills of launchers and consumers | `EditedNeverLands`, `LaunchedLosesNothing`, `LaunchedRollsBack`, `LaunchedReportsTruly`, `LaunchedReplacesAtomically` |
| `InstallLoss` | 1 consumer, 1 target, 1 skill; verify and removal failures | **violated**: `OldOrNewSurvives` |
| `MissionSerial` | 4 commands, one at a time, 1 phase, 2 gates, kills | `ChainIntact`, `PassedIsLatestVerdict`, `LoopbacksNeverSwept`, `RepoIsTheMemory`, `FollowsProtocol` |
| `MissionOverlap` | 4 commands, two at a time, 2 phases | `DocumentConsistent`, `PassedHasEvidence` |
| `MissionSwept` | 3 commands, two at a time | **violated**: `LoopbacksNeverSwept` |
| `MissionTorn` | 3 commands, one at a time, kills inside the write too | **violated**: `RepoIsTheMemory` |
| `ReleaseTooling` | 2 tools, one skill file, one control file, policy, registry, 2 contents each of skill file and registry, 2 commits | `ReadyIsOneTree`, `ReadyIsReviewed`, `HookAllowsInstalled`, `IndexNamesItsTree`, `IndexExtendsCheckpoint`, `StatementIsCoherent` |
| `GateExec` | 1 gate, 2 readers, 3 units a stream, chunk 2, frame 1, limit 4, a child | `WithinBudget`, `LossIsTold`, `PassedEndedInTime`, `NothingAfterRecord`, `GateEndsWithItsChildren` |

Each passing property has a mutant in `PROJECT.json`: an alternative definition
in the module, commented "Fault for mutation runs", that breaks it under the
same configuration.

**Bounds.** *Launcher:* a conflict on the lock or the checkpoint needs a run that
checked early and one that moved the checkpoint in between, so two runs suffice;
the theorems are for any number. `MaxClock` 2 lets the first index (valid until
2) expire between any two steps while the second is still valid; forks do not
depend on time and are run at one instant. One target is enough to be overwritten;
the proofs have any number. *Root verifier:* two verifiers are one that accepted and one that comes after or
races it; the theorems are for any number. Two updates (`MaxUpdates`, 32 in the
code) are the least at which an intermediate root can be substituted. The
deployments hold a withheld rotation, one signed by its own role alone, a
properly signed second history, a re-pinned initial root, an expired final root,
and statements with too few distinct, authorised and valid signatures.
*Consumers:* the lock lets one act at a time, so a second launcher is what it
keeps out, and its consumer matters for what the first one leaves behind, and as
parity for what it calls equal. The
three targets are a required one, an optional one and an alias of the first; two
roots show a failure in one and service of the other. `Together` ends a behaviour
once a launcher is killed: every property of the run is about the time until one is
killed under its consumer, and one killed before it has a consumer is one that never
runs. `OneTrouble` and `Undisturbed` allow a killed consumer, an edited checkout
or a file in the way one at a time, since each suffices to send a step to its error
path, and all pairs of them together grew the states beyond TLC's minutes. The same
goes for dry runs, which write nothing and whose report promises nothing: they are
in the model and the theorems, and in no run. One skill a root: two skills multiply
the states out of reach on two roots, so the skipping of a root's remaining skills
after a failure (`NextSlot`) is checked no further than by its reading, and by the
theorems, which have any number. *Integrity and publish:* contents are
fresh numbers and grow, so no file goes back to what it was; a file restored
between two reads would pass for the same, which is all a digest can tell. One
skill file is enough to be scanned and hashed at different moments, `s` and the
registry are the two that are edited (`Editable`): the one whose findings change
and the one that names the release. Before the first commit two tools run side
by side (`NarrowTools`), each command at most once at a time, since verify and hook
write nothing; afterwards one builder runs alone among commits, edits, moves of
HEAD and signed rebuilds (`Resign`). It starts at the newest commit and before there
is a payload, which nothing replaces (`NarrowBuilder`); tags are made and indexes
accepted when none runs (`NarrowTags`), which loses nothing for a tag, since a
builder reads it once and one made under it at its own commit could be made before
it starts; HEAD is moved back under a builder that has pinned it (`NarrowHead`), the
only time it matters to one. The first commit is made with the installed skill
unedited, which no builder reads (`NarrowCommit`). The theorems hold with these
bounds on or off, but `MaxCommits`. Two commits are the least with a HEAD that moves
away and back, two contents of the registry the least with a successor release.
`Times` has one instant: an index over a checkpoint of the same instant is refused,
so the successor indexes are those over a genesis checkpoint of instant 0, and a
sequence never gets past `MaxSequence` 2. *Gate:* three units and chunks of two make a whole chunk and a rest;
a limit of four is met inside the second framed chunk, and by both streams
together. *Mission:* four
commands are kickoff, run, and two more that may use stale copies or complete a
close; `AtOnce` 2 is the least that overlaps. A killed command differs from one
never scheduled again only in its freed place among the `AtOnce`, so the
overlapping run needs no kills. Stages are all eight.

**Symmetry** is used for run and process identities where only safety is
checked; `FreshnessUpgrade` and `TrustRoot` check liveness and use none.

**Fairness** (`FairSpec`): weak fairness of each started launcher, of each
consumer and of each started root verifier. All are processes the operating system schedules. A waiter on the
flock is enabled whenever the lock is free; the other holders are finitely many
single invocations, so it stays free in the end and weak fairness is enough.
Nothing forces a run to start or anything to die. A consumer that never ends is
outside this assumption: `subprocess.run` then waits, with the lock held.
`GFairness` of the gate: the main thread runs, the waits it has given a timeout
expire or are answered, the two readers run, and what has been sent SIGKILL dies.
Nothing makes the gate's shell exit or heed SIGTERM, and nothing makes a child end:
`GateEndsWithItsChildren` therefore promises the end only when no child holds a pipe
any more.

**Deadlock.** Launchers never stop as a system since the operator may always
act; the root verifier, consumer, mission, tooling and gate runs say `CHECK_DEADLOCK FALSE`
because their processes are single invocations and end; a gate may also hang
for good, see section 6.

## 5. What is proved

`FreshnessProofs`, for any set of runs, configurations, checkouts and targets
and any clock bound:

| Theorem | States |
| --- | --- |
| `InductiveHolds` | `Spec => []Inductive` |
| `TypeCorrect` | `Spec => []TypeOK` |
| `FenceHolds` | `Spec => []ConsumerFence` |
| `AuthorizationIsLasting` | `Spec => []AuthorizedStaysAccepted` |
| `RootNeverBehind` | `Spec => []RootCoversAccepted` |
| `CheckpointRefinesHistory` | `Spec => AcceptedOnlyGrows` (refinement) |
| `NoRollbackWithoutOrphan` | `Spec => InstalledNeverRollsBack` |
| `RootCheckpointRefinesTrustedState` | `Spec => ReleaseOnlyAdvances` (refinement) |
| `LauncherImplementsFence` | `Spec => FencesConsumers` (refinement) |

Assumptions: the ASSUMEs of `ReleaseIndex` and `Freshness`, all about the
shape of the constants (clock skew and lifetime are naturals, configurations
and checkouts are well-formed records, `None` is none of the values it stands
next to). TLC evaluates them in the launcher's runs.

The argument. None of the interesting properties is inductive. `Inductive` adds:

- `LockHeld`: exactly the run inside the second critical section holds the lock.
  Without it another run could write between check and consumer.
- `ValidatedStaysValid`: after `Revalidate` the verdict stays true, after
  `WriteCheckpoint` the checkpoint is this run's index. It follows from
  `LockHeld`, because only a run in that section writes the checkpoint.
- `RunsIdentified`: a run past the index checks has the newest entry of a
  well-ordered index as its manifest. What is installed later must be known to
  have been in the index that was accepted.
- `CheckpointWellOrdered`: so that sequences identify entries of the checkpoint,
  and the newest entry has the highest sequence.
- `ChildOfLauncher`: a child exists only past `Launch`; an orphan's launcher is
  dead.
- `RootCoversAccepted` and `AuthorizedStaysAccepted` themselves.

`FenceHolds` is then `LockHeld` and `ValidatedStaysValid`. Authorization lasts
because a transition retains the accepted entries. Without an orphan, the
only consumer that writes is the one whose launcher holds the lock, its release is
the newest entry of the checkpoint, and everything installed is some entry of
it: no target goes back. The last two refinements are step simulations: a threshold
run that moves the root checkpoint is an advance of `TrustedState`, everything else
a stutter; and by `LockHeld` and `ChildOfLauncher` each step on lock, child or death
is one step of `LaunchFence`.

`TrustRootProofs`, for any set of verifiers, process ids, keys, thresholds and
deployments and any bound on the chain:

| Theorem | States |
| --- | --- |
| `InductiveHolds` | `Spec => []Inductive` |
| `TypeCorrect` | `Spec => []TypeOK` |
| `AuthorizationHolds` | `Spec => []AcceptedIsAuthorized` |
| `RotationsHold` | `Spec => RotationsAreSigned` |
| `TrustAdvances` | `Spec => TrustOnlyAdvances` (refinement) |

Its assumptions are the ASSUMEs of `RootChain` and `TrustRoot`, again about
shapes. `Inductive` (TLC agrees with it on the instance of the run) says that the
lock belongs to the verifier inside the transaction, that the checkpoint a
verifier has read is therefore still the one on disk (`SeenIsCurrent`), that a
verified chain, a compared statement and a verified statement stay so while the
files they came from may be replaced, and `AcceptedIsAuthorized`. Each of the
steps is first reduced to its outcome (`StepOutcome`). Rotations: the old root is
some root of the verified chain, and the rest of the chain is the path to the new
one. Advance: a statement of the same sequence is the recorded one, so it names
the recorded root version, so the chain ends in the recorded root and the
checkpoint has not moved; hence every move raises the sequence.

`IntegrityProofs`, for any skill, any control files, contents, policies and
number of tools:

| Theorem | States |
| --- | --- |
| `IntegrityTypes` | `Spec => []TypeOK` |
| `ReadyIsAboutOneTree` | `Spec => []ReadyIsOneTree` |
| `ReadyWasReviewed` | `Spec => []ReadyIsReviewed` |
| `HookAllowsOneInstalled` | `Spec => []HookAllowsInstalled` |

Assumptions: `IntegrityAssumption` (shapes) and `NoManifestAssumption` (what
stands for no manifest or a truncated one is not a manifest). The argument: an
edit only raises a content, so what the first pass read of a file is at most
what it held when the pins were fetched (`heldTree`), and what the final pass
reads is at least that; the two manifests are equal, so every hash is the held
content. Within a pass a file is scanned before it is hashed, so the final pass's
scan lies between the held content and its own hash, which is the held one: its
findings, and so the first pass's equal ones, are the held findings. The lemma `PlanShape` says the few things about the order of
reads this needs. The hook is the same argument with its two captures of the
installed skill.

`PublishProofs`, for any files, tools, commits, tags and edits:

| Theorem | States |
| --- | --- |
| `BuildersKeepTypes` | `PSpec => []PTypeOK` |
| `IndexNamesWholeCommits` | `PSpec => []IndexNamesItsTree` |
| `IndexIsAccepted` | `PSpec => []IndexExtendsCheckpoint` |
| `StatementBindsOneCandidate` | `PSpec => []StatementIsCoherent` |
| `ReadyIsOneTreeBeside`, `ReadyIsReviewedBeside`, `HookAllowsBeside` | the three safety invariants of `Integrity` hold under `PSpec` too (its `TypeOK` is part of `PTypeOK`) |

Its assumptions are those of `ReleaseIndex`, `Integrity` and `Publish`, about
shapes. `PInv` is the invariant of `Integrity`, `World` (what has been published
is sound: every entry of an index is vouched for as `IndexNamesItsTree` says, the
index passes the checks of a launcher at the checkpoint it was built from, the
statement binds one candidate) and, for every builder, `Drafted`: what its unpublished product owes
at the line of its script. For `release-index` (`IndexDraft`) the new entry is the
pinned commit with the captured manifest; the files are compared with the commit
HEAD named when the tree was listed, which may be another one. HEAD comes to a
commit in two ways: a commit is new, hence no builder has pinned it, or HEAD is moved
to it, and then the index builders that have pinned it are in `returned`. So a
builder not in there that finds HEAD at the pinned commit at the recheck has had
it there when the tree was listed (`IndexDraft`): the two commits are the same. One
in `returned` has still compared its files with one whole commit, and what it writes
goes into `doubted`. `PayloadDraft` says that a payload's parts are of the pinned
commit, with which they are compared directly, wherever HEAD is.

`InstallProofs`, for any consumers, versions, targets and skills, any of the
faults, and any jobs:

| Theorem | States |
| --- | --- |
| `Inductive`, `TypeCorrect`, `NothingEditedLands` | `Spec => []IInv`, `Spec => []TypeOK`, `Spec => []EditedNeverLands` |
| `LaunchedInvariant` | `LSpec => [](IInv /\ LInv)` |
| `LaunchedKeepsTypes` | `LSpec => []TypeOK /\ []EditedNeverLands` |
| `LockLosesNothing` | `LSpec => []LaunchedLosesNothing` |
| `LockRollsBack` | `LSpec => []LaunchedRollsBack` |
| `LockReportsTruly` | `LSpec => LaunchedReportsTruly` |
| `LockReplacesAtomically` | `LSpec => LaunchedReplacesAtomically` (step simulation) |
| `LaunchedImplementsFence` | `LSpec => LaunchedUnderFence` (refinement) |
| `NothingIsLostUnlessBothFail` | `LSpec => [](~orphaned => OldOrNewSurvives)`, if no file is put in the way, and verification and removal do not both fail |

Assumptions: `InstallAssumption` (shapes; an edited skill has no signed version),
`NoTreeAssumption` (`None` and `NotDirectory` are no trees) and `NobodyAssumption`
(`None` is no launcher). Nothing is assumed about overlap: what keeps consumers
apart is proved from the lock.

The first three hold however consumers overlap: what a transaction may put at a
destination is its staged copy, which was found equal to the signed version and is
private, or what it moved away from there. For the others `LInv` says that until a
launcher is killed under its consumer at most one consumer works, its launcher
holds the lock, and for every consumer `Secure` holds (`FInv`): `Undoes` says, for
every step of the transaction, what the destination holds and what the backup
directory has saved; a file somebody puts in a free place cannot break it, because
the free place is one of the cases. `Served` says that a run without a failure has
installed every slot it has passed, `Chosen` that preflight's targets are apart and
serve every path the run answers for, also when the run itself creates a root;
`Compared` is the same for fleet parity. That the lock is free whenever somebody
takes it means that no consumer is running, so a consumer starts alone
(`LaunchedInTurn`), and that is all the preservation of `FInv` needs. Each of the
steps of a consumer is first reduced to one of two shapes (`Turns`, `Finishes`) or
is one of seven steps outside the transaction.

For `LockReplacesAtomically` the mapped content of every place is followed
through each step: at most one replacement is under way at a place, so the swap
itself is a stutter, the commit a `Replace`, and what a blocked rollback leaves is
part of a `Fail`. After an orphan the theorems promise nothing, and
`FreshnessOrphan` shows why. `NothingIsLostUnlessBothFail` is the other side of
`InstallLoss`: the condition it excludes, verification and removal both failing, is
the one under which TLC loses both copies.

Three of the theorems state what no run lists: `NothingIsLostUnlessBothFail` and
`LaunchedImplementsFence` here, and `RootCheckpointRefinesTrustedState` of
`FreshnessProofs`. TLC found no violation of the formulas on instances like those
of the runs before they were proved.

`MissionProofs`, for any phases, gates, routes and commands, overlapping and
killed anywhere:

| Theorem | States |
| --- | --- |
| `MissionSound` | `Spec => []MInv` |
| `MissionTyped` | `Spec => []TypeOK` |
| `NothingOnClaims` | `Spec => []PassedHasEvidence` |
| `OneDocument` | `Spec => []DocumentConsistent` |
| `SerialChain` | `Spec => []ChainIntact`, if `AtOnce = 1` |
| `SerialLastWord` | `Spec => []PassedIsLatestVerdict`, if `AtOnce = 1` |
| `SerialKeepsLoopbacks` | `Spec => []LoopbacksNeverSwept`, if `AtOnce = 1` |

and in `MissionRefines`:

| Theorem | States |
| --- | --- |
| `SerialProtocol` | `Spec => FollowsProtocol` (refinement), if `AtOnce = 1` and no write of `state.json` is cut short |
| `SerialMemory` | `Spec => []RepoIsTheMemory`, under the same two conditions |

Assumptions: the ASSUMEs of `Mission` (shapes; and `NullsAssumption`, that what
stands for no document, an emptied or a garbled file is no document). The theorems
about serial use assume `AtOnce = 1`, as the runs `MissionSerial` and `MissionTorn`
set it; those of `MissionRefines` also that "tear" is no fault. Both conditions are
needed: with overlap `MissionSwept` sweeps a loopback and takes a step the
refinement does not allow, with a torn write `MissionTorn` forgets the mission.
At `AtOnce = 2` TLC finds `ChainIntact` and `PassedIsLatestVerdict` violated too.

The argument. `MInv` says of `state.json` (`SoundState`) and of the copy each
command carries (`Sound`) the same: the active phase is the first one not done,
an open loopback's gate is failed, and each gate called passed has a passing run
in the ledger (`Stands`) or is the one whose `gate-passed` entry the command is
about to append (`Announces`). The ledger only grows, so copies stay sound however
old they are. With one command at a time `SInv` adds that the tip a command has
read is still the end of the ledger, and `LInv` that the last verdict of each gate
agrees with the document, or with the copy of the command that is running it
(`Timely`), as long as nobody was killed. For the refinement `Effect` says what a
command has collected so far, gate by gate (`HalfRun`, `Meets`): when it opens
`state.json`, all of it is one step of `GatedMission`. Loopbacks: the failures
recorded so far are never more than the loopbacks of `state.json` (`RInv`), and a
command about to save carries at least as many. Memory: with one writer the file
is empty only between its two writes (`NoTail` rules out the rest of a longer
document), so whenever no command is in there it holds a document. That the least open phase
exists is proved by well-founded induction over naturals on a set, not on data.

`GateExecProofs`, for any chunk, frame, limit and amount of output:

| Theorem | States |
| --- | --- |
| `GateTypes` | `GSpec => []GateTypeOK` |
| `EvidenceWithinBudget` | `GSpec => []WithinBudget` |
| `RecordTellsLoss` | `GSpec => []LossIsTold` |
| `RecordedPassEndedInTime` | `GSpec => []PassedEndedInTime` |
| `RecordIsLast` | `GSpec => NothingAfterRecord` |

Assumption: `GateAssumption` (the four sizes are positive). `GInv` says that the
reader that writes holds the lock, so the room it has looked up is still what is left (`LockInv`);
that every unit is in the pipe, in a reader's hand or counted (`Flow`), so a reader
that ended without an error has seen all of it (`Drained`); that past the joins both
readers have ended (`MainInv`); and that a shell that was killed was past its
timeout (`TimeInv`).

Only model-checked: liveness (`EveryRunEnds`, `EveryVerifierEnds`,
`GateEndsWithItsChildren`), which is outside what TLAPS 1.4.5 proves.
What recursive definitions compute for every input could not be proved either;
the modules have none.

## 6. Where code and documents disagree

Shown by a run:

- `FreshnessOrphan`: the comment over the consumer step says the lock keeps
  an older run from overwriting a newer generation. It does while the launcher
  lives; killed in `subprocess.run`, its child goes on without the lock.
- `InstallLoss`: "each skill-directory replacement is atomic". If verification
  fails after the swap and the rollback's removal stops half-way, the destination
  exists, so neither rollback restores, and the cleanup removes the backup.
- `MissionSwept`: "Loopbacks are recorded in state, never swept away". A
  command that loaded earlier writes its copy over them.
- `MissionTorn`: "the repo is the memory". `write_text` truncates first; a kill
  there leaves a file that loop refuses to read and kickoff refuses to replace.

Section 5 says what TLAPS proves of each of these claims once the cause is excluded: `NoRollbackWithoutOrphan`, `NothingIsLostUnlessBothFail`, `SerialKeepsLoopbacks` and
`SerialMemory`.

Seen in the models, without a run of their own:

- The launcher's second look at the clock comes "immediately before the state
  transition and any child action" (1932-1933), yet a second threshold run and a
  wait for the lock without a limit follow it, so the checkpoint may move to an
  index that has expired meanwhile. Only a consumer run looks at the clock again,
  after the write.
- A rotated root is recorded only together with a release of higher sequence: the
  same release under the new root has another `rootVersion`, which is an
  equivocation at its sequence. So a rotation alone cannot be accepted.
- After re-pinning to an initial root newer than the checkpoint's root, every run
  is refused ("absent from verified root chain"); the old pin and all updates
  must be presented until a release under the new root has been accepted.
- A verifier that finds the temporary file of a killed one with its process id
  is refused, and removes the file on the way out; the next one succeeds.
- Between the installer's two renames no skill directory stands at the
  destination, for readers and after a kill.
- Two overlapping commands of the loop may chain to the same ledger tip
  (`CheckTip` precedes the append), and two overlapping kickoffs may both write:
  the later one replaces a mission that may have begun.
- `loop.py` line 18 says state before ledger; the commands append first, so one
  killed in between leaves a failure in the ledger that the document does not know.
- When a child of a gate survives SIGKILL to the group with a pipe open, because
  it left the group, `stream.close()` waits for the reader inside `read`, so
  `run-gates` goes on past the "300-second" ceiling of
  `skills/archipelago/SKILL.md:65` for as long as the child lives.
- `cmd_sign` judges the manifest it loads; `ssh-keygen` opens the file again. It
  can report SIGNED for a manifest that was swapped in between, which `verify`
  then refuses.
- The builders authenticate and compare but do not run `verify`: a manifest
  written from a torn pass and signed may be published, and is refused by every
  launcher later.
- `trust/README.md:101-103` has the index builder require the tag "to peel to the
  clean candidate HEAD and tree". It pins HEAD and checks the tag, but lists the
  tree of whatever HEAD is by then (`build_trust_metadata.py:206`) and compares HEAD
  with the pinned commit only at the end (842). Say a candidate is committed and
  tagged, a file of it is edited and the manifest built and signed again (in the
  run's instance the edit makes it the next release, whose tag is put on that commit
  too). The builder pins the tagged commit, captures the new manifest and checks the
  tag; the new candidate is committed, listed and compared; HEAD is moved back
  before the last look. Every check passes, and the new entry names the tagged
  commit with the manifest of the other one. `IndexNamesItsTree` without its
  exception is violated so. `release-archive` and `release-payload` compare with the
  tree of the pinned commit itself (455, 627), so no payload is made of such an
  index: `StatementIsCoherent` has no exception.
- `release-index` over an old candidate is accepted when the entry is anywhere
  in the history, while `trust/README.md` says an identical *newest* entry is
  retained; and two indexes can be built over one checkpoint. The launcher
  accepts only one of them.
- An export replaces a file that appeared at its output after the first look;
  an install looks again (`CopyRefuse`).
- What a killed run leaves behind makes fleet parity refuse the root until it is
  removed by hand.
- The pulse gate of `advance` cannot fail: by `DocumentConsistent` the active
  phase is always the first open one. For the same reason the test for open
  loopbacks in `close-phase` never decides.
- `cycle` grows only when S0 is entered from S0, since every other way to S0 is a
  move backward and refused; `fail` on a gate of a done phase leaves the phase done.

## 7. What is not modelled

Smaller than the code inside what is modelled:

- `TrustRoot.CheckChain` reads all root files in one step, the code one after the
  other; the files are replaced before and after it.
- `GateExec.Join` and `Rejoin` take it that a reader with a chunk in its hand, or one
  that `Close` has freed, ends before the join of two seconds gives up (`loop.py:329`).
- `InstallTxn.ReadRoot` checks and reads a physical root at a time, where parity
  checks all of them first; its last check of the report's provenance is left out.
- `AtomicFleet.Fail` lets a run that has failed damage a later place without another
  report, so what the refinement says of silent loss is about the first failure of
  a run. `LaunchedLosesNothing` speaks of every place, a blocked rollback excepted.

Left out:

- *Byte-level checks* (JSON strictness, path and ownership rules, signature
  commands): their verdicts are inputs of the models.
- *Root payloads, envelopes, inventories and key ids* of the metadata builder:
  encodings with no state between steps.
- *File types, path rules and parsing* inside `skill_integrity.py`: a file that a
  reader refuses is a content in `Refused`.
- *Which tool calls the hook looks at*: parsing of the harness's JSON. It is
  modelled from the moment it has a skill to check.
- *The Windows branch of `execute_gate`*, which has no process group and no
  SIGTERM.
- *Media failures and power loss*: a kill is between two system calls.
- *Reaccept*: a sequence of verification subprocesses with no state of its own.
- *Validators, generators, console script, guardrail hooks, other skills*:
  single passes over documents or text recognition without shared state.
  `PROJECT.json` lists each with its reason.
