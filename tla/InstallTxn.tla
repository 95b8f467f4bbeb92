----------------------------- MODULE InstallTxn -----------------------------
(***************************************************************************)
(* The consumers the launcher runs on a fleet of skill directories:        *)
(* scripts/install.py (native install and profile export, each writing,    *)
(* --verify-only or --dry-run) and scripts/verify_fleet_parity.py.  A run  *)
(* authenticates its checkout, prepares its destinations, and goes through *)
(* them one by one; _transactional_copy and _replace_export swap one       *)
(* directory with rollback and cleanup, file-system step by file-system    *)
(* step.                                                                   *)
(*                                                                         *)
(* A tree is known by its version and by whether it is whole; the tree     *)
(* manifest and the signed file map both compare exactly that.  An export  *)
(* is known by the version it was built from.  Faults names the system     *)
(* calls that may fail, whether a process may be killed between two steps, *)
(* whether somebody edits a checkout under a running installer, and        *)
(* whether another program creates a file where a directory is missing.    *)
(***************************************************************************)
EXTENDS Naturals, Sequences

CONSTANTS
    Installer,      \* consumer processes, each a single invocation
    Version,        \* releases of the skills
    Edited,         \* a skill changed in the checkout, under no signature
    Unexportable,   \* the versions the export profile refuses
    Home,           \* the targets of an install, in the order of the run
    Fleet,          \* the roots fleet parity reads, in its order
    Skills,         \* the selected skills, in the order of the run
    Jobs,           \* the invocations considered
    Faults,         \* subset of AllFaults
    NotDirectory,   \* something at a destination that is no directory
    None            \* no tree, no skill directory

AllFaults == {"copy", "replace", "verify", "remove", "crash", "edit", "obstruct"}

\* named: the targets were asked for by name, not taken from the default fleet.
AllJobs ==
    [command : {"install"}, flag : {"write", "verify", "dry"}, named : BOOLEAN]
        \cup [command : {"export"}, flag : {"write", "verify", "dry"}, named : {FALSE}]
        \cup {[command |-> "parity", flag |-> "verify", named |-> FALSE]}

ASSUME InstallAssumption ==
    /\ Home \in Seq([path : STRING, optional : BOOLEAN]) /\ Home # <<>>
    /\ Fleet \in Seq(STRING) /\ Fleet # <<>>
    /\ Skills \in Seq(STRING) /\ Skills # <<>>
    /\ Jobs \subseteq AllJobs
    /\ Faults \subseteq AllFaults
    /\ Edited \notin Version
    /\ Unexportable \subseteq Version

Root == {Home[i].path : i \in 1..Len(Home)} \cup {Fleet[i] : i \in 1..Len(Fleet)}
Number == 1..Len(Skills)

\* The export directory stands apart from the skill directories of the roots.
Output == <<"output", 1>>
Slots == (Root \X Number) \cup {Output}

Tree == [version : Version \cup {Edited}, whole : BOOLEAN]

ASSUME NoTreeAssumption == None \notin Tree /\ NotDirectory \notin Tree \cup {None}

Whole(v) == [version |-> v, whole |-> TRUE]
Partial(v) == [version |-> v, whole |-> FALSE]

VARIABLES
    dest,           \* what stands at each skill directory and at the output
    roots,          \* the target directories that exist
    litter,         \* where staging and backup directories were left behind
    source,         \* the signed version of the checkout each process runs from
    checkout,       \* what the checkout holds of each skill
    job,            \* the invocation
    pc,             \* the step of each process
    active,         \* the targets preflight left active
    slot,           \* the target and the skill it works on
    expected,       \* the tree manifests it took of its checkout
    tx,             \* its transaction: what it found at the destination, its private
                    \* staging and backup directories, and the three flags
    success         \* InstallReport.success, or parity's "pass"

run == <<source, job, active, expected>>
disk == <<dest, roots, litter>>
vars == <<disk, checkout, run, pc, slot, tx, success>>

NoTransaction ==
    [before |-> None, staging |-> None, backup |-> None,
     movedOld |-> FALSE, movedNew |-> FALSE, committed |-> FALSE]

Ended == {"ended", "dead"}

Active(p) == pc[p] \notin Ended \cup {"idle"}

Target(p) ==
    CASE job[p].command = "install" -> Home[slot[p][1]].path
      [] job[p].command = "parity" -> Fleet[slot[p][1]]
      [] OTHER -> Output[1]
Place(p) == <<Target(p), slot[p][2]>>
Here(p) == dest[Place(p)]

\* What is left of a path whose removal stopped half-way.
Dismantled(path) == IF path \in {None, NotDirectory} THEN path ELSE Partial(path.version)

Init ==
    /\ roots \in SUBSET Root
    /\ dest \in [Slots -> {None} \cup {Whole(v) : v \in Version}]
    /\ \A s \in Slots \ {Output} : s[1] \notin roots => dest[s] = None
    /\ litter = {}
    /\ source \in [Installer -> Version]
    /\ checkout = [p \in Installer |-> [k \in Number |-> source[p]]]
    /\ job \in [Installer -> Jobs]
    /\ pc = [p \in Installer |-> "idle"]
    /\ active = [p \in Installer |-> {}]
    /\ slot = [p \in Installer |-> <<1, 1>>]
    /\ expected = [p \in Installer |-> [k \in Number |-> source[p]]]
    /\ tx = [p \in Installer |-> NoTransaction]
    /\ success = [p \in Installer |-> TRUE]

Goto(p, from, to) == pc[p] = from /\ pc' = [pc EXCEPT ![p] = to]

May(fault) == fault \in Faults

Writes(p) == job[p].flag = "write"
Command(p, c) == job[p].command = c

-----------------------------------------------------------------------------
(* What every consumer does first *)

\* Nothing here keeps consumers apart: that is for whoever starts them.
Start(p) ==
    /\ Goto(p, "idle", "sources")
    /\ UNCHANGED <<disk, checkout, run, slot, tx, success>>

Signed(p) == \A k \in Number : checkout[p][k] = source[p]

\* Signature, policy and file maps, and the selected skills against the maps.
VerifySources(p) ==
    /\ Goto(p, "sources", IF ~Signed(p) THEN "ended"
                          ELSE IF Command(p, "export") THEN "stage"
                          ELSE IF Command(p, "parity") THEN "inventory" ELSE "preflight")
    /\ success' = [success EXCEPT ![p] = Signed(p)]
    /\ UNCHANGED <<disk, checkout, run, slot, tx>>

-----------------------------------------------------------------------------
(* _preflight_install *)

Absent(i) == Home[i].optional /\ Home[i].path \notin roots

\* A target whose path an earlier one serves is covered by it.
Prepared ==
    {i \in 1..Len(Home) :
        /\ ~Absent(i)
        /\ \A j \in 1..(i - 1) : Home[j].path = Home[i].path => Absent(j)}

\* The tree manifests are taken of the checkout, and every destination is
\* checked before the first write.
Preflight(p) ==
    LET askedAbsent == job[p].named /\ \E i \in 1..Len(Home) : Absent(i)
        shapely == \A i \in Prepared, k \in Number :
                       dest[<<Home[i].path, k>>] # NotDirectory
        good == ~askedAbsent /\ shapely
    IN
    /\ Goto(p, "preflight", IF good /\ Prepared # {} THEN "sync" ELSE "ended")
    /\ expected' = [expected EXCEPT ![p] = checkout[p]]
    /\ active' = [active EXCEPT ![p] = Prepared]
    /\ slot' = [slot EXCEPT ![p] = IF Prepared = {} THEN @
                                   ELSE <<CHOOSE i \in Prepared : \A j \in Prepared : i <= j, 1>>]
    /\ success' = [success EXCEPT ![p] = good]
    /\ UNCHANGED <<disk, checkout, source, job, tx>>

Later(p) == {i \in active[p] : i > slot[p][1]}

\* The next skill directory: after a failure the rest of the target is left
\* out, the other targets are still served.
NextSlot(p, failed) ==
    IF slot[p][2] < Len(Skills) /\ ~failed
    THEN <<slot[p][1], slot[p][2] + 1>>
    ELSE <<CHOOSE i \in Later(p) : \A j \in Later(p) : i <= j, 1>>

LastSlot(p, failed) == Later(p) = {} /\ (failed \/ slot[p][2] = Len(Skills))

\* Fault for mutation runs: the walk runs past the last skill.
FinishPastEnd(p, failed, ok) ==
    LET last == Command(p, "export") \/ LastSlot(p, failed) IN
    /\ pc' = [pc EXCEPT ![p] = IF last THEN "ended" ELSE "sync"]
    /\ slot' = [slot EXCEPT ![p] = IF last THEN <<@[1], @[2] + 1>> ELSE NextSlot(p, failed)]
    /\ active' = [active EXCEPT ![p] = IF last THEN {} ELSE @]
    /\ success' = [success EXCEPT ![p] = @ /\ ok]
    /\ tx' = [tx EXCEPT ![p] = NoTransaction]

Finish(p, failed, ok) ==
    LET last == Command(p, "export") \/ LastSlot(p, failed) IN
    /\ pc' = [pc EXCEPT ![p] = IF last THEN "ended" ELSE "sync"]
    /\ slot' = [slot EXCEPT ![p] = IF last THEN <<1, 1>> ELSE NextSlot(p, failed)]
    /\ active' = [active EXCEPT ![p] = IF last THEN {} ELSE @]
    /\ success' = [success EXCEPT ![p] = @ /\ ok]
    /\ tx' = [tx EXCEPT ![p] = NoTransaction]

-----------------------------------------------------------------------------
(* _run_profile_export up to the comparison with what stands at the output *)

Exportable(v) == v \notin Unexportable

\* The skills are copied out of the checkout, each copy is checked against the
\* signed map, and profile, ZIP files and manifest are made of the copies alone.
StageSources(p) ==
    LET good == Signed(p) /\ Exportable(source[p]) IN
    /\ Goto(p, "stage", IF good THEN "sync" ELSE "ended")
    /\ success' = [success EXCEPT ![p] = good]
    /\ UNCHANGED <<disk, checkout, run, slot, tx>>

-----------------------------------------------------------------------------
(* _sync_skill, and the same comparison in _run_profile_export *)

\* The ZIP files and the manifest made of the copies of a version.
Exported(v) == Whole(v)

\* The tree manifest an installed copy is compared with.
Wanted(p) ==
    IF Command(p, "install") THEN Whole(expected[p][slot[p][2]]) ELSE Exported(source[p])

\* An equal tree is left alone, once it also equals the signed map.
SyncEqual(p) ==
    /\ pc[p] = "sync"
    /\ Here(p) = Wanted(p)
    /\ LET good == Here(p) = Whole(source[p]) IN Finish(p, ~good, good)
    /\ UNCHANGED <<disk, checkout, source, job, expected>>

\* --verify-only reports what differs, --dry-run what it would do; both go on.
SyncReport(p) ==
    /\ pc[p] = "sync" /\ ~Writes(p)
    /\ Here(p) \notin {Wanted(p), NotDirectory}
    /\ Finish(p, FALSE, job[p].flag = "dry")
    /\ UNCHANGED <<disk, checkout, source, job, expected>>

\* A destination that stopped being a directory after preflight.
SyncRefuse(p) ==
    /\ pc[p] = "sync"
    /\ Here(p) = NotDirectory
    /\ Finish(p, TRUE, FALSE)
    /\ UNCHANGED <<disk, checkout, source, job, expected>>

SyncChange(p) ==
    /\ Writes(p)
    /\ Here(p) \notin {Wanted(p), NotDirectory}
    /\ Goto(p, "sync", "copy")
    /\ tx' = [tx EXCEPT ![p].before = Here(p)]
    /\ UNCHANGED <<disk, checkout, run, slot, success>>

-----------------------------------------------------------------------------
(* _transactional_copy and _replace_export: the swap *)

\* A file that appeared after _sync_skill looked; an export does not look again.
CopyRefuse(p) ==
    /\ pc[p] = "copy"
    /\ Command(p, "install") /\ Here(p) = NotDirectory
    /\ Finish(p, TRUE, FALSE)
    /\ UNCHANGED <<disk, checkout, source, job, expected>>

\* What a copy is made of: the checkout as it is now, or the finished export.
Copied(p) == IF Command(p, "install") THEN checkout[p][slot[p][2]] ELSE source[p]

\* Fault for mutation runs: the staged copy is compared with the manifests taken
\* of the checkout alone.
StagedAsExpected(p) == Whole(Copied(p)) = Wanted(p)

\* The staged copy equals the manifest taken of its source, and the signed map.
StagedGood(p) == Whole(Copied(p)) = Wanted(p) /\ Copied(p) = source[p]

\* copytree and the checks of the staged copy.
CopyTree(p) ==
    /\ Command(p, "export") \/ Here(p) # NotDirectory
    /\ roots' = roots \cup ({Target(p)} \cap Root)
    /\ \/ /\ Goto(p, "copy", IF StagedGood(p) THEN "look" ELSE "finally")
          /\ tx' = [tx EXCEPT ![p].staging = Whole(Copied(p))]
       \/ /\ May("copy") /\ Goto(p, "copy", "finally")
          /\ tx' = [tx EXCEPT ![p].staging = Partial(Copied(p))]
    /\ UNCHANGED <<dest, litter, checkout, run, slot, success>>

LookForOld(p) ==
    /\ Goto(p, "look", IF Here(p) = None THEN "place" ELSE "moveold")
    /\ UNCHANGED <<disk, checkout, run, slot, tx, success>>

Swap(p, path) == dest' = [dest EXCEPT ![Place(p)] = path]
SwapOnly == UNCHANGED <<roots, litter, checkout, run, slot, success>>

\* os.replace(destination, backup); outside the inner try, so a failure goes
\* straight to the finally clause.
MoveOld(p) ==
    /\ \/ /\ Here(p) # None
          /\ Goto(p, "moveold", "place")
          /\ Swap(p, None)
          /\ tx' = [tx EXCEPT ![p].backup = Here(p), ![p].movedOld = TRUE]
       \/ /\ Here(p) = None \/ May("replace")
          /\ Goto(p, "moveold", "finally")
          /\ UNCHANGED <<dest, tx>>
    /\ SwapOnly

\* os.replace(staged, destination), which fails on a directory that is not empty.
PlaceNew(p) ==
    /\ \/ /\ Here(p) = None
          /\ Goto(p, "place", "check")
          /\ Swap(p, tx[p].staging)
          /\ tx' = [tx EXCEPT ![p].staging = None, ![p].movedNew = TRUE]
       \/ /\ Here(p) # None \/ May("replace")
          /\ Goto(p, "place", "rollback")
          /\ UNCHANGED <<dest, tx>>
    /\ SwapOnly

CheckInstalled(p) ==
    /\ \/ /\ Here(p) = Whole(source[p])
          /\ Goto(p, "check", "finally")
          /\ tx' = [tx EXCEPT ![p].committed = TRUE]
       \/ /\ Here(p) # Whole(source[p]) \/ May("verify")
          /\ Goto(p, "check", "rollback")
          /\ UNCHANGED tx
    /\ UNCHANGED dest /\ SwapOnly

-----------------------------------------------------------------------------
(* The except clause *)

\* Fault for mutation runs: the unverified copy stays in place.
RollbackKeepsNew(p) ==
    /\ Goto(p, "rollback", "restore")
    /\ UNCHANGED <<disk, checkout, run, slot, tx, success>>

Rollback(p) ==
    /\ Goto(p, "rollback", IF tx[p].movedNew /\ Here(p) # None THEN "removing" ELSE "restore")
    /\ UNCHANGED <<disk, checkout, run, slot, tx, success>>

\* rmtree takes the tree apart before it is gone, and may stop half-way.
RemoveDestination(p) ==
    /\ \/ Goto(p, "removing", "removed")
       \/ May("remove") /\ Goto(p, "removing", "finally")
    /\ Swap(p, Dismantled(Here(p)))
    /\ UNCHANGED tx /\ SwapOnly

Removed(p) ==
    /\ Goto(p, "removed", "restore")
    /\ Swap(p, None)
    /\ tx' = [tx EXCEPT ![p].movedNew = FALSE]
    /\ SwapOnly

Restorable(p) == tx[p].movedOld /\ tx[p].backup # None /\ Here(p) = None

\* os.replace(backup, destination) from the except clause.
Restore(p) ==
    /\ Goto(p, "restore", "finally")
    /\ \/ /\ Restorable(p)
          /\ Swap(p, tx[p].backup)
          /\ tx' = [tx EXCEPT ![p].backup = None, ![p].movedOld = FALSE]
       \/ /\ Restorable(p) => May("replace")
          /\ UNCHANGED <<dest, tx>>
    /\ SwapOnly

-----------------------------------------------------------------------------
(* The finally clause *)

\* A second attempt to restore.
RestoreAgain(p) ==
    /\ Goto(p, "finally", "dropbackup")
    /\ \/ /\ Restorable(p)
          /\ Swap(p, tx[p].backup)
          /\ tx' = [tx EXCEPT ![p].backup = None]
       \/ /\ ~Restorable(p)
          /\ UNCHANGED <<dest, tx>>
    /\ SwapOnly

\* Fault for mutation runs: the error of the finally clause is swallowed.
RestoreFailsQuietly(p) ==
    /\ pc[p] = "finally"
    /\ Restorable(p) /\ May("replace")
    /\ Finish(p, FALSE, TRUE)
    /\ litter' = litter \cup {Target(p)}
    /\ UNCHANGED <<dest, roots, checkout, source, job, expected>>

\* Its failure ends the clause at once, with what is staged and saved left.
RestoreFails(p) ==
    /\ pc[p] = "finally"
    /\ Restorable(p) /\ May("replace")
    /\ Finish(p, TRUE, FALSE)
    /\ litter' = litter \cup {Target(p)}
    /\ UNCHANGED <<dest, roots, checkout, source, job, expected>>

\* The backup goes, whether or not the new copy was committed.  A half-removed
\* one stays behind, unless the copy was committed and it can be moved into the
\* staging directory.
DropBackup(p) ==
    /\ Goto(p, "dropbackup", "dropstaging")
    /\ \/ tx' = [tx EXCEPT ![p].backup = None]
       \/ /\ May("remove") /\ tx[p].backup # None
          /\ tx' = [tx EXCEPT ![p].backup = Dismantled(@)]
    /\ UNCHANGED dest /\ SwapOnly

\* What is left behind is only warned about once the copy is committed.
DropStaging(p) ==
    /\ pc[p] = "dropstaging"
    /\ \/ litter' = IF tx[p].backup # None THEN litter \cup {Target(p)} ELSE litter
       \/ May("remove") /\ litter' = litter \cup {Target(p)}
    /\ Finish(p, ~tx[p].committed, tx[p].committed)
    /\ UNCHANGED <<dest, roots, checkout, source, job, expected>>

-----------------------------------------------------------------------------
(* verify_fleet_parity.py: verify_roots *)

\* The root is there, a directory of its own.
Physical(r) == r \in roots

\* A root holds exactly the skill directories, and nothing a run left behind.
Inventory(r) ==
    /\ Physical(r) /\ r \notin litter
    /\ \A k \in Number : dest[<<r, k>>] \notin {None, NotDirectory}

ReadRoot(p) ==
    LET fine == Inventory(Target(p)) IN
    /\ Goto(p, "inventory", IF fine THEN "compare" ELSE "ended")
    /\ success' = [success EXCEPT ![p] = fine]
    /\ UNCHANGED <<disk, checkout, run, slot, tx>>

\* Each skill directory against the signed map; the first difference refuses.
CompareSkill(p) ==
    LET equal == Here(p) = Whole(source[p])
        t == slot[p][1]
        k == slot[p][2]
    IN
    /\ Goto(p, "compare", CASE ~equal -> "ended"
                            [] equal /\ k < Len(Skills) -> "compare"
                            [] equal /\ k = Len(Skills) /\ t < Len(Fleet) -> "inventory"
                            [] OTHER -> "ended")
    /\ slot' = [slot EXCEPT ![p] = CASE k < Len(Skills) -> <<t, k + 1>>
                                     [] k = Len(Skills) /\ t < Len(Fleet) -> <<t + 1, 1>>
                                     [] OTHER -> <<1, 1>>]
    /\ success' = [success EXCEPT ![p] = equal]
    /\ UNCHANGED <<disk, checkout, run, tx>>

-----------------------------------------------------------------------------
(* Around the consumers *)

Transaction ==
    {"copy", "look", "moveold", "place", "check", "rollback", "removing", "removed",
     "restore", "finally", "dropbackup", "dropstaging"}

\* A process killed in a transaction leaves its private directories behind.
Die(p) ==
    /\ May("crash")
    /\ Active(p)
    /\ pc' = [pc EXCEPT ![p] = "dead"]
    /\ tx' = [tx EXCEPT ![p] = NoTransaction]
    /\ slot' = [slot EXCEPT ![p] = <<1, 1>>]
    /\ active' = [active EXCEPT ![p] = {}]
    /\ \/ pc[p] \in Transaction /\ litter' = litter \cup {Target(p)}
       \/ pc[p] \notin Transaction \ {"copy"} /\ UNCHANGED litter
    /\ roots' = roots \cup (litter' \cap Root)
    /\ UNCHANGED <<dest, checkout, source, job, expected, success>>

\* Bound: one checkout edited, or one file in the way, at a time.
Undisturbed ==
    /\ \A q \in Installer : Signed(q)
    /\ \A s \in Slots : dest[s] # NotDirectory

\* Somebody changes a skill in the checkout of a running consumer.
Edit(p, k) ==
    /\ May("edit")
    /\ Active(p)
    /\ Undisturbed
    /\ checkout' = [checkout EXCEPT ![p][k] = Edited]
    /\ UNCHANGED <<disk, run, pc, slot, tx, success>>

\* Another program puts a file where no skill directory or output stands.
Obstruct(s) ==
    /\ May("obstruct")
    /\ Undisturbed
    /\ s[1] \in roots \cup {Output[1]}
    /\ dest[s] = None
    /\ dest' = [dest EXCEPT ![s] = NotDirectory]
    /\ UNCHANGED <<roots, litter, checkout, run, pc, slot, tx, success>>

-----------------------------------------------------------------------------
Step(p) ==
    \/ Start(p) \/ VerifySources(p) \/ Preflight(p) \/ StageSources(p)
    \/ SyncEqual(p) \/ SyncReport(p) \/ SyncRefuse(p) \/ SyncChange(p)
    \/ CopyRefuse(p) \/ CopyTree(p) \/ LookForOld(p) \/ MoveOld(p) \/ PlaceNew(p)
    \/ CheckInstalled(p)
    \/ Rollback(p) \/ RemoveDestination(p) \/ Removed(p) \/ Restore(p)
    \/ RestoreAgain(p) \/ RestoreFails(p) \/ DropBackup(p) \/ DropStaging(p)
    \/ ReadRoot(p) \/ CompareSkill(p)
    \/ Die(p)

Next ==
    \/ \E p \in Installer : Step(p)
    \/ \E p \in Installer, k \in Number : Edit(p, k)
    \/ \E s \in Slots : Obstruct(s)

Spec == Init /\ [][Next]_vars

-----------------------------------------------------------------------------
(* Correctness *)

Standing == Tree \cup {None, NotDirectory}

\* Every variable keeps its type, and a process that works on a destination is
\* at a target and a skill of its run.
TypeOK ==
    /\ dest \in [Slots -> Standing]
    /\ roots \subseteq Root
    /\ litter \subseteq Root \cup {Output[1]}
    /\ source \in [Installer -> Version]
    /\ checkout \in [Installer -> [Number -> Version \cup {Edited}]]
    /\ job \in [Installer -> Jobs]
    /\ pc \in [Installer -> Transaction \cup Ended \cup
                {"idle", "sources", "preflight", "stage", "sync", "inventory", "compare"}]
    /\ active \in [Installer -> SUBSET (1..Len(Home))]
    /\ slot \in [Installer -> Nat \X Number]
    /\ \A p \in Installer : Active(p) => Place(p) \in Slots
    /\ expected \in [Installer -> [Number -> Version \cup {Edited}]]
    /\ tx \in [Installer -> [before : Standing, staging : Tree \cup {None}, backup : Standing,
                            movedOld : BOOLEAN, movedNew : BOOLEAN, committed : BOOLEAN]]
    /\ success \in [Installer -> BOOLEAN]

\* "Each skill-directory replacement is atomic", for the copies: at every
\* moment of a replacement, and so after a crash at any moment, the copy that
\* stood there before or the verified new one is complete on disk.
OldOrNewStands(p) ==
    \/ Here(p) \in {tx[p].before, Whole(source[p])}
    \/ tx[p].backup = tx[p].before

OldOrNewSurvives ==
    \A p \in Installer :
        pc[p] \in Transaction /\ tx[p].before \in Tree /\ tx[p].before.whole => OldOrNewStands(p)

\* Something the transaction could not remove or did not put there keeps the
\* rollback from restoring.
Blocked(p) ==
    /\ pc[p] \in {"finally", "dropbackup", "dropstaging"}
    /\ Here(p) \in {NotDirectory, Partial(source[p])}

\* The old copy and the new one are never both lost, whatever call fails and
\* wherever the process is killed, unless the rollback found the destination
\* blocked by a file of another program or by a copy it could not remove.
OldOrNewUnlessBlocked ==
    \A p \in Installer :
        pc[p] \in Transaction /\ tx[p].before \in Tree /\ tx[p].before.whole =>
            OldOrNewStands(p) \/ Blocked(p)

\* A replacement that failed and reached the end of its cleanup has put back
\* exactly what it found, be it an older copy, a damaged one or nothing, unless
\* the destination was blocked.
FailureRestores ==
    \A p \in Installer :
        pc[p] = "dropstaging" /\ ~tx[p].committed => Here(p) = tx[p].before \/ Blocked(p)

\* The rollback deletes only the copy this transaction placed, never one that
\* another installer has verified and committed.
RollbackRemovesOwnCopy ==
    \A p \in Installer :
        pc[p] \in {"removing", "removed"} /\ Here(p) # None =>
            Here(p) \in {Whole(source[p]), Partial(source[p])}

\* A skill edited in the checkout never stands at a destination, whether the
\* edit came before the signature was checked, between that and the manifests
\* taken of the tree, or between these and the copy.
EditedNeverLands == \A s \in Slots : dest[s] \in Tree => dest[s].version # Edited

Replacing(p) == pc[p] \in Transaction /\ ~tx[p].committed

\* What a skill directory holds, counting what a replacement under way there
\* has found and has still to put back.
Content ==
    [s \in Slots |->
        IF \E p \in Installer : Replacing(p) /\ Place(p) = s
        THEN tx[CHOOSE p \in Installer : Replacing(p) /\ Place(p) = s].before
        ELSE dest[s]]

\* The runs that report failure or were killed.
Failing == {p \in Installer : pc[p] = "dead" \/ ~success[p]}

AtomicFleet ==
    INSTANCE AtomicFleet WITH
        Places <- Slots,
        Runs <- Installer,
        Copies <- {Whole(v) : v \in Version},
        Remains <- {Partial(v) : v \in Version},
        Nothing <- None,
        Foreign <- NotDirectory,
        content <- Content,
        failed <- Failing

\* The steps of a replacement implement one atomic step, and no loss is silent.
ReplacesAtomically ==
    UNCHANGED <<Failing, Content>> \/ AtomicFleet!Next

Completes(p) == pc[p] # "ended" /\ pc'[p] = "ended" /\ success'[p]

\* The places a run that reports success answers for: every default target whose
\* harness is there, every target asked for by name, aliases included.
Promised(p) ==
    IF Command(p, "export") THEN {Output}
    ELSE {Home[i].path : i \in {i \in 1..Len(Home) : job[p].named \/ ~Absent(i)}} \X Number

\* A run that reports success, installing, exporting or verifying, leaves every
\* place it answers for equal to its signed source, not only the last one.
SuccessIsEarned ==
    \A p \in Installer :
        Completes(p) /\ job[p].flag # "dry" /\ ~Command(p, "parity") =>
            \A s \in Promised(p) : dest'[s] = Whole(source[p])

\* Fleet parity passes only when all roots hold, at one and the same moment, the
\* signed copy of every skill and nothing a run left behind.
PassIsEarned ==
    \A p \in Installer :
        Completes(p) /\ Command(p, "parity") =>
            \A i \in 1..Len(Fleet) :
                /\ Fleet[i] \notin litter
                /\ \A k \in Number : dest[<<Fleet[i], k>>] = Whole(source[p])
=============================================================================
