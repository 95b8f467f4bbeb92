--------------------------- MODULE InstallProofs ---------------------------
(***************************************************************************)
(* The safety of the consumers, for any number of processes, versions,     *)
(* targets and skills.  Types hold, and no edited skill lands, however     *)
(* consumers overlap.  Run by launchers under their lock, a transaction    *)
(* loses nothing and rolls back to what it found, replacements are atomic, *)
(* and reported success means that every promised copy is the signed one,  *)
(* until a launcher is killed under its consumer.                          *)
(***************************************************************************)
EXTENDS LaunchedInstall, WellFoundedInduction, TLAPS

-----------------------------------------------------------------------------
(* What holds however consumers overlap *)

Working == Transaction \cup {"sync"}
Steps == Transaction \cup Ended \cup
            {"idle", "sources", "preflight", "stage", "sync", "inventory", "compare"}

TxShape ==
    [before : Standing, staging : Tree \cup {None}, backup : Standing,
     movedOld : BOOLEAN, movedNew : BOOLEAN, committed : BOOLEAN]

\* Each command takes its own steps, at a target and a skill of its run.
Fits(j, s, at, ac) ==
    /\ s \in {"idle", "sources", "preflight", "stage"} => at = <<1, 1>>
    /\ s \in Working =>
          \/ j.command = "install" /\ at[1] \in ac
          \/ j.command = "export" /\ at = <<1, 1>>
    /\ s \in {"inventory", "compare"} => j.command = "parity" /\ at[1] \in 1..Len(Fleet)
    /\ s = "inventory" => at[2] = 1
    /\ s = "preflight" => j.command = "install"
    /\ s = "stage" => j.command = "export"

Genuine(x) == x \in Tree => x.version # Edited

\* What a transaction may put at its destination is no edited tree.
Careful(s, t, v) ==
    /\ s \in {"look", "moveold", "place"} => t.staging = Whole(v)
    /\ Genuine(t.backup)

IInv ==
    /\ TypeOK
    /\ EditedNeverLands
    /\ \A p \in Installer :
          Fits(job[p], pc[p], slot[p], active[p]) /\ Careful(pc[p], tx[p], source[p])

-----------------------------------------------------------------------------
(* A transaction nobody else disturbs but by a file in a free place *)

Unmoved(b, h) == h = b \/ (b = None /\ h = NotDirectory)

\* What moving the old copy away has left in the backup directory.
Saved(t) ==
    IF t.movedOld THEN t.backup # None /\ Unmoved(t.before, t.backup)
                  ELSE t.before = None /\ t.backup = None

Vacant(h) == h \in {None, NotDirectory}

\* At step s, transaction t of version v over a destination that holds h.
Undoes(s, t, h, v) ==
    /\ s \notin Transaction => t = NoTransaction
    /\ s \in Transaction => t.before # NotDirectory
    /\ s \in {"copy", "look", "moveold"} =>
          ~t.movedOld /\ ~t.movedNew /\ ~t.committed /\ t.backup = None /\ Unmoved(t.before, h)
    /\ s = "moveold" => h # None
    /\ s \in {"place", "check", "rollback", "removing", "removed", "restore"} =>
          ~t.committed /\ Saved(t)
    /\ s \in {"place", "restore"} => ~t.movedNew /\ Vacant(h)
    /\ s \in {"check", "removing"} => t.movedNew /\ h = Whole(v)
    /\ s = "rollback" => IF t.movedNew THEN h = Whole(v) ELSE Vacant(h)
    /\ s = "removed" => h = Partial(v)
    /\ s = "finally" =>
          \/ t.committed /\ h = Whole(v)
          \/ ~t.committed /\ ~t.movedOld /\ t.backup = None /\ Unmoved(t.before, h)
          \/ ~t.committed /\ Saved(t) /\ h \in {None, NotDirectory, Partial(v)}
    /\ s \in {"dropbackup", "dropstaging"} =>
          IF t.committed THEN h = Whole(v) ELSE h \in {t.before, NotDirectory, Partial(v)}

\* What stands at a destination, counting what a transaction has put aside.
Holding(s, t, h) == IF s \in Transaction /\ ~t.committed THEN t.before ELSE h

\* Nothing blocks the way back, but for a removal that follows a failed check.
Clear(s, t, h, v) ==
    /\ h # NotDirectory /\ t.backup # NotDirectory
    /\ ~May("verify") => s \notin {"removing", "removed"} /\ (s = "rollback" => ~t.movedNew)
    /\ s \in {"finally", "dropbackup", "dropstaging"} /\ h = Partial(v) =>
          t.before = Partial(v) \/ (May("verify") /\ May("remove"))

\* A step of a transaction keeps it undoable, holds on to what it found or puts
\* the new copy in its place, and blocks no way that was clear.
Follows(s, t, h, next, u, x, v) ==
    Undoes(s, t, h, v) =>
        /\ Undoes(next, u, x, v)
        /\ Holding(next, u, x) \in {Holding(s, t, h), Whole(v)}
        /\ Clear(s, t, h, v) => Clear(next, u, x, v)

-----------------------------------------------------------------------------
(* Two kinds of steps: in a transaction, and to the next skill directory *)

Turns(p) ==
    /\ pc[p] \in Working
    /\ \E s \in Transaction, t \in TxShape, x \in Standing :
          /\ pc' = [pc EXCEPT ![p] = s]
          /\ tx' = [tx EXCEPT ![p] = t]
          /\ dest' = [dest EXCEPT ![Place(p)] = x]
          /\ Careful(s, t, source[p]) /\ Genuine(x)
          /\ Follows(pc[p], tx[p], Here(p), s, t, x, source[p])
    /\ roots' \in {roots, roots \cup ({Target(p)} \cap Root)}
    /\ UNCHANGED <<litter, checkout, run, slot, success>>

Finishes(p) ==
    /\ pc[p] \in Working
    /\ \E failed, ok \in BOOLEAN :
          /\ Finish(p, failed, ok)
          /\ failed => ~ok
          /\ ok => pc[p] = "sync" \/ tx[p].committed
          /\ ok /\ job[p].flag # "dry" /\ Undoes(pc[p], tx[p], Here(p), source[p]) =>
                Here(p) = Whole(source[p])
    /\ litter' \in {litter, litter \cup {Target(p)}}
    /\ UNCHANGED <<dest, roots, checkout, source, job, expected>>

LEMMA Facts ==
    ASSUME IInv, NEW p \in Installer
    PROVE  /\ pc \in [Installer -> Steps] /\ pc[p] \in Steps
           /\ slot \in [Installer -> Nat \X Number] /\ slot[p] \in Nat \X Number
           /\ tx \in [Installer -> TxShape] /\ tx[p] \in TxShape
           /\ dest \in [Slots -> Standing]
           /\ source[p] \in Version /\ source[p] # Edited
           /\ checkout[p] \in [Number -> Version \cup {Edited}]
           /\ expected[p] \in [Number -> Version \cup {Edited}]
           /\ job[p] \in Jobs /\ job[p] \in AllJobs
           /\ active[p] \in SUBSET (1..Len(Home))
           /\ success[p] \in BOOLEAN
           /\ Fits(job[p], pc[p], slot[p], active[p]) /\ Careful(pc[p], tx[p], source[p])
           /\ pc[p] \in Steps \ (Ended \cup {"idle"}) =>
                 /\ Place(p) \in Slots /\ Here(p) \in Standing /\ Genuine(Here(p))
  <1>1. TypeOK /\ EditedNeverLands
    BY DEF IInv
  <1>2. /\ pc \in [Installer -> Steps]
        /\ tx \in [Installer -> TxShape]
    BY <1>1 DEF TypeOK, Steps, TxShape
  <1>3. source[p] \in Version /\ source[p] # Edited /\ job[p] \in AllJobs /\ job[p] \in Jobs
    BY <1>1, InstallAssumption DEF TypeOK
  <1>4. pc[p] \notin Ended \cup {"idle"} =>
           Place(p) \in Slots /\ Here(p) \in Standing /\ Genuine(Here(p))
    BY <1>1 DEF TypeOK, Active, Here, Genuine, EditedNeverLands
  <1>5. /\ slot \in [Installer -> Nat \X Number]
        /\ dest \in [Slots -> Standing]
        /\ checkout[p] \in [Number -> Version \cup {Edited}]
        /\ expected[p] \in [Number -> Version \cup {Edited}]
        /\ active[p] \in SUBSET (1..Len(Home))
        /\ success[p] \in BOOLEAN
    BY <1>1 DEF TypeOK
  <1> QED
    BY <1>2, <1>3, <1>4, <1>5 DEF IInv

LEMMA TreeShape ==
    ASSUME NEW v \in Version \cup {Edited}
    PROVE  /\ Whole(v) \in Tree /\ Partial(v) \in Tree /\ Whole(v) # Partial(v)
           /\ Whole(v).version = v /\ Partial(v).version = v
           /\ Whole(v) \notin {None, NotDirectory} /\ Partial(v) \notin {None, NotDirectory}
           /\ None # NotDirectory
           /\ v # Edited => Genuine(Whole(v)) /\ Genuine(Partial(v))
           /\ Genuine(None) /\ Genuine(NotDirectory)
  <1>1. Whole(v) \in Tree /\ Partial(v) \in Tree /\ Whole(v) # Partial(v)
    BY DEF Whole, Partial, Tree
  <1>2. Whole(v).version = v /\ Partial(v).version = v
    BY DEF Whole, Partial
  <1> QED
    BY <1>1, <1>2, NoTreeAssumption DEF Genuine

LEMMA DismantledShape ==
    ASSUME NEW x \in Standing
    PROVE  /\ Dismantled(x) \in Standing
           /\ Genuine(x) => Genuine(Dismantled(x))
  <1>1. CASE x \in {None, NotDirectory}
    BY <1>1 DEF Dismantled
  <1>2. CASE x \in Tree
    <2>1. x.version \in Version \cup {Edited} /\ Dismantled(x) = Partial(x.version)
      BY <1>2, NoTreeAssumption DEF Tree, Dismantled
    <2> QED
      BY <1>2, <2>1, TreeShape DEF Standing, Genuine
  <1> QED
    BY <1>1, <1>2 DEF Standing

-----------------------------------------------------------------------------
(* The steps of a transaction *)

LEMMA Turned ==
    ASSUME NEW p \in Installer, pc[p] \in Working,
           NEW s \in Transaction, NEW t \in TxShape, NEW x \in Standing,
           pc' = [pc EXCEPT ![p] = s], tx' = [tx EXCEPT ![p] = t],
           dest' = [dest EXCEPT ![Place(p)] = x],
           Careful(s, t, source[p]), Genuine(x),
           Follows(pc[p], tx[p], Here(p), s, t, x, source[p]),
           roots' \in {roots, roots \cup ({Target(p)} \cap Root)},
           UNCHANGED <<litter, checkout, run, slot, success>>
    PROVE  Turns(p)
  BY DEF Turns

\* A step that leaves the disk alone.
LEMMA TurnedAside ==
    ASSUME IInv, NEW p \in Installer, pc[p] \in Working,
           NEW s \in Transaction, NEW t \in TxShape,
           pc' = [pc EXCEPT ![p] = s], tx' = [tx EXCEPT ![p] = t],
           dest' = dest,
           Careful(s, t, source[p]),
           Follows(pc[p], tx[p], Here(p), s, t, Here(p), source[p]),
           roots' \in {roots, roots \cup ({Target(p)} \cap Root)},
           UNCHANGED <<litter, checkout, run, slot, success>>
    PROVE  Turns(p)
  <1>1. Place(p) \in Slots /\ Here(p) \in Standing /\ Genuine(Here(p))
    BY Facts DEF Working, Transaction, Steps, Ended
  <1>2. dest = [dest EXCEPT ![Place(p)] = Here(p)]
    BY Facts DEF Here
  <1> HIDE DEF Turns
  <1> QED
    BY <1>1, <1>2, Turned

LEMMA SameTx ==
    ASSUME IInv, NEW p \in Installer, tx' = tx
    PROVE  tx' = [tx EXCEPT ![p] = tx[p]]
  BY Facts

LEMMA SyncChangeTurns ==
    ASSUME IInv, NEW p \in Installer, SyncChange(p)
    PROVE  Turns(p)
  <1> DEFINE t == [tx[p] EXCEPT !.before = Here(p)]
  <1>1. pc[p] = "sync" /\ Here(p) # NotDirectory /\ pc' = [pc EXCEPT ![p] = "copy"]
        /\ tx' = [tx EXCEPT ![p] = t]
        /\ UNCHANGED <<disk, checkout, run, slot, success>>
    BY Facts DEF SyncChange, Goto, TxShape
  <1>2. Here(p) \in Standing
    BY <1>1, Facts DEF Steps, Ended
  <1>3. t \in TxShape
    BY <1>2, Facts DEF TxShape
  <1>4. Careful("copy", t, source[p])
    BY Facts DEF Careful, TxShape
  <1>5. Follows(pc[p], tx[p], Here(p), "copy", t, Here(p), source[p])
    <2> SUFFICES ASSUME tx[p] = NoTransaction
                 PROVE  Follows("sync", NoTransaction, Here(p), "copy", t, Here(p), source[p])
      BY <1>1 DEF Follows, Undoes, Transaction
    <2>1. /\ t.before = Here(p) /\ ~t.movedOld /\ ~t.movedNew /\ ~t.committed
          /\ t.backup = None
      BY DEF NoTransaction
    <2> HIDE DEF t
    <2> QED
      BY <1>1, <2>1, NoTreeAssumption
         DEF Follows, Holding, Clear, Undoes, Transaction, Unmoved
  <1> HIDE DEF t
  <1> QED
    BY <1>1, <1>3, <1>4, <1>5, TurnedAside DEF Working, Transaction, disk

LEMMA CopyTreeTurns ==
    ASSUME IInv, NEW p \in Installer, CopyTree(p)
    PROVE  Turns(p)
  <1>1. /\ pc[p] = "copy"
        /\ roots' = roots \cup ({Target(p)} \cap Root)
        /\ UNCHANGED <<dest, litter, checkout, run, slot, success>>
    BY DEF CopyTree, Goto
  <1>2. Copied(p) \in Version \cup {Edited}
    BY Facts DEF Copied
  <1>3. ASSUME NEW s \in {"look", "finally"}, NEW g \in Tree,
               s = "look" => g = Whole(source[p]),
               pc' = [pc EXCEPT ![p] = s], tx' = [tx EXCEPT ![p].staging = g]
        PROVE  Turns(p)
    <2> DEFINE t == [tx[p] EXCEPT !.staging = g]
    <2>1. tx' = [tx EXCEPT ![p] = t] /\ t \in TxShape
      BY <1>3, Facts DEF TxShape
    <2>2. /\ t.staging = g /\ t.before = tx[p].before /\ t.backup = tx[p].backup
          /\ t.movedOld = tx[p].movedOld /\ t.movedNew = tx[p].movedNew
          /\ t.committed = tx[p].committed
      BY Facts DEF TxShape
    <2> HIDE DEF t
    <2>3. Careful(s, t, source[p])
      BY <1>3, <2>2, Facts DEF Careful
    <2>4. Follows(pc[p], tx[p], Here(p), s, t, Here(p), source[p])
      BY <1>1, <1>3, <2>2 DEF Follows, Holding, Clear, Undoes, Transaction, Unmoved
    <2>5. pc[p] \in Working /\ s \in Transaction
      BY <1>1 DEF Working, Transaction
    <2>6. dest' = dest /\ UNCHANGED <<litter, checkout, run, slot, success>>
      BY <1>1
    <2> QED
      BY <1>1, <1>3, <2>1, <2>3, <2>4, <2>5, <2>6, TurnedAside
  <1>4. CASE /\ pc' = [pc EXCEPT ![p] = IF StagedGood(p) THEN "look" ELSE "finally"]
             /\ tx' = [tx EXCEPT ![p].staging = Whole(Copied(p))]
    <2>1. Whole(Copied(p)) \in Tree
      BY <1>2, TreeShape
    <2>2. CASE StagedGood(p)
      BY <1>3, <1>4, <2>1, <2>2 DEF StagedGood
    <2>3. CASE ~StagedGood(p)
      BY <1>3, <1>4, <2>1, <2>3
    <2> QED
      BY <2>2, <2>3
  <1>5. CASE /\ pc' = [pc EXCEPT ![p] = "finally"]
             /\ tx' = [tx EXCEPT ![p].staging = Partial(Copied(p))]
    BY <1>2, <1>3, <1>5, TreeShape
  <1> QED
    BY <1>4, <1>5 DEF CopyTree, Goto

LEMMA LookForOldTurns ==
    ASSUME IInv, NEW p \in Installer, LookForOld(p)
    PROVE  Turns(p)
  <1>1. /\ pc[p] = "look" /\ tx' = [tx EXCEPT ![p] = tx[p]]
        /\ UNCHANGED <<disk, checkout, run, slot, success>>
    BY SameTx DEF LookForOld, Goto
  <1>2. PICK s \in {"place", "moveold"} :
           /\ pc' = [pc EXCEPT ![p] = s]
           /\ s = "place" <=> Here(p) = None
    BY DEF LookForOld, Goto
  <1>3. Careful(s, tx[p], source[p])
    BY <1>1, <1>2, Facts DEF Careful
  <1>4. Follows(pc[p], tx[p], Here(p), s, tx[p], Here(p), source[p])
    BY <1>1, <1>2, NoTreeAssumption
       DEF Follows, Holding, Clear, Undoes, Transaction, Unmoved, Saved, Vacant
  <1> QED
    BY <1>1, <1>2, <1>3, <1>4, Facts, TurnedAside DEF Working, Transaction, disk

\* A renaming, a removal or a check: only the destination and the transaction move.
LEMMA SwapTurns ==
    ASSUME IInv, NEW p \in Installer, pc[p] \in Transaction,
           NEW s \in Transaction, NEW t \in TxShape, NEW x \in Standing,
           pc' = [pc EXCEPT ![p] = s], tx' = [tx EXCEPT ![p] = t],
           dest' = [dest EXCEPT ![Place(p)] = x] \/ (dest' = dest /\ x = Here(p)),
           Careful(s, t, source[p]), Genuine(x),
           Follows(pc[p], tx[p], Here(p), s, t, x, source[p]),
           SwapOnly
    PROVE  Turns(p)
  <1>1. pc[p] \in Working /\ UNCHANGED <<roots, litter, checkout, run, slot, success>>
    BY DEF Working, SwapOnly
  <1>2. CASE dest' = [dest EXCEPT ![Place(p)] = x]
    BY <1>1, <1>2, Turned
  <1>3. CASE dest' = dest /\ x = Here(p)
    BY <1>1, <1>3, TurnedAside
  <1> QED
    BY <1>2, <1>3

LEMMA Fields ==
    ASSUME NEW t \in TxShape
    PROVE  /\ t.before \in Standing /\ t.staging \in Tree \cup {None} /\ t.backup \in Standing
           /\ t.movedOld \in BOOLEAN /\ t.movedNew \in BOOLEAN /\ t.committed \in BOOLEAN
  BY DEF TxShape

LEMMA MoveOldTurns ==
    ASSUME IInv, NEW p \in Installer, MoveOld(p)
    PROVE  Turns(p)
  <1>1. pc[p] = "moveold" /\ SwapOnly
    BY DEF MoveOld, Goto
  <1>2. Here(p) \in Standing /\ Genuine(Here(p)) /\ tx[p] \in TxShape
    BY <1>1, Facts DEF Steps, Ended, Transaction
  <1>3. CASE /\ Here(p) # None
             /\ pc' = [pc EXCEPT ![p] = "place"]
             /\ Swap(p, None)
             /\ tx' = [tx EXCEPT ![p].backup = Here(p), ![p].movedOld = TRUE]
    <2> DEFINE t == [tx[p] EXCEPT !.backup = Here(p), !.movedOld = TRUE]
    <2>1. tx' = [tx EXCEPT ![p] = t] /\ t \in TxShape
      BY <1>2, <1>3, Facts DEF TxShape
    <2>2. /\ t.staging = tx[p].staging /\ t.before = tx[p].before /\ t.backup = Here(p)
          /\ t.movedOld /\ t.movedNew = tx[p].movedNew /\ t.committed = tx[p].committed
      BY <1>2 DEF TxShape
    <2> HIDE DEF t
    <2>3. Careful("place", t, source[p])
      BY <1>1, <1>2, <2>2, Facts DEF Careful
    <2>4. Follows(pc[p], tx[p], Here(p), "place", t, None, source[p])
      BY <1>1, <1>3, <2>2 DEF Follows, Holding, Clear, Undoes, Transaction, Unmoved, Saved, Vacant
    <2>5. Genuine(None) /\ None \in Standing
      BY NoTreeAssumption DEF Genuine, Standing
    <2> QED
      BY <1>1, <1>3, <2>1, <2>3, <2>4, <2>5, SwapTurns DEF Swap, Transaction
  <1>4. CASE /\ Here(p) = None \/ May("replace")
             /\ pc' = [pc EXCEPT ![p] = "finally"]
             /\ UNCHANGED <<dest, tx>>
    <2>1. Careful("finally", tx[p], source[p])
      BY Facts DEF Careful
    <2>2. Follows(pc[p], tx[p], Here(p), "finally", tx[p], Here(p), source[p])
      BY <1>1 DEF Follows, Holding, Clear, Undoes, Transaction, Unmoved
    <2>3. tx' = [tx EXCEPT ![p] = tx[p]]
      BY <1>4, SameTx
    <2> QED
      BY <1>1, <1>2, <1>4, <2>1, <2>2, <2>3, SwapTurns DEF Transaction
  <1> QED
    BY <1>3, <1>4 DEF MoveOld, Goto

LEMMA PlaceNewTurns ==
    ASSUME IInv, NEW p \in Installer, PlaceNew(p)
    PROVE  Turns(p)
  <1>1. pc[p] = "place" /\ SwapOnly
    BY DEF PlaceNew, Goto
  <1>2. Here(p) \in Standing /\ Genuine(Here(p)) /\ tx[p] \in TxShape
    BY <1>1, Facts DEF Steps, Ended, Transaction
  <1>3. tx[p].staging = Whole(source[p]) /\ Whole(source[p]) \in Standing
        /\ Genuine(Whole(source[p]))
    BY <1>1, Facts, TreeShape DEF Careful, Standing
  <1>4. CASE /\ pc' = [pc EXCEPT ![p] = "check"]
             /\ Swap(p, tx[p].staging)
             /\ tx' = [tx EXCEPT ![p].staging = None, ![p].movedNew = TRUE]
    <2> DEFINE t == [tx[p] EXCEPT !.staging = None, !.movedNew = TRUE]
    <2>1. tx' = [tx EXCEPT ![p] = t] /\ t \in TxShape
      BY <1>4, Facts, ZenonT(30) DEF TxShape
    <2>2. /\ t.before = tx[p].before /\ t.backup = tx[p].backup /\ t.movedNew
          /\ t.movedOld = tx[p].movedOld /\ t.committed = tx[p].committed
      BY <1>2 DEF TxShape
    <2> HIDE DEF t
    <2>3. Careful("check", t, source[p])
      BY <2>2, Facts DEF Careful
    <2>4. Follows(pc[p], tx[p], Here(p), "check", t, Whole(source[p]), source[p])
      BY <1>1, <2>2, TreeShape, Facts DEF Follows, Holding, Clear, Undoes, Transaction, Saved
    <2> QED
      BY <1>1, <1>3, <1>4, <2>1, <2>3, <2>4, SwapTurns DEF Swap, Transaction
  <1>5. CASE pc' = [pc EXCEPT ![p] = "rollback"] /\ UNCHANGED <<dest, tx>>
    <2>1. Careful("rollback", tx[p], source[p])
      BY Facts DEF Careful
    <2>2. Follows(pc[p], tx[p], Here(p), "rollback", tx[p], Here(p), source[p])
      BY <1>1 DEF Follows, Holding, Clear, Undoes, Transaction
    <2>3. tx' = [tx EXCEPT ![p] = tx[p]]
      BY <1>5, SameTx
    <2> QED
      BY <1>1, <1>2, <1>5, <2>1, <2>2, <2>3, SwapTurns DEF Transaction
  <1> QED
    BY <1>4, <1>5 DEF PlaceNew, Goto

LEMMA CheckInstalledTurns ==
    ASSUME IInv, NEW p \in Installer, CheckInstalled(p)
    PROVE  Turns(p)
  <1>1. pc[p] = "check" /\ SwapOnly /\ dest' = dest
    BY DEF CheckInstalled, Goto
  <1>2. Here(p) \in Standing /\ Genuine(Here(p)) /\ tx[p] \in TxShape
    BY <1>1, Facts DEF Steps, Ended, Transaction
  <1>3. CASE /\ Here(p) = Whole(source[p])
             /\ pc' = [pc EXCEPT ![p] = "finally"]
             /\ tx' = [tx EXCEPT ![p].committed = TRUE]
    <2> DEFINE t == [tx[p] EXCEPT !.committed = TRUE]
    <2>1. tx' = [tx EXCEPT ![p] = t] /\ t \in TxShape
      BY <1>3, Facts DEF TxShape
    <2>2. t.before = tx[p].before /\ t.backup = tx[p].backup /\ t.committed
      BY <1>2 DEF TxShape
    <2> HIDE DEF t
    <2>3. Careful("finally", t, source[p])
      BY <2>2, Facts DEF Careful
    <2>4. Follows(pc[p], tx[p], Here(p), "finally", t, Here(p), source[p])
      BY <1>1, <1>3, <2>2, TreeShape, Facts DEF Follows, Holding, Clear, Undoes, Transaction
    <2> QED
      BY <1>1, <1>2, <1>3, <2>1, <2>3, <2>4, SwapTurns DEF Transaction
  <1>4. CASE /\ Here(p) # Whole(source[p]) \/ May("verify")
             /\ pc' = [pc EXCEPT ![p] = "rollback"] /\ UNCHANGED tx
    <2>1. Careful("rollback", tx[p], source[p])
      BY Facts DEF Careful
    <2>2. Follows(pc[p], tx[p], Here(p), "rollback", tx[p], Here(p), source[p])
      BY <1>1, <1>4 DEF Follows, Holding, Clear, Undoes, Transaction
    <2>3. tx' = [tx EXCEPT ![p] = tx[p]]
      BY <1>4, SameTx
    <2> QED
      BY <1>1, <1>2, <1>4, <2>1, <2>2, <2>3, SwapTurns DEF Transaction
  <1> QED
    BY <1>3, <1>4 DEF CheckInstalled, Goto

LEMMA RollbackTurns ==
    ASSUME IInv, NEW p \in Installer, Rollback(p)
    PROVE  Turns(p)
  <1>1. /\ pc[p] = "rollback" /\ tx' = [tx EXCEPT ![p] = tx[p]]
        /\ UNCHANGED <<disk, checkout, run, slot, success>>
    BY SameTx DEF Rollback, Goto
  <1>2. PICK s \in {"removing", "restore"} :
           /\ pc' = [pc EXCEPT ![p] = s]
           /\ s = "removing" <=> tx[p].movedNew /\ Here(p) # None
    BY DEF Rollback, Goto
  <1>3. Careful(s, tx[p], source[p])
    BY <1>2, Facts DEF Careful
  <1>4. Follows(pc[p], tx[p], Here(p), s, tx[p], Here(p), source[p])
    BY <1>1, <1>2, TreeShape, Facts DEF Follows, Holding, Clear, Undoes, Transaction, Vacant
  <1>5. /\ pc[p] \in Working /\ s \in Transaction /\ tx[p] \in TxShape
        /\ dest' = dest /\ roots' = roots
        /\ UNCHANGED <<litter, checkout, run, slot, success>>
    BY <1>1, <1>2, Facts DEF Working, Transaction, disk
  <1> QED
    BY <1>1, <1>2, <1>3, <1>4, <1>5, TurnedAside

LEMMA RemoveDestinationTurns ==
    ASSUME IInv, NEW p \in Installer, RemoveDestination(p)
    PROVE  Turns(p)
  <1> DEFINE x == Dismantled(Here(p))
  <1>1. /\ pc[p] = "removing" /\ SwapOnly
        /\ dest' = [dest EXCEPT ![Place(p)] = x]
        /\ tx' = [tx EXCEPT ![p] = tx[p]]
    BY SameTx DEF RemoveDestination, Goto, Swap
  <1>2. PICK s \in {"removed", "finally"} :
           /\ pc' = [pc EXCEPT ![p] = s]
           /\ s = "finally" => May("remove")
    BY DEF RemoveDestination, Goto
  <1>3. Here(p) \in Standing /\ Genuine(Here(p)) /\ tx[p] \in TxShape
    BY <1>1, Facts DEF Steps, Ended, Transaction
  <1>4. x \in Standing /\ Genuine(x)
    BY <1>3, DismantledShape
  <1>5. Careful(s, tx[p], source[p])
    BY <1>2, Facts DEF Careful
  <1>6. Follows(pc[p], tx[p], Here(p), s, tx[p], x, source[p])
    <2>1. Undoes(pc[p], tx[p], Here(p), source[p]) => Here(p) = Whole(source[p])
      BY <1>1 DEF Undoes
    <2>2. Here(p) = Whole(source[p]) => x = Partial(source[p]) /\ x # NotDirectory
      BY TreeShape, Facts DEF Dismantled
    <2> HIDE DEF x
    <2> QED
      BY <1>1, <1>2, <2>1, <2>2 DEF Follows, Holding, Clear, Undoes, Transaction
  <1> HIDE DEF x
  <1> QED
    BY <1>1, <1>2, <1>3, <1>4, <1>5, <1>6, SwapTurns DEF Transaction

LEMMA RemovedTurns ==
    ASSUME IInv, NEW p \in Installer, Removed(p)
    PROVE  Turns(p)
  <1> DEFINE t == [tx[p] EXCEPT !.movedNew = FALSE]
  <1>1. /\ pc[p] = "removed" /\ SwapOnly
        /\ pc' = [pc EXCEPT ![p] = "restore"]
        /\ dest' = [dest EXCEPT ![Place(p)] = None]
    BY DEF Removed, Goto, Swap
  <1>2. tx' = [tx EXCEPT ![p] = t] /\ t \in TxShape
    BY Facts DEF Removed, TxShape
  <1>3. /\ t.before = tx[p].before /\ t.backup = tx[p].backup /\ ~t.movedNew
        /\ t.movedOld = tx[p].movedOld /\ t.committed = tx[p].committed
    BY Facts DEF TxShape
  <1> HIDE DEF t
  <1>4. Careful("restore", t, source[p])
    BY <1>3, Facts DEF Careful
  <1>5. Follows(pc[p], tx[p], Here(p), "restore", t, None, source[p])
    BY <1>1, <1>3, NoTreeAssumption DEF Follows, Holding, Clear, Undoes, Transaction, Saved, Vacant
  <1>6. Genuine(None) /\ None \in Standing
    BY NoTreeAssumption DEF Genuine, Standing
  <1> QED
    BY <1>1, <1>2, <1>4, <1>5, <1>6, SwapTurns DEF Transaction

\* Both attempts to put the old copy back.
LEMMA PutBack ==
    ASSUME IInv, NEW p \in Installer, NEW t \in TxShape, pc[p] \in {"restore", "finally"},
           Restorable(p), t.backup = None, t.before = tx[p].before,
           t.movedOld \in {FALSE, tx[p].movedOld}, t.committed = tx[p].committed
    PROVE  /\ tx[p].backup \in Standing /\ Genuine(tx[p].backup)
           /\ ~t.movedOld =>
                 Follows(pc[p], tx[p], Here(p), "finally", t, tx[p].backup, source[p])
           /\ Follows(pc[p], tx[p], Here(p), "dropbackup", t, tx[p].backup, source[p])
  <1>1. tx[p].backup \in Standing /\ Genuine(tx[p].backup)
    BY Facts, Fields DEF Careful
  <1>2. ASSUME Undoes(pc[p], tx[p], Here(p), source[p])
        PROVE  /\ t.before # NotDirectory /\ ~t.committed
               /\ Unmoved(t.before, tx[p].backup)
    BY <1>2, TreeShape, Facts DEF Undoes, Transaction, Restorable, Saved
  <1>3. ASSUME Undoes(pc[p], tx[p], Here(p), source[p])
        PROVE  /\ ~t.movedOld => Undoes("finally", t, tx[p].backup, source[p])
               /\ Undoes("dropbackup", t, tx[p].backup, source[p])
    BY <1>2, <1>3 DEF Undoes, Transaction, Unmoved
  <1>4. ASSUME Undoes(pc[p], tx[p], Here(p), source[p]), NEW s \in {"finally", "dropbackup"}
        PROVE  /\ Holding(s, t, tx[p].backup) = Holding(pc[p], tx[p], Here(p))
               /\ Clear(pc[p], tx[p], Here(p), source[p]) =>
                     Clear(s, t, tx[p].backup, source[p])
    BY <1>2, <1>4, NoTreeAssumption DEF Holding, Clear, Transaction, Unmoved
  <1> QED
    BY <1>1, <1>3, <1>4 DEF Follows

LEMMA RestoreTurns ==
    ASSUME IInv, NEW p \in Installer, Restore(p)
    PROVE  Turns(p)
  <1>1. pc[p] = "restore" /\ SwapOnly /\ pc' = [pc EXCEPT ![p] = "finally"]
    BY DEF Restore, Goto
  <1>2. Here(p) \in Standing /\ Genuine(Here(p)) /\ tx[p] \in TxShape
    BY <1>1, Facts DEF Steps, Ended, Transaction
  <1>3. CASE /\ Restorable(p)
             /\ Swap(p, tx[p].backup)
             /\ tx' = [tx EXCEPT ![p].backup = None, ![p].movedOld = FALSE]
    <2> DEFINE t == [tx[p] EXCEPT !.backup = None, !.movedOld = FALSE]
    <2>1. tx' = [tx EXCEPT ![p] = t] /\ t \in TxShape
      BY <1>3, Facts, ZenonT(30) DEF TxShape, Standing
    <2>2. t.before = tx[p].before /\ t.backup = None /\ ~t.movedOld
          /\ t.committed = tx[p].committed
      BY <1>2 DEF TxShape
    <2> HIDE DEF t
    <2>3. /\ tx[p].backup \in Standing /\ Genuine(tx[p].backup)
          /\ Follows(pc[p], tx[p], Here(p), "finally", t, tx[p].backup, source[p])
      BY <1>1, <1>3, <2>1, <2>2, PutBack, Fields
    <2>4. Careful("finally", t, source[p])
      BY <2>2, NoTreeAssumption DEF Careful, Genuine
    <2> QED
      BY <1>1, <1>3, <2>1, <2>3, <2>4, SwapTurns DEF Swap, Transaction
  <1>4. CASE UNCHANGED <<dest, tx>>
    <2>1. Careful("finally", tx[p], source[p])
      BY Facts DEF Careful
    <2>2. Follows(pc[p], tx[p], Here(p), "finally", tx[p], Here(p), source[p])
      BY <1>1, TreeShape, Facts DEF Follows, Holding, Clear, Undoes, Transaction, Vacant
    <2>3. tx' = [tx EXCEPT ![p] = tx[p]]
      BY <1>4, SameTx
    <2> QED
      BY <1>1, <1>2, <1>4, <2>1, <2>2, <2>3, SwapTurns DEF Transaction
  <1> QED
    BY <1>3, <1>4 DEF Restore

LEMMA RestoreAgainTurns ==
    ASSUME IInv, NEW p \in Installer, RestoreAgain(p)
    PROVE  Turns(p)
  <1>1. pc[p] = "finally" /\ SwapOnly /\ pc' = [pc EXCEPT ![p] = "dropbackup"]
    BY DEF RestoreAgain, Goto
  <1>2. Here(p) \in Standing /\ Genuine(Here(p)) /\ tx[p] \in TxShape
    BY <1>1, Facts DEF Steps, Ended, Transaction
  <1>3. CASE /\ Restorable(p)
             /\ Swap(p, tx[p].backup)
             /\ tx' = [tx EXCEPT ![p].backup = None]
    <2> DEFINE t == [tx[p] EXCEPT !.backup = None]
    <2>1. tx' = [tx EXCEPT ![p] = t] /\ t \in TxShape
      BY <1>3, Facts DEF TxShape, Standing
    <2>2. t.before = tx[p].before /\ t.backup = None /\ t.movedOld = tx[p].movedOld
          /\ t.committed = tx[p].committed
      BY <1>2 DEF TxShape
    <2> HIDE DEF t
    <2>3. /\ tx[p].backup \in Standing /\ Genuine(tx[p].backup)
          /\ Follows(pc[p], tx[p], Here(p), "dropbackup", t, tx[p].backup, source[p])
      BY <1>1, <1>3, <2>1, <2>2, PutBack, Fields
    <2>4. Careful("dropbackup", t, source[p])
      BY <2>2, NoTreeAssumption DEF Careful, Genuine
    <2> QED
      BY <1>1, <1>3, <2>1, <2>3, <2>4, SwapTurns DEF Swap, Transaction
  <1>4. CASE ~Restorable(p) /\ UNCHANGED <<dest, tx>>
    <2>1. Careful("dropbackup", tx[p], source[p])
      BY Facts DEF Careful
    <2>2. Follows(pc[p], tx[p], Here(p), "dropbackup", tx[p], Here(p), source[p])
      <3>1. tx[p].committed \in BOOLEAN /\ tx[p].movedOld \in BOOLEAN
        BY <1>2, Fields
      <3>2. Undoes(pc[p], tx[p], Here(p), source[p]) =>
               IF tx[p].committed THEN Here(p) = Whole(source[p])
               ELSE Here(p) \in {tx[p].before, NotDirectory, Partial(source[p])}
        BY <1>1, <1>4, <3>1 DEF Undoes, Transaction, Saved, Restorable, Unmoved
      <3>3. Undoes(pc[p], tx[p], Here(p), source[p]) =>
               Undoes("dropbackup", tx[p], Here(p), source[p])
        BY <1>1, <3>2 DEF Undoes, Transaction
      <3> QED
        BY <1>1, <3>3 DEF Follows, Holding, Clear, Transaction
    <2>3. tx' = [tx EXCEPT ![p] = tx[p]]
      BY <1>4, SameTx
    <2> QED
      BY <1>1, <1>2, <1>4, <2>1, <2>2, <2>3, SwapTurns DEF Transaction
  <1> QED
    BY <1>3, <1>4 DEF RestoreAgain, Goto

LEMMA DropBackupTurns ==
    ASSUME IInv, NEW p \in Installer, DropBackup(p)
    PROVE  Turns(p)
  <1>1. /\ pc[p] = "dropbackup" /\ SwapOnly /\ dest' = dest
        /\ pc' = [pc EXCEPT ![p] = "dropstaging"]
    BY DEF DropBackup, Goto
  <1>2. Here(p) \in Standing /\ Genuine(Here(p)) /\ tx[p] \in TxShape
    BY <1>1, Facts DEF Steps, Ended, Transaction
  <1>3. tx[p].backup \in Standing /\ Genuine(tx[p].backup)
    BY Facts, Fields DEF Careful
  <1>4. PICK x \in {None, Dismantled(tx[p].backup)} : tx' = [tx EXCEPT ![p].backup = x]
    BY Facts DEF DropBackup
  <1>5. x \in Standing /\ Genuine(x) /\ (tx[p].backup # NotDirectory => x # NotDirectory)
    <2>1. tx[p].backup \in Tree => Dismantled(tx[p].backup) # NotDirectory
      <3>1. \A v \in Version \cup {Edited} : Partial(v) # NotDirectory
        BY TreeShape
      <3> QED
        BY <3>1, NoTreeAssumption DEF Dismantled, Tree
    <2> QED
      BY <1>3, <1>4, <2>1, DismantledShape, NoTreeAssumption DEF Genuine, Standing, Dismantled
  <1> DEFINE t == [tx[p] EXCEPT !.backup = x]
  <1>6. tx' = [tx EXCEPT ![p] = t] /\ t \in TxShape
    BY <1>4, <1>5, Facts DEF TxShape
  <1>7. t.before = tx[p].before /\ t.backup = x /\ t.committed = tx[p].committed
    BY <1>2 DEF TxShape
  <1> HIDE DEF t
  <1>8. Careful("dropstaging", t, source[p])
    BY <1>5, <1>7 DEF Careful
  <1>9. Follows(pc[p], tx[p], Here(p), "dropstaging", t, Here(p), source[p])
    BY <1>1, <1>5, <1>7 DEF Follows, Holding, Clear, Undoes, Transaction
  <1> QED
    BY <1>1, <1>2, <1>6, <1>8, <1>9, SwapTurns DEF Transaction

-----------------------------------------------------------------------------
(* The steps that end the work at one skill directory *)

LEMMA FinishCases ==
    ASSUME IInv, NEW p \in Installer,
           SyncEqual(p) \/ SyncReport(p) \/ SyncRefuse(p) \/ CopyRefuse(p)
              \/ RestoreFails(p) \/ DropStaging(p)
    PROVE  Finishes(p)
  <1>1. CASE SyncEqual(p)
    BY <1>1 DEF SyncEqual, Finishes, Working, disk
  <1>2. CASE SyncReport(p)
    BY <1>2 DEF SyncReport, Writes, Finishes, Working, disk
  <1>3. CASE SyncRefuse(p)
    BY <1>3 DEF SyncRefuse, Finishes, Working, disk
  <1>4. CASE CopyRefuse(p)
    BY <1>4 DEF CopyRefuse, Finishes, Working, Transaction, disk
  <1>5. CASE RestoreFails(p)
    BY <1>5 DEF RestoreFails, Finishes, Working, Transaction
  <1>6. CASE DropStaging(p)
    <2>1. /\ pc[p] = "dropstaging" /\ pc[p] \in Working
          /\ Finish(p, ~tx[p].committed, tx[p].committed)
          /\ litter' \in {litter, litter \cup {Target(p)}}
          /\ UNCHANGED <<dest, roots, checkout, source, job, expected>>
      BY <1>6 DEF DropStaging, Working, Transaction
    <2>2. tx[p].committed \in BOOLEAN
      BY Facts, Fields
    <2>3. tx[p].committed /\ Undoes(pc[p], tx[p], Here(p), source[p]) =>
             Here(p) = Whole(source[p])
      BY <2>1 DEF Undoes
    <2> QED
      BY <2>1, <2>2, <2>3 DEF Finishes
  <1> QED
    BY <1>1, <1>2, <1>3, <1>4, <1>5, <1>6

\* A step of a process is one of eight kinds.
Opens(p) ==
    \/ Start(p) \/ VerifySources(p) \/ Preflight(p) \/ StageSources(p)
    \/ ReadRoot(p) \/ CompareSkill(p) \/ Die(p)

LEMMA StepKinds ==
    ASSUME IInv, NEW p \in Installer, Step(p)
    PROVE  Turns(p) \/ Finishes(p) \/ Opens(p)
  BY SyncChangeTurns, CopyTreeTurns, LookForOldTurns, MoveOldTurns, PlaceNewTurns,
     CheckInstalledTurns, RollbackTurns, RemoveDestinationTurns, RemovedTurns, RestoreTurns,
     RestoreAgainTurns, DropBackupTurns, FinishCases
     DEF Step, Opens

\* A step of a process moves that process alone.
LEMMA StepMoves ==
    ASSUME IInv, NEW p \in Installer, Step(p)
    PROVE  \E s \in Steps \ {"idle"} : pc' = [pc EXCEPT ![p] = s]
  <1>1. CASE Turns(p)
    BY <1>1 DEF Turns, Steps, Transaction
  <1>2. CASE Finishes(p)
    BY <1>2 DEF Finishes, Finish, Steps, Ended, Transaction
  <1>3. CASE Opens(p)
    BY <1>3 DEF Opens, Start, VerifySources, Preflight, StageSources, ReadRoot, CompareSkill,
                Die, Goto, Steps, Ended, Transaction
  <1> QED
    BY <1>1, <1>2, <1>3, StepKinds

-----------------------------------------------------------------------------
(* The next skill directory *)

LEMMA FirstOf ==
    ASSUME NEW S, S \subseteq Nat, S # {}
    PROVE  \E i \in S : /\ i = CHOOSE m \in S : \A j \in S : m <= j
                        /\ \A j \in S : i <= j
  <1> DEFINE R == {ss \in Nat \X Nat : ss[1] < ss[2]}
  <1>1. IsWellFoundedOn(R, Nat)
    BY NatLessThanWellFounded DEF OpToRel
  <1>2. \A x, y \in Nat : x < y => <<x, y>> \in R
    OBVIOUS
  <1> HIDE DEF R
  <1>3. PICK x \in S : \A y \in S : ~(<<y, x>> \in R)
    BY <1>1, WFMin
  <1>4. \A y \in S : ~(y < x)
    BY <1>2, <1>3
  <1>5. \A y \in S : x <= y
    BY <1>4
  <1> QED
    BY <1>5

LEMMA Sizes ==
    /\ Len(Home) \in Nat \ {0} /\ Len(Fleet) \in Nat \ {0} /\ Len(Skills) \in Nat \ {0}
    /\ Number = 1..Len(Skills) /\ 1 \in Number
    /\ \A i \in 1..Len(Home) : Home[i].path \in Root
    /\ \A i \in 1..Len(Fleet) : Fleet[i] \in Root
  <1>1. \A s : s # <<>> /\ s \in Seq(STRING) => Len(s) \in Nat \ {0}
    OBVIOUS
  <1>2. Len(Home) \in Nat \ {0}
    BY InstallAssumption
  <1>3. Len(Fleet) \in Nat \ {0} /\ Len(Skills) \in Nat \ {0}
    BY <1>1, InstallAssumption
  <1>4. Number = 1..Len(Skills) /\ 1 \in Number
    BY <1>3 DEF Number
  <1>5. /\ \A i \in 1..Len(Home) : Home[i].path \in Root
        /\ \A i \in 1..Len(Fleet) : Fleet[i] \in Root
    BY DEF Root
  <1> QED
    BY <1>2, <1>3, <1>4, <1>5

\* The work is done, or given up, with the last slot.
Leaves(p, failed) ==
    /\ pc' = [pc EXCEPT ![p] = "ended"]
    /\ slot' = [slot EXCEPT ![p] = <<1, 1>>]
    /\ active' = [active EXCEPT ![p] = {}]
    /\ Command(p, "install") => Later(p) = {} /\ (failed \/ slot[p][2] = Len(Skills))

NextSkill(p, failed) ==
    /\ Command(p, "install") /\ ~failed /\ slot[p][2] < Len(Skills)
    /\ pc' = [pc EXCEPT ![p] = "sync"]
    /\ slot' = [slot EXCEPT ![p] = <<slot[p][1], slot[p][2] + 1>>]
    /\ active' = [active EXCEPT ![p] = active[p]]

NextTarget(p, failed) ==
    /\ Command(p, "install") /\ (failed \/ slot[p][2] = Len(Skills))
    /\ \E i \in active[p] :
          /\ slot[p][1] < i /\ \A j \in active[p] : j > slot[p][1] => i <= j
          /\ pc' = [pc EXCEPT ![p] = "sync"]
          /\ slot' = [slot EXCEPT ![p] = <<i, 1>>]
          /\ active' = [active EXCEPT ![p] = active[p]]

LEMMA FinishKinds ==
    ASSUME IInv, NEW p \in Installer, pc[p] \in Working,
           NEW failed \in BOOLEAN, NEW ok \in BOOLEAN, Finish(p, failed, ok)
    PROVE  /\ Leaves(p, failed) \/ NextSkill(p, failed) \/ NextTarget(p, failed)
           /\ success' = [success EXCEPT ![p] = success[p] /\ ok]
           /\ tx' = [tx EXCEPT ![p] = NoTransaction]
  <1>1. slot[p] \in Nat \X Number /\ slot[p][1] \in Nat /\ slot[p][2] \in 1..Len(Skills)
        /\ Len(Skills) \in Nat /\ active[p] \subseteq Nat
    BY Facts, Sizes
  <1>2. job[p].command \in {"install", "export"}
    BY Facts DEF Fits
  <1>3. slot \in [Installer -> Nat \X Number] /\ active \in [Installer -> SUBSET (1..Len(Home))]
        /\ success \in [Installer -> BOOLEAN]
    BY DEF IInv, TypeOK
  <1>0. success' = [success EXCEPT ![p] = success[p] /\ ok]
        /\ tx' = [tx EXCEPT ![p] = NoTransaction]
    BY DEF Finish
  <1>4. CASE Command(p, "export") \/ LastSlot(p, failed)
    BY <1>2, <1>3, <1>4 DEF Finish, Leaves, Command, LastSlot
  <1>5. CASE ~(Command(p, "export") \/ LastSlot(p, failed))
    <2>1. Command(p, "install")
      BY <1>2, <1>5 DEF Command
    <2>2. /\ pc' = [pc EXCEPT ![p] = "sync"]
          /\ slot' = [slot EXCEPT ![p] = NextSlot(p, failed)]
          /\ active' = [active EXCEPT ![p] = active[p]]
      BY <1>3, <1>5 DEF Finish
    <2>3. ASSUME slot[p][2] < Len(Skills), ~failed
          PROVE  NextSkill(p, failed)
      <3>1. NextSlot(p, failed) = <<slot[p][1], slot[p][2] + 1>>
        BY <2>3 DEF NextSlot
      <3>2. slot' = [slot EXCEPT ![p] = <<slot[p][1], slot[p][2] + 1>>]
        BY <2>2, <3>1
      <3>3. pc' = [pc EXCEPT ![p] = "sync"] /\ active' = [active EXCEPT ![p] = active[p]]
        BY <2>2
      <3> QED
        BY <2>1, <2>3, <3>2, <3>3 DEF NextSkill
    <2>4. ASSUME ~(slot[p][2] < Len(Skills) /\ ~failed)
          PROVE  NextTarget(p, failed)
      <3>1. failed \/ slot[p][2] = Len(Skills)
        BY <1>1, <2>4
      <3>2. Later(p) # {} /\ Later(p) \subseteq Nat
        BY <1>1, <1>5, <3>1 DEF LastSlot, Later
      <3>3. PICK i \in Later(p) : /\ i = CHOOSE m \in Later(p) : \A j \in Later(p) : m <= j
                                  /\ \A j \in Later(p) : i <= j
        BY <3>2, FirstOf
      <3>4. slot' = [slot EXCEPT ![p] = <<i, 1>>]
        BY <2>2, <2>4, <3>3 DEF NextSlot
      <3>5. i \in active[p] /\ slot[p][1] < i /\ \A j \in active[p] : j > slot[p][1] => i <= j
        BY <1>1, <3>3 DEF Later
      <3>6. pc' = [pc EXCEPT ![p] = "sync"] /\ active' = [active EXCEPT ![p] = active[p]]
        BY <2>2
      <3> QED
        BY <2>1, <3>1, <3>4, <3>5, <3>6 DEF NextTarget
    <2> QED
      BY <1>0, <2>3, <2>4
  <1> QED
    BY <1>4, <1>5
-----------------------------------------------------------------------------
(* The invariant is inductive *)

LEMMA JobShape ==
    ASSUME NEW j \in AllJobs
    PROVE  /\ j.command \in {"install", "export", "parity"}
           /\ j.flag \in {"write", "verify", "dry"}
           /\ j.named \in BOOLEAN
  <1>1. CASE j \in [command : {"install"}, flag : {"write", "verify", "dry"}, named : BOOLEAN]
    BY <1>1
  <1>2. CASE j \in [command : {"export"}, flag : {"write", "verify", "dry"}, named : {FALSE}]
    BY <1>2
  <1>3. CASE j = [command |-> "parity", flag |-> "verify", named |-> FALSE]
    BY <1>3
  <1> QED
    BY <1>1, <1>2, <1>3 DEF AllJobs

LEMMA Located ==
    ASSUME NEW j \in AllJobs, NEW s \in Steps \ (Ended \cup {"idle"}), NEW at \in Nat \X Number,
           NEW ac \in SUBSET (1..Len(Home)), Fits(j, s, at, ac)
    PROVE  /\ j.command \in {"install", "export", "parity"}
           /\ j.command = "install" => at[1] \in 1..Len(Home)
           /\ j.command = "parity" => at[1] \in 1..Len(Fleet)
           /\ j.command = "export" => at[2] = 1
  <1>1. j.command \in {"install", "export", "parity"}
    BY JobShape
  <1>2. CASE s \in {"idle", "sources", "preflight", "stage"}
    BY <1>1, <1>2, Sizes DEF Fits
  <1>3. CASE s \in Working
    BY <1>1, <1>3, Sizes DEF Fits
  <1>4. CASE s \in {"inventory", "compare"}
    BY <1>1, <1>4, Sizes DEF Fits
  <1> QED
    BY <1>2, <1>3, <1>4 DEF Steps, Working

LEMMA Kept ==
    ASSUME IInv, NEW p \in Installer,
           NEW s \in Steps, NEW at \in Nat \X Number, NEW ac \in SUBSET (1..Len(Home)),
           NEW ex \in [Number -> Version \cup {Edited}], NEW t \in TxShape, NEW su \in BOOLEAN,
           pc' = [pc EXCEPT ![p] = s], slot' = [slot EXCEPT ![p] = at],
           active' = [active EXCEPT ![p] = ac], expected' = [expected EXCEPT ![p] = ex],
           tx' = [tx EXCEPT ![p] = t], success' = [success EXCEPT ![p] = su],
           UNCHANGED <<checkout, source, job>>,
           dest' \in [Slots -> Standing], EditedNeverLands',
           roots' \subseteq Root, litter' \subseteq Root \cup {Output[1]},
           Fits(job[p], s, at, ac), Careful(s, t, source[p])
    PROVE  IInv'
  <1>1. TypeOK
    BY DEF IInv
  <1>2. /\ pc' \in [Installer -> Steps] /\ slot' \in [Installer -> Nat \X Number]
        /\ active' \in [Installer -> SUBSET (1..Len(Home))]
        /\ expected' \in [Installer -> [Number -> Version \cup {Edited}]]
        /\ tx' \in [Installer -> TxShape] /\ success' \in [Installer -> BOOLEAN]
        /\ checkout' \in [Installer -> [Number -> Version \cup {Edited}]]
        /\ source' \in [Installer -> Version] /\ job' \in [Installer -> Jobs]
    BY <1>1 DEF TypeOK, Steps, TxShape
  <1>3. pc \in [Installer -> Steps] /\ tx \in [Installer -> TxShape]
    BY <1>1 DEF TypeOK, Steps, TxShape
  <1>4. ASSUME NEW q \in Installer
        PROVE  /\ Fits(job[q], pc[q], slot[q], active[q])'
               /\ Careful(pc[q], tx[q], source[q])'
    <2>1. CASE q = p
      <3>1. pc'[q] = s /\ slot'[q] = at /\ active'[q] = ac /\ tx'[q] = t
            /\ job'[q] = job[p] /\ source'[q] = source[p]
        BY <1>1, <1>3, <2>1 DEF TypeOK
      <3> QED
        BY <3>1
    <2>2. CASE q # p
      <3>1. pc'[q] = pc[q] /\ slot'[q] = slot[q] /\ active'[q] = active[q] /\ tx'[q] = tx[q]
            /\ job'[q] = job[q] /\ source'[q] = source[q]
        BY <1>1, <1>3, <2>2 DEF TypeOK
      <3> QED
        BY <3>1, Facts
    <2> QED
      BY <2>1, <2>2
  <1>5. ASSUME NEW q \in Installer, Active(q)'
        PROVE  Place(q)' \in Slots
    <2>1. /\ job'[q] \in AllJobs /\ pc'[q] \in Steps \ (Ended \cup {"idle"})
          /\ slot'[q] \in Nat \X Number /\ active'[q] \in SUBSET (1..Len(Home))
      BY <1>2, <1>5, InstallAssumption DEF Active
    <2>2. Fits(job'[q], pc'[q], slot'[q], active'[q])
      BY <1>4
    <2>3. /\ job'[q].command \in {"install", "export", "parity"}
          /\ job'[q].command = "install" => slot'[q][1] \in 1..Len(Home)
          /\ job'[q].command = "parity" => slot'[q][1] \in 1..Len(Fleet)
          /\ job'[q].command = "export" => slot'[q][2] = 1
      BY <2>1, <2>2, Located
    <2>4. /\ job'[q].command = "install" => Home[slot'[q][1]].path \in Root
          /\ job'[q].command = "parity" => Fleet[slot'[q][1]] \in Root
          /\ slot'[q][2] \in Number
      BY <2>1, <2>3, Sizes
    <2> QED
      BY <2>3, <2>4 DEF Place, Target, Slots, Output
  <1>6. TypeOK'
    BY <1>2, <1>5 DEF TypeOK, Steps, TxShape
  <1> QED
    BY <1>4, <1>6 DEF IInv

LEMMA DiskFacts ==
    ASSUME IInv
    PROVE  /\ dest \in [Slots -> Standing] /\ EditedNeverLands
           /\ roots \subseteq Root /\ litter \subseteq Root \cup {Output[1]}
  BY DEF IInv, TypeOK

LEMMA TargetTyped ==
    ASSUME IInv, NEW p \in Installer, pc[p] \in Steps \ (Ended \cup {"idle"})
    PROVE  Target(p) \in Root \cup {Output[1]}
  <1>1. /\ job[p].command \in {"install", "export", "parity"}
        /\ job[p].command = "install" => slot[p][1] \in 1..Len(Home)
        /\ job[p].command = "parity" => slot[p][1] \in 1..Len(Fleet)
    BY Facts, Located
  <1> QED
    BY <1>1, Sizes DEF Target

LEMMA TurnKeeps ==
    ASSUME IInv, NEW p \in Installer, Turns(p)
    PROVE  IInv'
  <1>1. PICK s \in Transaction, t \in TxShape, x \in Standing :
           /\ pc' = [pc EXCEPT ![p] = s] /\ tx' = [tx EXCEPT ![p] = t]
           /\ dest' = [dest EXCEPT ![Place(p)] = x]
           /\ Careful(s, t, source[p]) /\ Genuine(x)
    BY DEF Turns
  <1>2. /\ pc[p] \in Working
        /\ roots' \in {roots, roots \cup ({Target(p)} \cap Root)}
        /\ UNCHANGED <<litter, checkout, run, slot, success>>
    BY DEF Turns
  <1>3. Place(p) \in Slots
    BY <1>2, Facts DEF Working, Transaction, Steps, Ended
  <1>4. dest' \in [Slots -> Standing] /\ EditedNeverLands'
    BY <1>1, <1>3, DiskFacts DEF EditedNeverLands, Genuine
  <1>5. Fits(job[p], s, slot[p], active[p])
    BY <1>1, <1>2, Facts DEF Fits, Working, Transaction
  <1>6. /\ slot' = [slot EXCEPT ![p] = slot[p]] /\ active' = [active EXCEPT ![p] = active[p]]
        /\ expected' = [expected EXCEPT ![p] = expected[p]]
        /\ success' = [success EXCEPT ![p] = success[p]]
    BY <1>2 DEF run, IInv, TypeOK
  <1>7. s \in Steps
    BY <1>1 DEF Steps
  <1>8. roots' \subseteq Root /\ litter' \subseteq Root \cup {Output[1]}
    BY <1>2, DiskFacts
  <1>9. UNCHANGED <<checkout, source, job>>
    BY <1>2 DEF run
  <1> QED
    BY <1>1, <1>4, <1>5, <1>6, <1>7, <1>8, <1>9, Facts, Kept

LEMMA NoTransactionShape ==
    /\ NoTransaction \in TxShape
    /\ \A s \in {"sync", "ended", "dead"}, v \in Version : Careful(s, NoTransaction, v)
  BY NoTreeAssumption DEF NoTransaction, TxShape, Standing, Careful, Genuine

LEMMA FinishKeeps ==
    ASSUME IInv, NEW p \in Installer, Finishes(p)
    PROVE  IInv'
  <1>1. PICK failed \in BOOLEAN, ok \in BOOLEAN : Finish(p, failed, ok)
    BY DEF Finishes
  <1>2. /\ pc[p] \in Working
        /\ litter' \in {litter, litter \cup {Target(p)}}
        /\ UNCHANGED <<dest, roots, checkout, source, job, expected>>
    BY DEF Finishes
  <1>3. /\ Leaves(p, failed) \/ NextSkill(p, failed) \/ NextTarget(p, failed)
        /\ success' = [success EXCEPT ![p] = success[p] /\ ok]
        /\ tx' = [tx EXCEPT ![p] = NoTransaction]
    BY <1>1, <1>2, FinishKinds
  <1>4. \E s \in {"sync", "ended"}, at \in Nat \X Number, ac \in SUBSET (1..Len(Home)) :
           /\ pc' = [pc EXCEPT ![p] = s] /\ slot' = [slot EXCEPT ![p] = at]
           /\ active' = [active EXCEPT ![p] = ac]
           /\ Fits(job[p], s, at, ac)
    <2>1. CASE Leaves(p, failed)
      <3>1. Fits(job[p], "ended", <<1, 1>>, {})
        BY DEF Fits, Working, Transaction
      <3> QED
        BY <2>1, <3>1, Sizes DEF Leaves
    <2>2. CASE NextSkill(p, failed)
      <3> DEFINE at == <<slot[p][1], slot[p][2] + 1>>
      <3>1. slot[p][2] + 1 \in Number /\ slot[p][1] \in Nat
        BY <2>2, Facts, Sizes DEF NextSkill
      <3>2. job[p].command = "install" /\ slot[p][1] \in active[p]
        BY <1>2, <2>2, Facts DEF Fits, NextSkill, Command
      <3>3. at \in Nat \X Number /\ Fits(job[p], "sync", at, active[p])
        BY <3>1, <3>2 DEF Fits, Working
      <3>4. pc' = [pc EXCEPT ![p] = "sync"] /\ slot' = [slot EXCEPT ![p] = at]
            /\ active' = [active EXCEPT ![p] = active[p]]
        BY <2>2 DEF NextSkill
      <3> HIDE DEF at
      <3> QED
        BY <3>3, <3>4, Facts
    <2>3. CASE NextTarget(p, failed)
      <3>1. PICK i \in active[p] :
               /\ pc' = [pc EXCEPT ![p] = "sync"] /\ slot' = [slot EXCEPT ![p] = <<i, 1>>]
               /\ active' = [active EXCEPT ![p] = active[p]]
        BY <2>3 DEF NextTarget
      <3>2. <<i, 1>> \in Nat \X Number /\ job[p].command = "install"
        BY <2>3, Facts, Sizes DEF NextTarget, Command
      <3>3. Fits(job[p], "sync", <<i, 1>>, active[p])
        BY <3>2 DEF Fits
      <3> QED
        BY <3>1, <3>2, <3>3, Facts
    <2> QED
      BY <1>3, <2>1, <2>2, <2>3
  <1>5. PICK s \in {"sync", "ended"}, at \in Nat \X Number, ac \in SUBSET (1..Len(Home)) :
           /\ pc' = [pc EXCEPT ![p] = s] /\ slot' = [slot EXCEPT ![p] = at]
           /\ active' = [active EXCEPT ![p] = ac]
           /\ Fits(job[p], s, at, ac)
    BY <1>4
  <1>6. dest' \in [Slots -> Standing] /\ EditedNeverLands'
        /\ roots' \subseteq Root /\ litter' \subseteq Root \cup {Output[1]}
    BY <1>2, DiskFacts, TargetTyped DEF EditedNeverLands, Steps, Ended, Working, Transaction
  <1>7. expected' = [expected EXCEPT ![p] = expected[p]] /\ s \in Steps
        /\ (success[p] /\ ok) \in BOOLEAN
    BY <1>2, <1>5 DEF IInv, TypeOK, Steps, Ended
  <1>8. Careful(s, NoTransaction, source[p]) /\ NoTransaction \in TxShape
    BY <1>5, NoTransactionShape, Facts
  <1> QED
    BY <1>2, <1>3, <1>5, <1>6, <1>7, <1>8, Facts, Kept

\* A step that moves the process along and leaves disk and transaction alone.
LEMMA AlongKeeps ==
    ASSUME IInv, NEW p \in Installer, pc[p] \notin Transaction,
           NEW s \in Steps \ Transaction, NEW at \in Nat \X Number,
           NEW ac \in SUBSET (1..Len(Home)), NEW ex \in [Number -> Version \cup {Edited}],
           NEW su \in BOOLEAN,
           pc' = [pc EXCEPT ![p] = s], slot' = [slot EXCEPT ![p] = at],
           active' = [active EXCEPT ![p] = ac], expected' = [expected EXCEPT ![p] = ex],
           success' = [success EXCEPT ![p] = su],
           UNCHANGED <<disk, checkout, source, job, tx>>,
           Fits(job[p], s, at, ac)
    PROVE  IInv'
  <1>1. dest' \in [Slots -> Standing] /\ EditedNeverLands'
        /\ roots' \subseteq Root /\ litter' \subseteq Root \cup {Output[1]}
    BY DiskFacts DEF disk, EditedNeverLands
  <1>2. tx' = [tx EXCEPT ![p] = tx[p]]
    BY SameTx
  <1>3. Careful(s, tx[p], source[p])
    BY Facts DEF Careful, Transaction
  <1> QED
    BY <1>1, <1>2, <1>3, Facts, Kept

\* A step that changes nothing but its place and its report.
LEMMA AsideKeeps ==
    ASSUME IInv, NEW p \in Installer, pc[p] \notin Transaction,
           NEW s \in Steps \ Transaction, NEW su \in BOOLEAN,
           pc' = [pc EXCEPT ![p] = s], success' = [success EXCEPT ![p] = su],
           UNCHANGED <<disk, checkout, run, slot, tx>>,
           Fits(job[p], s, slot[p], active[p])
    PROVE  IInv'
  <1>1. /\ slot' = [slot EXCEPT ![p] = slot[p]] /\ active' = [active EXCEPT ![p] = active[p]]
        /\ expected' = [expected EXCEPT ![p] = expected[p]]
    BY DEF IInv, TypeOK, run
  <1>2. UNCHANGED <<disk, checkout, source, job, tx>>
    BY DEF run
  <1> QED
    BY <1>1, <1>2, Facts, AlongKeeps

LEMMA StartKeeps ==
    ASSUME IInv, NEW p \in Installer, Start(p)
    PROVE  IInv'
  <1>1. /\ pc[p] = "idle" /\ pc' = [pc EXCEPT ![p] = "sources"]
        /\ UNCHANGED <<disk, checkout, run, slot, tx, success>>
    BY DEF Start, Goto
  <1>2. Fits(job[p], "sources", slot[p], active[p])
    BY <1>1, Facts DEF Fits, Working, Transaction
  <1>3. success' = [success EXCEPT ![p] = success[p]]
    BY <1>1 DEF IInv, TypeOK
  <1>4. pc[p] \notin Transaction /\ "sources" \in Steps \ Transaction
    BY <1>1 DEF Steps, Transaction
  <1>5. UNCHANGED <<disk, checkout, run, slot, tx>>
    BY <1>1
  <1> QED
    BY <1>1, <1>2, <1>3, <1>4, <1>5, Facts, AsideKeeps

LEMMA VerifySourcesKeeps ==
    ASSUME IInv, NEW p \in Installer, VerifySources(p)
    PROVE  IInv'
  <1>1. /\ pc[p] = "sources" /\ success' = [success EXCEPT ![p] = Signed(p)]
        /\ UNCHANGED <<disk, checkout, run, slot, tx>>
    BY DEF VerifySources, Goto
  <1>2. job[p].command \in {"install", "export", "parity"}
    BY Facts, JobShape
  <1>3. PICK s \in {"ended", "stage", "inventory", "preflight"} :
           /\ pc' = [pc EXCEPT ![p] = s]
           /\ s = "stage" => job[p].command = "export"
           /\ s = "inventory" => job[p].command = "parity"
           /\ s = "preflight" => job[p].command = "install"
    BY <1>2 DEF VerifySources, Goto, Command
  <1>4. slot[p] = <<1, 1>>
    BY <1>1, Facts DEF Fits
  <1>5. Fits(job[p], s, slot[p], active[p])
    BY <1>3, <1>4, Sizes DEF Fits, Working, Transaction
  <1>6. pc[p] \notin Transaction /\ s \in Steps \ Transaction
    BY <1>1, <1>3 DEF Steps, Ended, Transaction
  <1>7. Signed(p) \in BOOLEAN
    BY DEF Signed
  <1> QED
    BY <1>1, <1>3, <1>5, <1>6, <1>7, AsideKeeps

LEMMA PreparedTyped == Prepared \in SUBSET (1..Len(Home))
  BY DEF Prepared

LEMMA PreflightShape ==
    ASSUME IInv, NEW p \in Installer, Preflight(p)
    PROVE  \E good \in BOOLEAN, s \in {"sync", "ended"}, at \in Nat \X Number :
              /\ pc[p] = "preflight" /\ pc' = [pc EXCEPT ![p] = s]
              /\ slot' = [slot EXCEPT ![p] = at]
              /\ active' = [active EXCEPT ![p] = Prepared]
              /\ expected' = [expected EXCEPT ![p] = checkout[p]]
              /\ success' = [success EXCEPT ![p] = good]
              /\ s = "sync" <=> good /\ Prepared # {}
              /\ good /\ job[p].named => \A i \in 1..Len(Home) : ~Absent(i)
              /\ s = "sync" => /\ at[1] \in Prepared /\ at[2] = 1
                               /\ \A j \in Prepared : at[1] <= j
              /\ UNCHANGED <<disk, checkout, source, job, tx>>
  <1> DEFINE good == /\ ~(job[p].named /\ \E i \in 1..Len(Home) : Absent(i))
                     /\ \A i \in Prepared, k \in Number : dest[<<Home[i].path, k>>] # NotDirectory
  <1>1. /\ pc[p] = "preflight"
        /\ pc' = [pc EXCEPT ![p] = IF good /\ Prepared # {} THEN "sync" ELSE "ended"]
        /\ active' = [active EXCEPT ![p] = Prepared]
        /\ expected' = [expected EXCEPT ![p] = checkout[p]]
        /\ success' = [success EXCEPT ![p] = good]
        /\ UNCHANGED <<disk, checkout, source, job, tx>>
    BY DEF Preflight, Goto
  <1>2. good \in BOOLEAN /\ (good /\ job[p].named => \A i \in 1..Len(Home) : ~Absent(i))
    OBVIOUS
  <1> HIDE DEF good
  <1>3. CASE Prepared = {}
    <2>1. slot' = [slot EXCEPT ![p] = slot[p]]
      BY <1>3 DEF Preflight
    <2> QED
      BY <1>1, <1>2, <1>3, <2>1, Facts
  <1>4. CASE Prepared # {}
    <2>1. PICK i \in Prepared : /\ i = CHOOSE m \in Prepared : \A j \in Prepared : m <= j
                                /\ \A j \in Prepared : i <= j
      <3>1. Prepared \subseteq Nat
        BY PreparedTyped, Sizes
      <3> QED
        BY <1>4, <3>1, FirstOf
    <2>2. slot' = [slot EXCEPT ![p] = <<i, 1>>]
      BY <1>4, <2>1 DEF Preflight
    <2>3. <<i, 1>> \in Nat \X Number
      BY PreparedTyped, Sizes
    <2> DEFINE s == IF good THEN "sync" ELSE "ended"
               at == <<i, 1>>
    <2>4. /\ s \in {"sync", "ended"} /\ pc' = [pc EXCEPT ![p] = s]
          /\ s = "sync" <=> good /\ Prepared # {}
      BY <1>1, <1>4
    <2>5. at[1] \in Prepared /\ at[2] = 1 /\ \A j \in Prepared : at[1] <= j
      BY <2>1
    <2> HIDE DEF s, at
    <2>6. slot' = [slot EXCEPT ![p] = at] /\ at \in Nat \X Number
      BY <2>2, <2>3 DEF at
    <2> QED
      BY <1>1, <1>2, <2>4, <2>5, <2>6
  <1> QED
    BY <1>3, <1>4

LEMMA PreflightKeeps ==
    ASSUME IInv, NEW p \in Installer, Preflight(p)
    PROVE  IInv'
  <1>1. PICK good \in BOOLEAN, s \in {"sync", "ended"}, at \in Nat \X Number :
           /\ pc[p] = "preflight" /\ pc' = [pc EXCEPT ![p] = s]
           /\ slot' = [slot EXCEPT ![p] = at]
           /\ active' = [active EXCEPT ![p] = Prepared]
           /\ expected' = [expected EXCEPT ![p] = checkout[p]]
           /\ success' = [success EXCEPT ![p] = good]
           /\ s = "sync" => at[1] \in Prepared
           /\ UNCHANGED <<disk, checkout, source, job, tx>>
    BY PreflightShape
  <1>2. job[p].command = "install"
    BY <1>1, Facts DEF Fits
  <1>3. Fits(job[p], s, at, Prepared)
    BY <1>1, <1>2 DEF Fits, Working, Transaction
  <1>4. pc[p] \notin Transaction /\ s \in Steps \ Transaction
    BY <1>1 DEF Steps, Ended, Transaction
  <1> QED
    BY <1>1, <1>3, <1>4, PreparedTyped, Facts, AlongKeeps

LEMMA StageSourcesKeeps ==
    ASSUME IInv, NEW p \in Installer, StageSources(p)
    PROVE  IInv'
  <1>1. PICK good \in BOOLEAN, s \in {"sync", "ended"} :
           /\ pc[p] = "stage" /\ pc' = [pc EXCEPT ![p] = s]
           /\ success' = [success EXCEPT ![p] = good]
           /\ UNCHANGED <<disk, checkout, run, slot, tx>>
    BY DEF StageSources, Goto, Signed, Exportable
  <1>2. Fits(job[p], s, slot[p], active[p])
    BY <1>1, Facts DEF Fits
  <1>3. pc[p] \notin Transaction /\ s \in Steps \ Transaction
    BY <1>1 DEF Steps, Ended, Transaction
  <1> QED
    BY <1>1, <1>2, <1>3, AsideKeeps

LEMMA ReadRootKeeps ==
    ASSUME IInv, NEW p \in Installer, ReadRoot(p)
    PROVE  IInv'
  <1>1. PICK fine \in BOOLEAN, s \in {"compare", "ended"} :
           /\ pc[p] = "inventory" /\ pc' = [pc EXCEPT ![p] = s]
           /\ success' = [success EXCEPT ![p] = fine]
           /\ UNCHANGED <<disk, checkout, run, slot, tx>>
    BY DEF ReadRoot, Goto, Inventory, Physical
  <1>2. Fits(job[p], s, slot[p], active[p])
    BY <1>1, Facts DEF Fits, Working, Transaction
  <1>3. pc[p] \notin Transaction /\ s \in Steps \ Transaction
    BY <1>1 DEF Steps, Ended, Transaction
  <1> QED
    BY <1>1, <1>2, <1>3, AsideKeeps

\* Fleet parity goes on to the next skill, to the next root, or ends.
LEMMA CompareSkillShape ==
    ASSUME IInv, NEW p \in Installer, CompareSkill(p)
    PROVE  \E equal \in BOOLEAN, s \in {"compare", "inventory", "ended"}, at \in Nat \X Number :
              /\ pc[p] = "compare" /\ pc' = [pc EXCEPT ![p] = s]
              /\ slot' = [slot EXCEPT ![p] = at]
              /\ success' = [success EXCEPT ![p] = equal]
              /\ equal <=> Here(p) = Whole(source[p])
              /\ s = "compare" => /\ equal /\ slot[p][2] < Len(Skills)
                                  /\ at = <<slot[p][1], slot[p][2] + 1>>
              /\ s = "inventory" => /\ equal /\ slot[p][2] = Len(Skills)
                                    /\ slot[p][1] < Len(Fleet) /\ at = <<slot[p][1] + 1, 1>>
              /\ s = "ended" /\ equal => slot[p] = <<Len(Fleet), Len(Skills)>>
              /\ UNCHANGED <<disk, checkout, run, tx>>
  <1>1. /\ pc[p] = "compare" /\ UNCHANGED <<disk, checkout, run, tx>>
        /\ success' = [success EXCEPT ![p] = Here(p) = Whole(source[p])]
    BY DEF CompareSkill, Goto
  <1>2. /\ slot[p] \in Nat \X Number /\ slot[p][1] \in 1..Len(Fleet)
        /\ slot[p][2] \in 1..Len(Skills) /\ Len(Fleet) \in Nat /\ Len(Skills) \in Nat
    BY <1>1, Facts, Sizes DEF Fits
  <1> DEFINE equal == Here(p) = Whole(source[p])
             t == slot[p][1]
             k == slot[p][2]
             step == CASE ~equal -> "ended"
                       [] equal /\ k < Len(Skills) -> "compare"
                       [] equal /\ k = Len(Skills) /\ t < Len(Fleet) -> "inventory"
                       [] OTHER -> "ended"
             next == CASE k < Len(Skills) -> <<t, k + 1>>
                       [] k = Len(Skills) /\ t < Len(Fleet) -> <<t + 1, 1>>
                       [] OTHER -> <<1, 1>>
  <1>3. pc' = [pc EXCEPT ![p] = step]
    BY DEF CompareSkill, Goto
  <1>4. slot' = [slot EXCEPT ![p] = next]
    BY DEF CompareSkill
  <1>5. equal \in BOOLEAN /\ success' = [success EXCEPT ![p] = equal]
    BY <1>1
  <1> HIDE DEF equal, step, next
  <1>6. CASE k < Len(Skills)
    <2> DEFINE at == <<t, k + 1>>
    <2>1. next = at /\ at \in Nat \X Number
      BY <1>2, <1>6, Sizes DEF next
    <2>2. step = IF equal THEN "compare" ELSE "ended"
      BY <1>5, <1>6 DEF step
    <2>3. slot[p] # <<Len(Fleet), Len(Skills)>>
      BY <1>2, <1>6
    <2> HIDE DEF at
    <2>4. CASE equal
      BY <1>1, <1>3, <1>4, <1>5, <1>6, <2>1, <2>2, <2>4 DEF equal, at
    <2>5. CASE ~equal
      BY <1>1, <1>3, <1>4, <1>5, <2>1, <2>2, <2>5 DEF equal
    <2> QED
      BY <1>5, <2>4, <2>5
  <1>7. CASE k = Len(Skills) /\ t < Len(Fleet)
    <2> DEFINE at == <<t + 1, 1>>
    <2>1. next = at /\ at \in Nat \X Number
      BY <1>2, <1>7, Sizes DEF next
    <2>2. step = IF equal THEN "inventory" ELSE "ended"
      BY <1>2, <1>5, <1>7 DEF step
    <2> HIDE DEF at
    <2>4. CASE equal
      BY <1>1, <1>3, <1>4, <1>5, <1>7, <2>1, <2>2, <2>4 DEF equal, at
    <2>5. CASE ~equal
      BY <1>1, <1>3, <1>4, <1>5, <2>1, <2>2, <2>5 DEF equal
    <2> QED
      BY <1>5, <2>4, <2>5
  <1>8. CASE k = Len(Skills) /\ t = Len(Fleet)
    <2>1. next = <<1, 1>> /\ <<1, 1>> \in Nat \X Number
      BY <1>2, <1>8, Sizes DEF next
    <2>2. step = "ended"
      BY <1>2, <1>5, <1>8 DEF step
    <2>3. slot[p] = <<Len(Fleet), Len(Skills)>>
      BY <1>2, <1>8
    <2> QED
      BY <1>1, <1>3, <1>4, <1>5, <2>1, <2>2, <2>3 DEF equal
  <1> QED
    BY <1>2, <1>6, <1>7, <1>8

LEMMA CompareSkillKeeps ==
    ASSUME IInv, NEW p \in Installer, CompareSkill(p)
    PROVE  IInv'
  <1>1. PICK equal \in BOOLEAN, s \in {"compare", "inventory", "ended"}, at \in Nat \X Number :
           /\ pc[p] = "compare" /\ pc' = [pc EXCEPT ![p] = s]
           /\ slot' = [slot EXCEPT ![p] = at]
           /\ success' = [success EXCEPT ![p] = equal]
           /\ s = "compare" => at = <<slot[p][1], slot[p][2] + 1>>
           /\ s = "inventory" => slot[p][1] < Len(Fleet) /\ at = <<slot[p][1] + 1, 1>>
           /\ UNCHANGED <<disk, checkout, run, tx>>
    BY CompareSkillShape
  <1>2. job[p].command = "parity" /\ slot[p][1] \in 1..Len(Fleet)
    BY <1>1, Facts DEF Fits
  <1>3. Fits(job[p], s, at, active[p])
    BY <1>1, <1>2, Sizes DEF Fits, Working, Transaction
  <1>4. pc[p] \notin Transaction /\ s \in Steps \ Transaction
    BY <1>1 DEF Steps, Ended, Transaction
  <1>5. /\ active' = [active EXCEPT ![p] = active[p]]
        /\ expected' = [expected EXCEPT ![p] = expected[p]]
        /\ UNCHANGED <<disk, checkout, source, job, tx>>
    BY <1>1 DEF IInv, TypeOK, run
  <1> QED
    BY <1>1, <1>3, <1>4, <1>5, Facts, AlongKeeps

LEMMA DieKeeps ==
    ASSUME IInv, NEW p \in Installer, Die(p)
    PROVE  IInv'
  <1>1. /\ Active(p) /\ pc' = [pc EXCEPT ![p] = "dead"]
        /\ tx' = [tx EXCEPT ![p] = NoTransaction] /\ slot' = [slot EXCEPT ![p] = <<1, 1>>]
        /\ active' = [active EXCEPT ![p] = {}]
        /\ litter' \in {litter, litter \cup {Target(p)}}
        /\ roots' = roots \cup (litter' \cap Root)
        /\ UNCHANGED <<dest, checkout, source, job, expected, success>>
    BY DEF Die
  <1>2. Target(p) \in Root \cup {Output[1]}
    BY <1>1, Facts, TargetTyped DEF Active
  <1>3. dest' \in [Slots -> Standing] /\ EditedNeverLands'
        /\ roots' \subseteq Root /\ litter' \subseteq Root \cup {Output[1]}
    BY <1>1, <1>2, DiskFacts DEF EditedNeverLands
  <1>4. /\ expected' = [expected EXCEPT ![p] = expected[p]]
        /\ success' = [success EXCEPT ![p] = success[p]]
    BY <1>1 DEF IInv, TypeOK
  <1>5. Fits(job[p], "dead", <<1, 1>>, {})
    BY DEF Fits, Working, Transaction
  <1>6. Careful("dead", NoTransaction, source[p]) /\ NoTransaction \in TxShape
    BY NoTransactionShape, Facts
  <1>7. <<1, 1>> \in Nat \X Number /\ "dead" \in Steps /\ {} \in SUBSET (1..Len(Home))
    BY Sizes DEF Steps, Ended
  <1>8. UNCHANGED <<checkout, source, job>>
    BY <1>1
  <1>9. expected[p] \in [Number -> Version \cup {Edited}] /\ success[p] \in BOOLEAN
    BY Facts
  <1> QED
    BY <1>1, <1>3, <1>4, <1>5, <1>6, <1>7, <1>8, <1>9, Kept

LEMMA EditKeeps ==
    ASSUME IInv, NEW p \in Installer, NEW k \in Number, Edit(p, k)
    PROVE  IInv'
  <1>1. /\ checkout' = [checkout EXCEPT ![p][k] = Edited]
        /\ UNCHANGED <<disk, run, pc, slot, tx, success>>
    BY DEF Edit
  <1>2. checkout' \in [Installer -> [Number -> Version \cup {Edited}]]
    <2>1. checkout \in [Installer -> [Number -> Version \cup {Edited}]]
      BY DEF IInv, TypeOK
    <2>2. checkout' = [checkout EXCEPT ![p] = [checkout[p] EXCEPT ![k] = Edited]]
      BY <1>1, <2>1
    <2>3. [checkout[p] EXCEPT ![k] = Edited] \in [Number -> Version \cup {Edited}]
      BY <2>1
    <2> QED
      BY <2>1, <2>2, <2>3
  <1>3. \A q \in Installer : Active(q)' = Active(q) /\ Place(q)' = Place(q)
    BY <1>1 DEF Active, Place, Target, run
  <1>4. TypeOK'
    BY <1>1, <1>2, <1>3 DEF IInv, TypeOK, run, disk
  <1>5. EditedNeverLands' /\ \A q \in Installer :
           Fits(job[q], pc[q], slot[q], active[q])' /\ Careful(pc[q], tx[q], source[q])'
    BY <1>1 DEF IInv, EditedNeverLands, run, disk
  <1> QED
    BY <1>4, <1>5 DEF IInv

LEMMA ObstructKeeps ==
    ASSUME IInv, NEW s \in Slots, Obstruct(s)
    PROVE  IInv'
  <1>1. /\ dest' = [dest EXCEPT ![s] = NotDirectory]
        /\ UNCHANGED <<roots, litter, checkout, run, pc, slot, tx, success>>
    BY DEF Obstruct
  <1>2. dest' \in [Slots -> Standing] /\ EditedNeverLands'
    BY <1>1, DiskFacts, NoTreeAssumption DEF Standing, EditedNeverLands
  <1>3. \A q \in Installer : Active(q)' = Active(q) /\ Place(q)' = Place(q)
    BY <1>1 DEF Active, Place, Target, run
  <1>4. TypeOK'
    BY <1>1, <1>2, <1>3 DEF IInv, TypeOK, run
  <1>5. \A q \in Installer :
           Fits(job[q], pc[q], slot[q], active[q])' /\ Careful(pc[q], tx[q], source[q])'
    BY <1>1 DEF IInv, run
  <1> QED
    BY <1>2, <1>4, <1>5 DEF IInv

LEMMA InitHolds == Init => IInv
  <1> SUFFICES ASSUME Init
               PROVE  IInv
    OBVIOUS
  <1>1. \A v \in Version : v # Edited /\ Whole(v) \in Tree /\ Whole(v).version # Edited
    BY InstallAssumption DEF Whole, Tree
  <1>2. dest \in [Slots -> Standing] /\ EditedNeverLands
    <2>1. \A s \in Slots : dest[s] \in {None} \cup {Whole(v) : v \in Version}
      BY DEF Init
    <2> QED
      BY <1>1, <2>1, NoTreeAssumption DEF Init, Standing, EditedNeverLands
  <1>3. /\ slot \in [Installer -> Nat \X Number]
        /\ checkout \in [Installer -> [Number -> Version \cup {Edited}]]
        /\ expected \in [Installer -> [Number -> Version \cup {Edited}]]
        /\ tx \in [Installer -> TxShape] /\ active \in [Installer -> SUBSET (1..Len(Home))]
    <2>1. \A p \in Installer : [k \in Number |-> source[p]] \in [Number -> Version \cup {Edited}]
      BY DEF Init
    <2>2. <<1, 1>> \in Nat \X Number
      BY Sizes
    <2> QED
      BY <2>1, <2>2, NoTransactionShape DEF Init
  <1>4. \A p \in Installer : ~Active(p)
    BY DEF Init, Active
  <1>5. TypeOK
    BY <1>2, <1>3, <1>4 DEF Init, TypeOK, TxShape
  <1>6. \A p \in Installer :
           Fits(job[p], pc[p], slot[p], active[p]) /\ Careful(pc[p], tx[p], source[p])
    BY NoTransactionShape, NoTreeAssumption
       DEF Init, Fits, Careful, Working, Transaction, NoTransaction, Genuine
  <1> QED
    BY <1>2, <1>5, <1>6 DEF IInv

LEMMA NextKeeps == IInv /\ [Next]_vars => IInv'
  <1> SUFFICES ASSUME IInv, [Next]_vars
               PROVE  IInv'
    OBVIOUS
  <1>1. ASSUME NEW p \in Installer, Step(p)
        PROVE  IInv'
    <2>1. CASE Opens(p)
      BY <2>1, StartKeeps, VerifySourcesKeeps, PreflightKeeps, StageSourcesKeeps, ReadRootKeeps,
         CompareSkillKeeps, DieKeeps DEF Opens
    <2> QED
      BY <1>1, <2>1, StepKinds, TurnKeeps, FinishKeeps
  <1>2. CASE UNCHANGED vars
    BY <1>2 DEF vars, run, disk, IInv, TypeOK, EditedNeverLands, Active, Place, Target
  <1> QED
    BY <1>1, <1>2, EditKeeps, ObstructKeeps DEF Next

\* The types, the places of the processes and the versions of what stands or
\* waits to be put at a destination.
THEOREM Inductive == Spec => []IInv
  BY InitHolds, NextKeeps, PTL DEF Spec

\* Every variable keeps its type, and a process at work is at a target and a
\* skill of its run.
THEOREM TypeCorrect == Spec => []TypeOK
  <1>1. IInv => TypeOK
    BY DEF IInv
  <1> QED
    BY <1>1, Inductive, PTL

\* Whenever a checkout is edited under a running installer, and however runs
\* overlap, no skill without a signature stands at a destination: the staged
\* copy has been compared with the signed map, and only it is moved there.
THEOREM NothingEditedLands == Spec => []EditedNeverLands
  <1>1. IInv => EditedNeverLands
    BY DEF IInv
  <1> QED
    BY <1>1, Inductive, PTL

-----------------------------------------------------------------------------
(* When consumers take turns *)

Alone == \A p, q \in Installer : Active(p) /\ Active(q) => p = q

\* The targets preflight chose are apart, and serve every path the run answers for.
Chosen(p) ==
    job[p].command = "install" /\ pc[p] \in Working =>
        /\ \A i, j \in active[p] : Home[i].path = Home[j].path => i = j
        /\ \A i \in 1..Len(Home) :
              job[p].named \/ ~Absent(i) => \E j \in active[p] : Home[j].path = Home[i].path

\* What a run without a failure has passed is installed.
Served(p) ==
    job[p].command = "install" /\ job[p].flag # "dry" /\ pc[p] \in Working /\ success[p] =>
        /\ \A j \in active[p], k \in Number :
              j < slot[p][1] => dest[<<Home[j].path, k>>] = Whole(source[p])
        /\ \A k \in Number :
              k < slot[p][2] => dest[<<Home[slot[p][1]].path, k>>] = Whole(source[p])

\* What fleet parity has passed is clean and equal.
Compared(p) ==
    /\ pc[p] \in {"inventory", "compare"} =>
          \A i \in 1..Len(Fleet) :
              i < slot[p][1] => /\ Fleet[i] \notin litter
                                /\ \A k \in Number : dest[<<Fleet[i], k>>] = Whole(source[p])
    /\ pc[p] = "compare" =>
          /\ Fleet[slot[p][1]] \notin litter
          /\ \A k \in Number :
                k < slot[p][2] => dest[<<Fleet[slot[p][1]], k>>] = Whole(source[p])

Secure(p) ==
    Undoes(pc[p], tx[p], Here(p), source[p]) /\ Chosen(p) /\ Served(p) /\ Compared(p)

FInv == Alone /\ \A p \in Installer : Secure(p)

\* The steps of one process leave the invariant to that process.
LEMMA OneSecure ==
    ASSUME IInv, FInv, NEW p \in Installer, NEW s \in Steps, NEW t \in TxShape,
           Active(p) \/ \A q \in Installer : ~Active(q),
           pc' = [pc EXCEPT ![p] = s], tx' = [tx EXCEPT ![p] = t],
           Secure(p)'
    PROVE  FInv'
  <1>1. pc \in [Installer -> Steps] /\ tx \in [Installer -> TxShape]
    BY Facts
  <1>2. \A q \in Installer \ {p} : pc'[q] = pc[q] /\ tx'[q] = tx[q] /\ ~Active(q)
    BY <1>1 DEF FInv, Alone
  <1>3. Alone'
    BY <1>2 DEF Alone, Active
  <1>4. ASSUME NEW q \in Installer \ {p}
        PROVE  Secure(q)'
    <2>1. pc'[q] \in Ended \cup {"idle"} /\ tx'[q] = NoTransaction
      <3>1. pc[q] \in Ended \cup {"idle"}
        BY <1>2 DEF Active
      <3>2. tx[q] = NoTransaction
        BY <3>1 DEF FInv, Secure, Undoes, Ended, Transaction
      <3> QED
        BY <1>2, <3>1, <3>2
    <2>2. Undoes(pc'[q], tx'[q], Here(q)', source'[q])
      BY <2>1 DEF Undoes, Ended, Transaction
    <2>3. Chosen(q)' /\ Served(q)' /\ Compared(q)'
      BY <2>1 DEF Chosen, Served, Compared, Ended, Working, Transaction
    <2> QED
      BY <2>2, <2>3 DEF Secure
  <1> QED
    BY <1>3, <1>4 DEF FInv

LEMMA WorkPlace ==
    ASSUME IInv, NEW p \in Installer, pc[p] \in Working
    PROVE  /\ Active(p) /\ Place(p) \in Slots /\ Here(p) = dest[Place(p)]
           /\ job[p].command = "install" =>
                 /\ slot[p][1] \in active[p] /\ slot[p][1] \in 1..Len(Home)
                 /\ Target(p) = Home[slot[p][1]].path
                 /\ Place(p) = <<Home[slot[p][1]].path, slot[p][2]>>
           /\ job[p].command # "install" => job[p].command = "export" /\ Place(p) = Output
  <1>1. Active(p) /\ Place(p) \in Slots
    BY Facts DEF Active, Working, Transaction, Ended, Steps
  <1>2. \/ job[p].command = "install" /\ slot[p][1] \in active[p]
        \/ job[p].command = "export" /\ slot[p] = <<1, 1>>
    BY Facts DEF Fits
  <1>3. active[p] \in SUBSET (1..Len(Home))
    BY Facts
  <1> QED
    BY <1>1, <1>2, <1>3 DEF Here, Place, Target, Output

LEMMA TurnSecure ==
    ASSUME IInv, FInv, NEW p \in Installer, Turns(p)
    PROVE  FInv'
  <1>1. PICK s \in Transaction, t \in TxShape, x \in Standing :
           /\ pc' = [pc EXCEPT ![p] = s] /\ tx' = [tx EXCEPT ![p] = t]
           /\ dest' = [dest EXCEPT ![Place(p)] = x]
           /\ Undoes(pc[p], tx[p], Here(p), source[p]) => Undoes(s, t, x, source[p])
    BY DEF Turns, Follows
  <1>2. /\ pc[p] \in Working
        /\ roots' \in {roots, roots \cup ({Target(p)} \cap Root)}
        /\ UNCHANGED <<litter, checkout, run, slot, success>>
    BY DEF Turns
  <1>3. /\ Secure(p) /\ pc \in [Installer -> Steps] /\ tx \in [Installer -> TxShape]
        /\ dest \in [Slots -> Standing] /\ slot[p][2] \in Number
    BY Facts DEF FInv
  <1>4. /\ pc'[p] = s /\ tx'[p] = t /\ Place(p)' = Place(p) /\ Here(p)' = x
        /\ slot' = slot /\ active' = active /\ source' = source /\ job' = job
        /\ success' = success /\ s \in Steps
    BY <1>1, <1>2, <1>3, WorkPlace DEF Here, Place, Target, run, Steps
  <1>5. \A m \in Slots : m # Place(p) => dest'[m] = dest[m]
    BY <1>1, <1>3
  <1>6. Chosen(p)'
    <2> SUFFICES ASSUME job[p].command = "install"
                 PROVE  Chosen(p)'
      BY <1>4 DEF Chosen
    <2>1. slot[p][1] \in active[p] /\ Target(p) = Home[slot[p][1]].path
      BY <1>2, WorkPlace
    <2>2. \A i \in 1..Len(Home) : Absent(i) => Absent(i)' \/ Home[i].path = Target(p)
      BY <1>2 DEF Absent
    <2> QED
      BY <1>2, <1>3, <1>4, <2>1, <2>2 DEF Secure, Chosen
  <1>7. Served(p)'
    <2> SUFFICES ASSUME job[p].command = "install", job[p].flag # "dry", success[p]
                 PROVE  Served(p)'
      BY <1>4 DEF Served
    <2>1. /\ slot[p][1] \in active[p] /\ Place(p) = <<Home[slot[p][1]].path, slot[p][2]>>
          /\ slot[p][1] \in 1..Len(Home)
      BY <1>2, WorkPlace
    <2>2. /\ \A j \in active[p], k \in Number :
                j < slot[p][1] => dest[<<Home[j].path, k>>] = Whole(source[p])
          /\ \A k \in Number :
                k < slot[p][2] => dest[<<Home[slot[p][1]].path, k>>] = Whole(source[p])
      BY <1>2, <1>3 DEF Secure, Served
    <2>3. active[p] \in SUBSET (1..Len(Home)) /\ slot[p] \in Nat \X Number
          /\ \A i, j \in active[p] : Home[i].path = Home[j].path => i = j
      BY <1>2, <1>3, Facts DEF Secure, Chosen
    <2>4. ASSUME NEW j \in active[p], NEW k \in Number, j < slot[p][1]
          PROVE  dest'[<<Home[j].path, k>>] = Whole(source[p])
      <3>1. Home[j].path # Home[slot[p][1]].path /\ Home[j].path \in Root
        <4>1. j \in 1..Len(Home) /\ j # slot[p][1]
          BY <2>1, <2>3, <2>4, Sizes
        <4> QED
          BY <2>1, <2>3, <4>1, Sizes
      <3> QED
        BY <1>5, <2>1, <2>2, <2>4, <3>1 DEF Slots
    <2>5. ASSUME NEW k \in Number, k < slot[p][2]
          PROVE  dest'[<<Home[slot[p][1]].path, k>>] = Whole(source[p])
      <3>1. k # slot[p][2] /\ Home[slot[p][1]].path \in Root
        BY <2>1, <2>3, <2>5, Sizes
      <3> QED
        BY <1>5, <2>1, <2>2, <2>5, <3>1 DEF Slots
    <2> QED
      BY <1>4, <2>4, <2>5 DEF Served
  <1>8. Compared(p)'
    BY <1>1, <1>4 DEF Compared, Transaction
  <1>9. Undoes(pc[p], tx[p], Here(p), source[p])'
    BY <1>1, <1>3, <1>4 DEF Secure
  <1>10. Active(p)
    BY <1>2, WorkPlace
  <1> QED
    BY <1>1, <1>4, <1>6, <1>7, <1>8, <1>9, <1>10, OneSecure DEF Secure

\* What the last slot leaves behind is a served run.
LEMMA Through ==
    ASSUME IInv, FInv, NEW p \in Installer, Finishes(p)
    PROVE  \E failed, ok \in BOOLEAN :
              /\ Leaves(p, failed) \/ NextSkill(p, failed) \/ NextTarget(p, failed)
              /\ success' = [success EXCEPT ![p] = success[p] /\ ok]
              /\ tx' = [tx EXCEPT ![p] = NoTransaction]
              /\ failed => ~ok
              /\ ok /\ job[p].flag # "dry" => Here(p) = Whole(source[p])
              /\ pc[p] \in Working
              /\ UNCHANGED <<dest, roots, checkout, source, job, expected>>
  <1>1. PICK failed \in BOOLEAN, ok \in BOOLEAN :
           /\ Finish(p, failed, ok)
           /\ failed => ~ok
           /\ ok /\ job[p].flag # "dry" /\ Undoes(pc[p], tx[p], Here(p), source[p]) =>
                 Here(p) = Whole(source[p])
    BY DEF Finishes
  <1>2. pc[p] \in Working /\ UNCHANGED <<dest, roots, checkout, source, job, expected>>
    BY DEF Finishes
  <1>3. Undoes(pc[p], tx[p], Here(p), source[p])
    BY DEF FInv, Secure
  <1>4. /\ Leaves(p, failed) \/ NextSkill(p, failed) \/ NextTarget(p, failed)
        /\ success' = [success EXCEPT ![p] = success[p] /\ ok]
        /\ tx' = [tx EXCEPT ![p] = NoTransaction]
    BY <1>1, <1>2, FinishKinds
  <1> HIDE DEF Leaves, NextSkill, NextTarget
  <1> QED
    BY <1>1, <1>2, <1>3, <1>4

\* With the slot at hand, the skills of its target are served up to it.
LEMMA ServedHere ==
    ASSUME IInv, FInv, NEW p \in Installer, pc[p] \in Working, success[p],
           job[p].flag # "dry", job[p].command = "install", Here(p) = Whole(source[p])
    PROVE  /\ \A k \in Number :
                 k <= slot[p][2] => dest[<<Home[slot[p][1]].path, k>>] = Whole(source[p])
           /\ slot[p][2] = Len(Skills) =>
                 \A j \in active[p], k \in Number :
                    j <= slot[p][1] => dest[<<Home[j].path, k>>] = Whole(source[p])
  <1>1. /\ \A j \in active[p], k \in Number :
              j < slot[p][1] => dest[<<Home[j].path, k>>] = Whole(source[p])
        /\ \A k \in Number :
              k < slot[p][2] => dest[<<Home[slot[p][1]].path, k>>] = Whole(source[p])
    BY DEF FInv, Secure, Served
  <1>2. dest[<<Home[slot[p][1]].path, slot[p][2]>>] = Whole(source[p])
    BY WorkPlace
  <1>3. /\ Len(Skills) \in Nat /\ Number = 1..Len(Skills) /\ slot[p][2] \in Number
        /\ slot[p][1] \in Nat /\ active[p] \subseteq Nat
    BY Facts, Sizes
  <1>4. \A k \in Number : k <= slot[p][2] => k < slot[p][2] \/ k = slot[p][2]
    BY <1>3
  <1>5. \A k \in Number :
           k <= slot[p][2] => dest[<<Home[slot[p][1]].path, k>>] = Whole(source[p])
    BY <1>1, <1>2, <1>4
  <1>6. \A j \in active[p] : j <= slot[p][1] => j < slot[p][1] \/ j = slot[p][1]
    BY <1>3
  <1>7. slot[p][2] = Len(Skills) => \A k \in Number : k <= slot[p][2]
    BY <1>3
  <1> QED
    BY <1>1, <1>5, <1>6, <1>7

LEMMA FinishSecure ==
    ASSUME IInv, FInv, NEW p \in Installer, Finishes(p)
    PROVE  FInv'
  <1>1. PICK failed \in BOOLEAN, ok \in BOOLEAN :
           /\ Leaves(p, failed) \/ NextSkill(p, failed) \/ NextTarget(p, failed)
           /\ success' = [success EXCEPT ![p] = success[p] /\ ok]
           /\ tx' = [tx EXCEPT ![p] = NoTransaction]
           /\ failed => ~ok
           /\ ok /\ job[p].flag # "dry" => Here(p) = Whole(source[p])
           /\ pc[p] \in Working
           /\ UNCHANGED <<dest, roots, checkout, source, job, expected>>
    BY Through
  <1>2. /\ pc \in [Installer -> Steps] /\ tx \in [Installer -> TxShape]
        /\ slot \in [Installer -> Nat \X Number] /\ success \in [Installer -> BOOLEAN]
        /\ active \in [Installer -> SUBSET (1..Len(Home))]
        /\ slot[p][2] \in 1..Len(Skills) /\ slot[p][1] \in Nat /\ Len(Skills) \in Nat
    BY Facts, Sizes DEF IInv, TypeOK
  <1>3. Secure(p)
    BY DEF FInv
  <1>4. PICK s \in {"sync", "ended"} : pc' = [pc EXCEPT ![p] = s]
    BY <1>1 DEF Leaves, NextSkill, NextTarget
  <1>5. /\ pc'[p] = s /\ tx'[p] = NoTransaction /\ s \in Steps
        /\ success'[p] = (success[p] /\ ok) /\ NoTransaction \in TxShape
        /\ UNCHANGED <<dest, roots, source, job>>
    BY <1>1, <1>2, <1>4, NoTransactionShape DEF Steps, Ended
  <1>6. Undoes(pc[p], tx[p], Here(p), source[p])'
    BY <1>4, <1>5 DEF Undoes, Transaction
  <1>7. Compared(p)'
    BY <1>4, <1>5 DEF Compared
  <1>8. s = "sync" => active'[p] = active[p]
    BY <1>1, <1>2, <1>4, <1>5 DEF Leaves, NextSkill, NextTarget
  <1>9. Chosen(p)'
    BY <1>1, <1>3, <1>4, <1>5, <1>8 DEF Secure, Chosen, Absent, Working, Transaction
  <1>10. Served(p)'
    <2> SUFFICES ASSUME job[p].command = "install", job[p].flag # "dry", s = "sync",
                        success[p], ok
                 PROVE  Served(p)'
      BY <1>4, <1>5 DEF Served, Working, Transaction
    <2>1. /\ \A k \in Number :
                k <= slot[p][2] => dest[<<Home[slot[p][1]].path, k>>] = Whole(source[p])
          /\ slot[p][2] = Len(Skills) =>
                \A j \in active[p], k \in Number :
                   j <= slot[p][1] => dest[<<Home[j].path, k>>] = Whole(source[p])
      BY <1>1, ServedHere
    <2>2. /\ \A j \in active[p], k \in Number :
                j < slot[p][1] => dest[<<Home[j].path, k>>] = Whole(source[p])
      BY <1>1, <1>3 DEF Secure, Served
    <2>3. CASE NextSkill(p, failed)
      <3>1. slot'[p][1] = slot[p][1] /\ slot'[p][2] = slot[p][2] + 1
        BY <1>2, <2>3 DEF NextSkill
      <3>2. \A k \in Number : k < slot[p][2] + 1 => k <= slot[p][2]
        BY <1>2, Sizes
      <3> QED
        BY <1>5, <1>8, <2>1, <2>2, <3>1, <3>2 DEF Served
    <2>4. CASE NextTarget(p, failed)
      <3>1. PICK i \in active[p] :
               /\ \A j \in active[p] : j > slot[p][1] => i <= j
               /\ slot' = [slot EXCEPT ![p] = <<i, 1>>]
        BY <2>4 DEF NextTarget
      <3>2. slot[p][2] = Len(Skills) /\ slot'[p][1] = i /\ slot'[p][2] = 1
        BY <1>1, <1>2, <2>4, <3>1 DEF NextTarget
      <3>3. active[p] \subseteq Nat
        BY <1>2
      <3>4. \A j \in active[p] : j < i => j <= slot[p][1]
        BY <1>2, <3>1, <3>3
      <3>5. \A k \in Number : ~(k < 1)
        BY Sizes
      <3> QED
        BY <1>5, <1>8, <2>1, <3>2, <3>4, <3>5 DEF Served
    <2>5. ~Leaves(p, failed)
      BY <1>2, <1>5 DEF Leaves
    <2> QED
      BY <1>1, <2>3, <2>4, <2>5
  <1>11. Active(p)
    BY <1>1, WorkPlace
  <1> QED
    BY <1>1, <1>4, <1>5, <1>6, <1>7, <1>9, <1>10, <1>11, OneSecure DEF Secure

\* A step outside the transaction, by a process that has none.
LEMMA AlongSecure ==
    ASSUME IInv, FInv, NEW p \in Installer, pc[p] \notin Transaction,
           NEW s \in Steps \ Transaction,
           Active(p) \/ \A q \in Installer : ~Active(q),
           pc' = [pc EXCEPT ![p] = s], UNCHANGED <<disk, tx, source, job>>,
           Chosen(p)', Served(p)', Compared(p)'
    PROVE  FInv'
  <1>1. tx[p] = NoTransaction
    BY DEF FInv, Secure, Undoes
  <1>2. pc'[p] = s /\ tx' = [tx EXCEPT ![p] = tx[p]]
    BY Facts
  <1>3. Undoes(pc[p], tx[p], Here(p), source[p])'
    BY <1>1, <1>2 DEF Undoes, Transaction
  <1>4. Secure(p)'
    BY <1>3 DEF Secure
  <1> QED
    BY <1>2, <1>4, Facts, OneSecure

\* No target is chosen yet, and none compared.
LEMMA NothingYet ==
    ASSUME IInv, NEW p \in Installer, NEW s \in Steps, pc' = [pc EXCEPT ![p] = s]
    PROVE  /\ s \notin Working => Chosen(p)' /\ Served(p)'
           /\ s \notin {"inventory", "compare"} => Compared(p)'
           /\ job' = job /\ job[p].command # "install" => Chosen(p)' /\ Served(p)'
  <1>1. pc'[p] = s
    BY Facts
  <1> QED
    BY <1>1 DEF Chosen, Served, Compared

\* A consumer starts when no other one is at work.
InTurn(p) == Start(p) => \A q \in Installer : ~Active(q)

LEMMA StartSecure ==
    ASSUME IInv, FInv, NEW p \in Installer, InTurn(p), Start(p)
    PROVE  FInv'
  <1>1. /\ \A q \in Installer : ~Active(q)
        /\ pc[p] = "idle" /\ pc' = [pc EXCEPT ![p] = "sources"]
        /\ UNCHANGED <<disk, tx, source, job>>
    BY DEF InTurn, Start, Goto, run
  <1>2. pc[p] \notin Transaction /\ "sources" \in Steps \ Transaction
        /\ "sources" \notin Working \cup {"inventory", "compare"}
    BY <1>1 DEF Steps, Transaction, Working
  <1>3. Chosen(p)' /\ Served(p)' /\ Compared(p)'
    BY <1>1, <1>2, NothingYet
  <1> QED
    BY <1>1, <1>2, <1>3, AlongSecure

LEMMA VerifySourcesSecure ==
    ASSUME IInv, FInv, NEW p \in Installer, VerifySources(p)
    PROVE  FInv'
  <1>1. /\ pc[p] = "sources" /\ slot' = slot
        /\ UNCHANGED <<disk, tx, source, job>>
    BY DEF VerifySources, Goto, run
  <1>2. PICK s \in {"ended", "stage", "inventory", "preflight"} : pc' = [pc EXCEPT ![p] = s]
    BY DEF VerifySources, Goto
  <1>3. /\ pc[p] \notin Transaction /\ s \in Steps \ Transaction /\ s \notin Working
        /\ Active(p)
    BY <1>1, <1>2 DEF Steps, Transaction, Working, Ended, Active
  <1>4. Chosen(p)' /\ Served(p)'
    BY <1>2, <1>3, NothingYet
  <1>5. Compared(p)'
    <2>1. slot'[p] = <<1, 1>>
      BY <1>1, Facts DEF Fits
    <2>2. pc'[p] # "compare"
      BY <1>2, <1>3, Facts
    <2>3. \A i \in 1..Len(Fleet) : ~(i < 1)
      BY Sizes
    <2> QED
      BY <2>1, <2>2, <2>3 DEF Compared
  <1> QED
    BY <1>1, <1>2, <1>3, <1>4, <1>5, AlongSecure

\* Preflight leaves out only targets whose path an earlier one serves.
LEMMA PreparedServes ==
    /\ \A i, j \in Prepared : Home[i].path = Home[j].path => i = j
    /\ \A i \in 1..Len(Home) : ~Absent(i) => \E j \in Prepared : Home[j].path = Home[i].path
  <1>1. Prepared \subseteq 1..Len(Home) /\ 1..Len(Home) \subseteq Nat
    BY Sizes DEF Prepared
  <1>2. ASSUME NEW i \in Prepared, NEW j \in Prepared, Home[i].path = Home[j].path, j < i
        PROVE  FALSE
    <2>1. ~Absent(j) /\ j \in 1..(i - 1)
      BY <1>1, <1>2, Sizes DEF Prepared
    <2> QED
      BY <1>2, <2>1 DEF Prepared
  <1>3. ASSUME NEW i \in 1..Len(Home), ~Absent(i)
        PROVE  \E j \in Prepared : Home[j].path = Home[i].path
    <2> DEFINE S == {j \in 1..Len(Home) : ~Absent(j) /\ Home[j].path = Home[i].path}
    <2>1. S \subseteq Nat /\ S # {}
      BY <1>1, <1>3
    <2>2. PICK j \in S : \A m \in S : j <= m
      BY <2>1, FirstOf
    <2>3. ASSUME NEW m \in 1..(j - 1), Home[m].path = Home[j].path
          PROVE  Absent(m)
      <3>1. m \in 1..Len(Home) /\ ~(j <= m)
        BY <2>2, <1>1
      <3> QED
        BY <2>2, <2>3, <3>1
    <2>4. j \in Prepared
      BY <2>2, <2>3 DEF Prepared
    <2> QED
      BY <2>2, <2>4
  <1>4. ASSUME NEW i \in Prepared, NEW j \in Prepared, Home[i].path = Home[j].path
        PROVE  i = j
    <2>1. i \in Nat /\ j \in Nat
      BY <1>1
    <2>2. ~(i < j) /\ ~(j < i)
      BY <1>2, <1>4
    <2> QED
      BY <2>1, <2>2
  <1> QED
    BY <1>3, <1>4

LEMMA PreflightSecure ==
    ASSUME IInv, FInv, NEW p \in Installer, Preflight(p)
    PROVE  FInv'
  <1>1. PICK good \in BOOLEAN, s \in {"sync", "ended"}, at \in Nat \X Number :
           /\ pc[p] = "preflight" /\ pc' = [pc EXCEPT ![p] = s]
           /\ slot' = [slot EXCEPT ![p] = at]
           /\ active' = [active EXCEPT ![p] = Prepared]
           /\ s = "sync" <=> good /\ Prepared # {}
           /\ good /\ job[p].named => \A i \in 1..Len(Home) : ~Absent(i)
           /\ s = "sync" => /\ at[1] \in Prepared /\ at[2] = 1
                            /\ \A j \in Prepared : at[1] <= j
           /\ UNCHANGED <<disk, checkout, source, job, tx>>
    BY PreflightShape
  <1>2. /\ pc[p] \notin Transaction /\ s \in Steps \ Transaction /\ Active(p)
        /\ s \notin {"inventory", "compare"}
    BY <1>1 DEF Steps, Transaction, Ended, Active
  <1>3. /\ slot'[p] = at /\ active'[p] = Prepared /\ pc'[p] = s
    BY <1>1, Facts DEF IInv, TypeOK
  <1>4. Prepared \subseteq Nat
    BY PreparedTyped, Sizes
  <1>5. CASE s = "ended"
    <2>1. s \notin Working
      BY <1>5 DEF Working, Transaction
    <2>2. Chosen(p)' /\ Served(p)' /\ Compared(p)'
      BY <1>1, <1>2, <2>1, NothingYet
    <2> QED
      BY <1>1, <1>2, <2>2, AlongSecure
  <1>6. CASE s = "sync"
    <2>1. Compared(p)'
      BY <1>1, <1>2, NothingYet
    <2>2. \A i \in 1..Len(Home) : Absent(i)' = Absent(i)
      BY <1>1 DEF Absent, disk
    <2>3. Chosen(p)'
      <3>1. \A i \in 1..Len(Home) : job[p].named \/ ~Absent(i) => ~Absent(i)
        BY <1>1, <1>6
      <3> QED
        BY <1>1, <1>3, <2>2, <3>1, PreparedServes DEF Chosen
    <2>4. Served(p)'
      <3>1. \A j \in Prepared : ~(j < at[1])
        BY <1>1, <1>4, <1>6
      <3>2. \A k \in Number : ~(k < 1)
        BY Sizes
      <3> QED
        BY <1>1, <1>3, <1>6, <3>1, <3>2 DEF Served
    <2> QED
      BY <1>1, <1>2, <2>1, <2>3, <2>4, AlongSecure
  <1> QED
    BY <1>5, <1>6

LEMMA StageSourcesSecure ==
    ASSUME IInv, FInv, NEW p \in Installer, StageSources(p)
    PROVE  FInv'
  <1>1. PICK s \in {"sync", "ended"} :
           /\ pc[p] = "stage" /\ pc' = [pc EXCEPT ![p] = s]
           /\ UNCHANGED <<disk, tx, source, job>>
    BY DEF StageSources, Goto, run
  <1>2. /\ pc[p] \notin Transaction /\ s \in Steps \ Transaction /\ Active(p)
        /\ s \notin {"inventory", "compare"}
    BY <1>1 DEF Steps, Transaction, Ended, Active
  <1>3. job[p].command # "install"
    BY <1>1, Facts DEF Fits
  <1>4. Chosen(p)' /\ Served(p)' /\ Compared(p)'
    BY <1>1, <1>2, <1>3, NothingYet
  <1> QED
    BY <1>1, <1>2, <1>4, AlongSecure

LEMMA ReadRootSecure ==
    ASSUME IInv, FInv, NEW p \in Installer, ReadRoot(p)
    PROVE  FInv'
  <1>1. /\ pc[p] = "inventory" /\ slot' = slot
        /\ pc' = [pc EXCEPT ![p] = IF Inventory(Target(p)) THEN "compare" ELSE "ended"]
        /\ UNCHANGED <<disk, tx, source, job>>
    BY DEF ReadRoot, Goto, run
  <1>2. PICK s \in {"compare", "ended"} :
           /\ pc' = [pc EXCEPT ![p] = s]
           /\ s = "compare" => Inventory(Target(p))
    BY <1>1
  <1>3. /\ pc[p] \notin Transaction /\ s \in Steps \ Transaction /\ Active(p) /\ s \notin Working
        /\ pc'[p] = s
    BY <1>1, <1>2, Facts DEF Steps, Transaction, Working, Ended, Active
  <1>4. Chosen(p)' /\ Served(p)'
    BY <1>2, <1>3, NothingYet
  <1>5. Compared(p)'
    <2>1. job[p].command = "parity" /\ slot[p][2] = 1
      BY <1>1, Facts DEF Fits
    <2>2. Target(p) = Fleet[slot[p][1]]
      BY <2>1 DEF Target
    <2>3. s = "compare" => Fleet[slot[p][1]] \notin litter
      BY <1>2, <2>2 DEF Inventory
    <2>4. \A k \in Number : ~(k < slot[p][2])
      BY <2>1, Sizes
    <2>5. \A i \in 1..Len(Fleet) :
             i < slot[p][1] => /\ Fleet[i] \notin litter
                               /\ \A k \in Number : dest[<<Fleet[i], k>>] = Whole(source[p])
      BY <1>1 DEF FInv, Secure, Compared
    <2> QED
      BY <1>1, <1>2, <1>3, <2>3, <2>4, <2>5 DEF Compared, disk
  <1> QED
    BY <1>1, <1>2, <1>3, <1>4, <1>5, AlongSecure

\* With an equal skill at hand, the root is equal up to it.
LEMMA ComparedHere ==
    ASSUME IInv, FInv, NEW p \in Installer, pc[p] = "compare", Here(p) = Whole(source[p])
    PROVE  /\ \A k \in Number :
                 k <= slot[p][2] => dest[<<Fleet[slot[p][1]], k>>] = Whole(source[p])
           /\ slot[p][2] = Len(Skills) =>
                 \A i \in 1..Len(Fleet) :
                    i <= slot[p][1] => /\ Fleet[i] \notin litter
                                       /\ \A k \in Number : dest[<<Fleet[i], k>>] = Whole(source[p])
           /\ Fleet[slot[p][1]] \notin litter
  <1>1. job[p].command = "parity" /\ slot[p][1] \in 1..Len(Fleet)
    BY Facts DEF Fits
  <1>2. dest[<<Fleet[slot[p][1]], slot[p][2]>>] = Whole(source[p])
    BY <1>1 DEF Here, Place, Target
  <1>3. /\ \A i \in 1..Len(Fleet) :
              i < slot[p][1] => /\ Fleet[i] \notin litter
                                /\ \A k \in Number : dest[<<Fleet[i], k>>] = Whole(source[p])
        /\ Fleet[slot[p][1]] \notin litter
        /\ \A k \in Number :
              k < slot[p][2] => dest[<<Fleet[slot[p][1]], k>>] = Whole(source[p])
    BY DEF FInv, Secure, Compared
  <1>4. /\ Len(Skills) \in Nat /\ Number = 1..Len(Skills) /\ slot[p][2] \in Number
        /\ Len(Fleet) \in Nat
    BY Facts, Sizes
  <1>5. /\ \A k \in Number : k <= slot[p][2] => k < slot[p][2] \/ k = slot[p][2]
        /\ \A i \in 1..Len(Fleet) : i <= slot[p][1] => i < slot[p][1] \/ i = slot[p][1]
        /\ slot[p][2] = Len(Skills) => \A k \in Number : k <= slot[p][2]
    BY <1>1, <1>4
  <1>6. \A k \in Number : k <= slot[p][2] => dest[<<Fleet[slot[p][1]], k>>] = Whole(source[p])
    BY <1>2, <1>3, <1>5
  <1> QED
    BY <1>3, <1>5, <1>6

LEMMA CompareSkillSecure ==
    ASSUME IInv, FInv, NEW p \in Installer, CompareSkill(p)
    PROVE  FInv'
  <1>1. PICK equal \in BOOLEAN, s \in {"compare", "inventory", "ended"}, at \in Nat \X Number :
           /\ pc[p] = "compare" /\ pc' = [pc EXCEPT ![p] = s]
           /\ slot' = [slot EXCEPT ![p] = at]
           /\ equal <=> Here(p) = Whole(source[p])
           /\ s = "compare" => /\ equal /\ slot[p][2] < Len(Skills)
                               /\ at = <<slot[p][1], slot[p][2] + 1>>
           /\ s = "inventory" => /\ equal /\ slot[p][2] = Len(Skills)
                                 /\ slot[p][1] < Len(Fleet) /\ at = <<slot[p][1] + 1, 1>>
           /\ UNCHANGED <<disk, checkout, run, tx>>
    BY CompareSkillShape
  <1>2. /\ pc[p] \notin Transaction /\ s \in Steps \ Transaction /\ Active(p) /\ s \notin Working
        /\ pc'[p] = s /\ slot'[p] = at /\ UNCHANGED <<disk, tx, source, job>>
    BY <1>1, Facts DEF Steps, Transaction, Working, Ended, Active, run
  <1>3. Chosen(p)' /\ Served(p)'
    BY <1>1, <1>2, NothingYet
  <1>4. /\ slot[p][1] \in 1..Len(Fleet) /\ slot[p][2] \in Nat /\ Len(Fleet) \in Nat
        /\ \A k \in Number : k \in Nat
    BY <1>1, Facts, Sizes DEF Fits
  <1>5. Secure(p)
    BY DEF FInv
  <1>6. CASE s = "compare"
    <2>1. at[1] = slot[p][1] /\ at[2] = slot[p][2] + 1
      BY <1>1, <1>6
    <2>2. \A k \in Number : k < slot[p][2] + 1 => k <= slot[p][2]
      BY <1>4
    <2>3. Compared(p)'
      BY <1>1, <1>2, <1>5, <1>6, <2>1, <2>2, ComparedHere DEF Secure, Compared, disk
    <2> QED
      BY <1>1, <1>2, <1>3, <2>3, AlongSecure
  <1>7. CASE s = "inventory"
    <2>1. at[1] = slot[p][1] + 1
      BY <1>1, <1>7
    <2>2. \A i \in 1..Len(Fleet) : i < slot[p][1] + 1 => i <= slot[p][1]
      BY <1>4
    <2>3. Compared(p)'
      BY <1>1, <1>2, <1>7, <2>1, <2>2, ComparedHere DEF Compared, disk
    <2> QED
      BY <1>1, <1>2, <1>3, <2>3, AlongSecure
  <1>8. CASE s = "ended"
    <2>1. Compared(p)'
      BY <1>1, <1>8, NothingYet DEF Steps, Ended
    <2> QED
      BY <1>1, <1>2, <1>3, <2>1, AlongSecure
  <1> QED
    BY <1>6, <1>7, <1>8

LEMMA DieSecure ==
    ASSUME IInv, FInv, NEW p \in Installer, Die(p)
    PROVE  FInv'
  <1>1. /\ Active(p) /\ pc' = [pc EXCEPT ![p] = "dead"]
        /\ tx' = [tx EXCEPT ![p] = NoTransaction]
    BY DEF Die
  <1>2. /\ pc'[p] = "dead" /\ tx'[p] = NoTransaction /\ "dead" \in Steps
        /\ NoTransaction \in TxShape
    BY <1>1, Facts, NoTransactionShape DEF Steps, Ended
  <1>3. Undoes(pc[p], tx[p], Here(p), source[p])'
    BY <1>2 DEF Undoes, Transaction
  <1>4. Chosen(p)' /\ Served(p)' /\ Compared(p)'
    BY <1>1, <1>2, NothingYet DEF Working, Transaction
  <1> QED
    BY <1>1, <1>2, <1>3, <1>4, OneSecure DEF Secure

LEMMA EditSecure ==
    ASSUME IInv, FInv, NEW p \in Installer, NEW k \in Number, Edit(p, k)
    PROVE  FInv'
  <1>1. UNCHANGED <<disk, run, pc, slot, tx, success>>
    BY DEF Edit
  <1> QED
    BY <1>1 DEF FInv, Alone, Active, Secure, Chosen, Served, Compared, Absent, Here, Place, Target,
                disk, run

\* A file in a free place disturbs no transaction that looks before it moves.
LEMMA ObstructUndoes ==
    ASSUME NEW s \in Steps, NEW t \in TxShape, NEW v \in Version, Undoes(s, t, None, v)
    PROVE  Undoes(s, t, NotDirectory, v)
  BY TreeShape DEF Undoes, Transaction, Unmoved, Vacant

LEMMA ObstructSecure ==
    ASSUME IInv, FInv, NEW m \in Slots, Obstruct(m)
    PROVE  FInv'
  <1>1. /\ dest[m] = None /\ dest' = [dest EXCEPT ![m] = NotDirectory]
        /\ UNCHANGED <<roots, litter, checkout, run, pc, slot, tx, success>>
    BY DEF Obstruct
  <1>2. \A x \in Slots : dest'[x] = dest[x] \/ (dest[x] = None /\ dest'[x] = NotDirectory)
    <2>1. dest \in [Slots -> Standing]
      BY DiskFacts
    <2> QED
      BY <1>1, <2>1
  <1>3. Alone'
    BY <1>1 DEF FInv, Alone, Active
  <1>4. ASSUME NEW p \in Installer
        PROVE  Secure(p)'
    <2>1. Secure(p) /\ Whole(source[p]) # None /\ source[p] \in Version
      BY Facts, TreeShape DEF FInv
    <2>2. \A x \in Slots : dest[x] = Whole(source[p]) => dest'[x] = Whole(source[p])
      BY <1>2, <2>1
    <2>3. Undoes(pc[p], tx[p], Here(p), source[p])'
      <3>1. CASE pc[p] \notin Transaction
        BY <1>1, <2>1, <3>1 DEF Secure, Undoes, Transaction, run
      <3>2. CASE pc[p] \in Transaction
        <4>1. Place(p) \in Slots /\ Place(p)' = Place(p) /\ source'[p] = source[p]
          BY <1>1, <3>2, WorkPlace DEF Working, Place, Target, run
        <4>2. Here(p) = dest[Place(p)] /\ Here(p)' = dest'[Place(p)]
          BY <4>1 DEF Here
        <4>3. Here(p)' = Here(p) \/ (Here(p) = None /\ Here(p)' = NotDirectory)
          BY <1>2, <4>1, <4>2
        <4> QED
          BY <1>1, <2>1, <4>1, <4>3, Facts, ObstructUndoes DEF Secure
      <3> QED
        BY <3>1, <3>2
    <2>4. Chosen(p)'
      BY <1>1, <2>1 DEF Secure, Chosen, Absent, run
    <2>5. Served(p)'
      <3> SUFFICES ASSUME job[p].command = "install", pc[p] \in Working, Served(p)
                   PROVE  Served(p)'
        BY <1>1, <2>1 DEF Secure, Served, run
      <3>1. \A j \in active[p], k \in Number : <<Home[j].path, k>> \in Slots
        BY Facts, Sizes DEF Slots
      <3>2. \A k \in Number : <<Home[slot[p][1]].path, k>> \in Slots
        BY <3>1, WorkPlace
      <3> QED
        BY <1>1, <2>2, <3>1, <3>2 DEF Served, run
    <2>6. Compared(p)'
      <3>1. \A i \in 1..Len(Fleet), k \in Number : <<Fleet[i], k>> \in Slots
        BY Sizes DEF Slots
      <3>2. pc[p] = "compare" => slot[p][1] \in 1..Len(Fleet)
        BY Facts DEF Fits
      <3> QED
        BY <1>1, <2>1, <2>2, <3>1, <3>2 DEF Secure, Compared, run
    <2> QED
      BY <2>3, <2>4, <2>5, <2>6 DEF Secure
  <1> QED
    BY <1>3, <1>4 DEF FInv

LEMMA InitSecure == Init => FInv
  <1> SUFFICES ASSUME Init
               PROVE  FInv
    OBVIOUS
  <1>1. \A p \in Installer : pc[p] = "idle" /\ tx[p] = NoTransaction
    BY DEF Init
  <1>2. Alone
    BY <1>1 DEF Alone, Active
  <1>3. \A p \in Installer : Secure(p)
    BY <1>1 DEF Secure, Undoes, Chosen, Served, Compared, Transaction, Working
  <1> QED
    BY <1>2, <1>3 DEF FInv

LEMMA StepSecure ==
    ASSUME IInv, FInv, NEW p \in Installer, InTurn(p), Step(p)
    PROVE  FInv'
  <1>1. CASE Opens(p)
    BY <1>1, StartSecure, VerifySourcesSecure, PreflightSecure, StageSourcesSecure,
       ReadRootSecure, CompareSkillSecure, DieSecure DEF Opens
  <1> QED
    BY <1>1, StepKinds, TurnSecure, FinishSecure

LEMMA IdleSecure == FInv /\ UNCHANGED vars => FInv'
  BY DEF vars, run, disk, FInv, Alone, Active, Secure, Chosen, Served, Compared, Absent,
         Here, Place, Target

\* As long as consumers take turns, each transaction can still be undone, and
\* what a run has passed is installed, or compared.
LEMMA NextSecure ==
    ASSUME IInv, FInv, [Next]_vars, \A p \in Installer : Step(p) => InTurn(p)
    PROVE  FInv'
  BY StepSecure, IdleSecure, EditSecure, ObstructSecure DEF Next

LEMMA SecureLosesNothing == IInv /\ FInv => OldOrNewUnlessBlocked
  <1> SUFFICES ASSUME IInv, FInv, NEW p \in Installer, pc[p] \in Transaction,
                      tx[p].before \in Tree, tx[p].before.whole
               PROVE  OldOrNewStands(p) \/ Blocked(p)
    BY DEF OldOrNewUnlessBlocked
  <1>1. Undoes(pc[p], tx[p], Here(p), source[p]) /\ tx[p].before \notin {None, NotDirectory}
    BY NoTreeAssumption DEF FInv, Secure
  <1>2. tx[p].committed \in BOOLEAN /\ tx[p].movedOld \in BOOLEAN
    BY Facts, Fields
  <1> QED
    BY <1>1, <1>2 DEF Undoes, Transaction, Saved, Unmoved, Vacant, OldOrNewStands, Blocked

LEMMA SecureRestores == IInv /\ FInv => FailureRestores
  <1> SUFFICES ASSUME IInv, FInv, NEW p \in Installer, pc[p] = "dropstaging", ~tx[p].committed
               PROVE  Here(p) = tx[p].before \/ Blocked(p)
    BY DEF FailureRestores
  <1>1. Undoes(pc[p], tx[p], Here(p), source[p])
    BY DEF FInv, Secure
  <1> QED
    BY <1>1 DEF Undoes, Blocked

LEMMA SecureRemovesOwn == FInv => RollbackRemovesOwnCopy
  BY DEF FInv, Secure, Undoes, RollbackRemovesOwnCopy

-----------------------------------------------------------------------------
(* What success means *)

LEMMA OthersIncomplete ==
    ASSUME IInv, NEW p \in Installer, NEW q \in Installer, NEW s \in Steps,
           pc' = [pc EXCEPT ![p] = s], Completes(q)
    PROVE  q = p /\ s = "ended"
  BY Facts DEF Completes

\* Which steps may end a run with success.
LEMMA CompletedBy ==
    ASSUME IInv, FInv, [Next]_vars, NEW p \in Installer, Completes(p)
    PROVE  Finishes(p) \/ Preflight(p) \/ CompareSkill(p)
  <1>1. pc[p] # "ended" /\ pc'[p] = "ended" /\ success'[p] /\ pc' # pc
    BY DEF Completes
  <1>2. PICK q \in Installer : Step(q)
    BY <1>1 DEF Next, vars, Edit, Obstruct
  <1>3. pc \in [Installer -> Steps] /\ success \in [Installer -> BOOLEAN]
    BY Facts DEF IInv, TypeOK
  <1>4. q = p
    <2>1. \E s \in Steps : pc' = [pc EXCEPT ![q] = s]
      <3>1. CASE Turns(q)
        BY <3>1 DEF Turns, Steps
      <3>2. CASE Finishes(q)
        BY <3>2 DEF Finishes, Finish, Steps, Ended
      <3>3. CASE Opens(q)
        BY <3>3 DEF Opens, Start, VerifySources, Preflight, StageSources, ReadRoot, CompareSkill,
                    Die, Goto, Steps, Ended
      <3> QED
        BY <1>2, <3>1, <3>2, <3>3, StepKinds
    <2> QED
      BY <2>1, OthersIncomplete
  <1>5. ~Turns(p)
    BY <1>1, <1>3 DEF Turns, Transaction
  <1>6. ~Start(p) /\ ~Die(p)
    BY <1>1, <1>3 DEF Start, Die, Goto
  <1>7. ~VerifySources(p) /\ ~StageSources(p) /\ ~ReadRoot(p)
    BY <1>1, <1>3 DEF VerifySources, StageSources, ReadRoot, Goto
  <1> QED
    BY <1>2, <1>4, <1>5, <1>6, <1>7, StepKinds DEF Opens

LEMMA FinishInstalled ==
    ASSUME IInv, FInv, NEW p \in Installer, Completes(p), Finishes(p), job[p].flag # "dry"
    PROVE  \A s \in Promised(p) : dest'[s] = Whole(source[p])
  <1>1. PICK failed \in BOOLEAN, ok \in BOOLEAN :
           /\ Leaves(p, failed) \/ NextSkill(p, failed) \/ NextTarget(p, failed)
           /\ success' = [success EXCEPT ![p] = success[p] /\ ok]
           /\ failed => ~ok
           /\ ok => Here(p) = Whole(source[p])
           /\ pc[p] \in Working
           /\ UNCHANGED <<dest, roots, checkout, source, job, expected>>
    BY Through
  <1>2. pc \in [Installer -> Steps] /\ success \in [Installer -> BOOLEAN]
        /\ slot[p][1] \in Nat /\ active[p] \subseteq Nat
    BY Facts DEF IInv, TypeOK
  <1>3. success[p] /\ ok /\ Leaves(p, failed)
    BY <1>1, <1>2 DEF Completes, NextSkill, NextTarget
  <1>4. Here(p) = Whole(source[p]) /\ ~failed
    BY <1>1, <1>3
  <1>5. CASE job[p].command = "install"
    <2>1. slot[p][2] = Len(Skills) /\ Later(p) = {}
      BY <1>3, <1>4, <1>5 DEF Leaves, Command
    <2>2. \A j \in active[p] : j <= slot[p][1]
      <3>1. \A j \in active[p] : ~(j > slot[p][1])
        BY <2>1 DEF Later
      <3> QED
        BY <1>2, <3>1
    <2>3. \A j \in active[p], k \in Number : dest[<<Home[j].path, k>>] = Whole(source[p])
      BY <1>1, <1>3, <1>4, <1>5, <2>1, <2>2, ServedHere
    <2>4. \A i \in 1..Len(Home) :
             job[p].named \/ ~Absent(i) => \E j \in active[p] : Home[j].path = Home[i].path
      BY <1>1, <1>5 DEF FInv, Secure, Chosen
    <2>5. ASSUME NEW i \in 1..Len(Home), job[p].named \/ ~Absent(i), NEW k \in Number
          PROVE  dest[<<Home[i].path, k>>] = Whole(source[p])
      <3>1. PICK j \in active[p] : Home[j].path = Home[i].path
        BY <2>4, <2>5
      <3> QED
        BY <2>3, <3>1
    <2> QED
      BY <1>1, <1>5, <2>5 DEF Promised, Command
  <1>6. CASE job[p].command # "install"
    <2>1. job[p].command = "export" /\ Place(p) = Output /\ Here(p) = dest[Place(p)]
      BY <1>1, <1>6, WorkPlace
    <2>2. Promised(p) = {Output}
      BY <2>1 DEF Promised, Command
    <2> QED
      BY <1>1, <1>4, <2>1, <2>2
  <1> QED
    BY <1>5, <1>6

LEMMA PreflightInstalled ==
    ASSUME IInv, FInv, NEW p \in Installer, Completes(p), Preflight(p)
    PROVE  Promised(p) = {}
  <1>1. PICK good \in BOOLEAN, s \in {"sync", "ended"} :
           /\ pc[p] = "preflight" /\ pc' = [pc EXCEPT ![p] = s]
           /\ success' = [success EXCEPT ![p] = good]
           /\ s = "sync" <=> good /\ Prepared # {}
           /\ good /\ job[p].named => \A i \in 1..Len(Home) : ~Absent(i)
    BY PreflightShape
  <1>2. pc'[p] = s /\ success'[p] = good
    BY <1>1, Facts DEF IInv, TypeOK
  <1>3. s = "ended" /\ good /\ Prepared = {}
    BY <1>1, <1>2 DEF Completes
  <1>4. \A i \in 1..Len(Home) : Absent(i)
    BY <1>3, PreparedServes
  <1>5. ~job[p].named
    BY <1>1, <1>3, <1>4, Sizes
  <1>6. job[p].command = "install"
    BY <1>1, Facts DEF Fits
  <1> QED
    BY <1>4, <1>5, <1>6 DEF Promised, Command

LEMMA CompareCompletes ==
    ASSUME IInv, FInv, NEW p \in Installer, Completes(p), CompareSkill(p)
    PROVE  /\ Command(p, "parity")
           /\ \A i \in 1..Len(Fleet) :
                 /\ Fleet[i] \notin litter
                 /\ \A k \in Number : dest[<<Fleet[i], k>>] = Whole(source[p])
  <1>1. PICK equal \in BOOLEAN, s \in {"compare", "inventory", "ended"} :
           /\ pc[p] = "compare" /\ pc' = [pc EXCEPT ![p] = s]
           /\ success' = [success EXCEPT ![p] = equal]
           /\ equal <=> Here(p) = Whole(source[p])
           /\ s = "ended" /\ equal => slot[p] = <<Len(Fleet), Len(Skills)>>
    BY CompareSkillShape
  <1>2. pc'[p] = s /\ success'[p] = equal
    BY <1>1, Facts DEF IInv, TypeOK
  <1>3. /\ Here(p) = Whole(source[p])
        /\ slot[p][1] = Len(Fleet) /\ slot[p][2] = Len(Skills)
    BY <1>1, <1>2 DEF Completes
  <1>4. \A i \in 1..Len(Fleet) : i <= slot[p][1]
    BY <1>3, Sizes
  <1>5. job[p].command = "parity"
    BY <1>1, Facts DEF Fits
  <1> QED
    BY <1>1, <1>3, <1>4, <1>5, ComparedHere DEF Command

LEMMA SuccessStep == IInv /\ FInv /\ [Next]_vars => SuccessIsEarned
  <1> SUFFICES ASSUME IInv, FInv, [Next]_vars, NEW p \in Installer, Completes(p),
                      job[p].flag # "dry", ~Command(p, "parity")
               PROVE  \A s \in Promised(p) : dest'[s] = Whole(source[p])
    BY DEF SuccessIsEarned
  <1>1. ~CompareSkill(p)
    BY CompareCompletes
  <1> QED
    BY <1>1, CompletedBy, FinishInstalled, PreflightInstalled

LEMMA PassStep == IInv /\ FInv /\ [Next]_vars => PassIsEarned
  <1> SUFFICES ASSUME IInv, FInv, [Next]_vars, NEW p \in Installer, Completes(p),
                      Command(p, "parity")
               PROVE  \A i \in 1..Len(Fleet) :
                         /\ Fleet[i] \notin litter
                         /\ \A k \in Number : dest[<<Fleet[i], k>>] = Whole(source[p])
    BY DEF PassIsEarned
  <1>1. ~Finishes(p)
    <2>1. pc[p] \notin Working
      BY Facts DEF Fits, Command
    <2> QED
      BY <2>1 DEF Finishes
  <1>2. ~Preflight(p)
    <2>1. pc[p] # "preflight"
      BY Facts DEF Fits, Command
    <2> QED
      BY <2>1 DEF Preflight, Goto
  <1> QED
    BY <1>1, <1>2, CompletedBy, CompareCompletes

-----------------------------------------------------------------------------
(* When no copy is ever lost *)

NothingInTheWay ==
    /\ \A s \in Slots : dest[s] # NotDirectory
    /\ \A p \in Installer :
          pc[p] \in Transaction => Clear(pc[p], tx[p], Here(p), source[p])

\* A step of one process leaves the others outside of any transaction.
LEMMA OneInTransaction ==
    ASSUME IInv, FInv, NEW p \in Installer, InTurn(p), Step(p)
    PROVE  \A q \in Installer \ {p} : pc[q] \notin Transaction /\ pc'[q] = pc[q]
  <1>1. Start(p) \/ Active(p)
    <2>1. CASE Opens(p)
      BY <2>1 DEF Opens, Start, VerifySources, Preflight, StageSources, ReadRoot, CompareSkill,
                  Die, Goto, Active, Ended
    <2>2. CASE Turns(p) \/ Finishes(p)
      BY <2>2, WorkPlace DEF Turns, Finishes
    <2> QED
      BY <2>1, <2>2, StepKinds
  <1>2. \A q \in Installer \ {p} : ~Active(q)
    BY <1>1 DEF InTurn, FInv, Alone
  <1>3. PICK s \in Steps \ {"idle"} : pc' = [pc EXCEPT ![p] = s]
    BY StepMoves
  <1> QED
    BY <1>2, <1>3, Facts DEF Active, Transaction, Ended

\* The steps that end or open the work at a skill directory leave it as it is.
LEMMA NoSwap ==
    ASSUME IInv, NEW p \in Installer, Finishes(p) \/ Opens(p)
    PROVE  dest' = dest /\ pc'[p] \notin Transaction /\ pc'[p] # "idle"
  <1>1. PICK s \in Steps \ (Transaction \cup {"idle"}) : pc' = [pc EXCEPT ![p] = s]
    <2>1. CASE Finishes(p)
      BY <2>1 DEF Finishes, Finish, Steps, Ended, Transaction
    <2>2. CASE Opens(p)
      BY <2>2 DEF Opens, Start, VerifySources, Preflight, StageSources, ReadRoot, CompareSkill,
                  Die, Goto, Steps, Ended, Transaction
    <2> QED
      BY <2>1, <2>2
  <1>2. dest' = dest
    BY DEF Finishes, Opens, Start, VerifySources, Preflight, StageSources, ReadRoot,
           CompareSkill, Die, disk
  <1> QED
    BY <1>1, <1>2, Facts

LEMMA WayStaysClear ==
    ASSUME IInv, FInv, NothingInTheWay, ~May("obstruct"), NEW p \in Installer, InTurn(p), Step(p)
    PROVE  NothingInTheWay'
  <1>1. \A q \in Installer \ {p} : pc[q] \notin Transaction /\ pc'[q] = pc[q]
    BY OneInTransaction
  <1>2. CASE Turns(p)
    <2>1. PICK s \in Transaction, t \in TxShape, x \in Standing :
             /\ pc' = [pc EXCEPT ![p] = s] /\ tx' = [tx EXCEPT ![p] = t]
             /\ dest' = [dest EXCEPT ![Place(p)] = x]
             /\ Follows(pc[p], tx[p], Here(p), s, t, x, source[p])
      BY <1>2 DEF Turns
    <2>2. /\ pc[p] \in Working /\ UNCHANGED run /\ UNCHANGED slot
          /\ Undoes(pc[p], tx[p], Here(p), source[p])
          /\ Place(p) \in Slots /\ Here(p) = dest[Place(p)]
      BY <1>2, WorkPlace DEF Turns, FInv, Secure
    <2>3. Clear(pc[p], tx[p], Here(p), source[p])
      <3>1. CASE pc[p] \in Transaction
        BY <3>1 DEF NothingInTheWay
      <3>2. CASE pc[p] = "sync"
        BY <2>2, <3>2, NoTreeAssumption
           DEF NothingInTheWay, Undoes, NoTransaction, Clear, Transaction
      <3> QED
        BY <2>2, <3>1, <3>2 DEF Working
    <2>4. Clear(s, t, x, source[p])
      BY <2>1, <2>2, <2>3 DEF Follows
    <2>5. /\ pc'[p] = s /\ tx'[p] = t /\ source' = source /\ Here(p)' = x
          /\ x # NotDirectory
      <3>1. dest'[Place(p)] = x /\ Place(p)' = Place(p)
        BY <2>1, <2>2, Facts DEF Place, Target, run
      <3> QED
        BY <2>1, <2>2, <2>4, <3>1, Facts DEF Here, Clear, run
    <2>6. \A m \in Slots : dest'[m] # NotDirectory
      BY <2>1, <2>5, Facts DEF NothingInTheWay
    <2> QED
      BY <1>1, <2>4, <2>5, <2>6 DEF NothingInTheWay
  <1>3. CASE Finishes(p) \/ Opens(p)
    BY <1>1, <1>3, NoSwap DEF NothingInTheWay
  <1> QED
    BY <1>2, <1>3, StepKinds

LEMMA InitClear == Init => NothingInTheWay
  <1> SUFFICES ASSUME Init
               PROVE  NothingInTheWay
    OBVIOUS
  <1>1. \A s \in Slots : dest[s] # NotDirectory
    <2>1. \A v \in Version : Whole(v) # NotDirectory
      BY TreeShape
    <2> QED
      BY <2>1, NoTreeAssumption DEF Init
  <1> QED
    BY <1>1 DEF Init, NothingInTheWay, Transaction

LEMMA NextClear ==
    ASSUME IInv, FInv, NothingInTheWay, [Next]_vars, ~May("obstruct"),
           \A p \in Installer : Step(p) => InTurn(p)
    PROVE  NothingInTheWay'
  <1>1. ASSUME NEW p \in Installer, Step(p)
        PROVE  NothingInTheWay'
    BY <1>1, WayStaysClear
  <1>2. CASE UNCHANGED <<disk, pc, tx, run, slot>>
    BY <1>2 DEF NothingInTheWay, Here, Place, Target, disk, run
  <1>3. ASSUME NEW p \in Installer, NEW k \in Number, Edit(p, k)
        PROVE  NothingInTheWay'
    BY <1>2, <1>3 DEF Edit
  <1> QED
    BY <1>1, <1>2, <1>3 DEF Next, vars, Obstruct

LEMMA ClearSurvives ==
    ASSUME IInv, FInv, NothingInTheWay, ~(May("verify") /\ May("remove"))
    PROVE  OldOrNewSurvives
  <1> SUFFICES ASSUME NEW p \in Installer, pc[p] \in Transaction,
                      tx[p].before \in Tree, tx[p].before.whole
               PROVE  OldOrNewStands(p)
    BY DEF OldOrNewSurvives
  <1>1. OldOrNewStands(p) \/ Blocked(p)
    BY SecureLosesNothing DEF OldOrNewUnlessBlocked
  <1>2. ~Partial(source[p]).whole
    BY DEF Partial
  <1>3. ~Blocked(p)
    BY <1>2 DEF NothingInTheWay, Clear, Blocked
  <1> QED
    BY <1>1, <1>3

-----------------------------------------------------------------------------
(* One atomic step *)

\* Nothing has failed before the first destination is reached.
Early == {"idle", "sources", "preflight", "stage", "inventory", "compare"}

NoFailureYet == \A p \in Installer : pc[p] \in Early => success[p]

LEMMA OpensEarly ==
    ASSUME IInv, NEW p \in Installer, Opens(p)
    PROVE  \/ Die(p)
           \/ /\ pc[p] \in Early
              /\ \E s \in Steps \ {"dead"}, b \in BOOLEAN :
                    /\ pc' = [pc EXCEPT ![p] = s]
                    /\ success' = success \/ success' = [success EXCEPT ![p] = b]
                    /\ s \in Early =>
                          success' = success \/ b
  <1>1. CASE Start(p)
    BY <1>1 DEF Start, Goto, Early, Steps, Ended
  <1>2. CASE VerifySources(p)
    <2>1. PICK s \in {"ended", "stage", "inventory", "preflight"} :
             /\ pc' = [pc EXCEPT ![p] = s]
             /\ ~Signed(p) => s = "ended"
      BY <1>2 DEF VerifySources, Goto
    <2>2. pc[p] = "sources" /\ success' = [success EXCEPT ![p] = Signed(p)]
      BY <1>2 DEF VerifySources, Goto
    <2>3. Signed(p) \in BOOLEAN
      BY DEF Signed
    <2> QED
      BY <2>1, <2>2, <2>3 DEF Early, Steps, Ended
  <1>3. CASE Preflight(p)
    BY <1>3, PreflightShape DEF Early, Steps, Ended, Transaction
  <1>4. CASE StageSources(p)
    <2> DEFINE good == Signed(p) /\ Exportable(source[p])
    <2>1. PICK s \in {"ended", "sync"} : pc' = [pc EXCEPT ![p] = s]
      BY <1>4 DEF StageSources, Goto
    <2>2. pc[p] = "stage" /\ success' = [success EXCEPT ![p] = good] /\ good \in BOOLEAN
      BY <1>4 DEF StageSources, Goto
    <2> HIDE DEF good
    <2> QED
      BY <2>1, <2>2 DEF Early, Steps, Ended
  <1>5. CASE ReadRoot(p)
    <2> DEFINE fine == Inventory(Target(p))
    <2>1. PICK s \in {"ended", "compare"} :
             /\ pc' = [pc EXCEPT ![p] = s]
             /\ s = "compare" => fine
      BY <1>5 DEF ReadRoot, Goto
    <2>2. pc[p] = "inventory" /\ success' = [success EXCEPT ![p] = fine] /\ fine \in BOOLEAN
      BY <1>5 DEF ReadRoot, Goto, Inventory, Physical
    <2> HIDE DEF fine
    <2> QED
      BY <2>1, <2>2 DEF Early, Steps, Ended
  <1>6. CASE CompareSkill(p)
    <2>1. PICK b \in BOOLEAN, s \in {"compare", "inventory", "ended"} :
             /\ pc[p] = "compare" /\ pc' = [pc EXCEPT ![p] = s]
             /\ success' = [success EXCEPT ![p] = b]
             /\ s # "ended" => b
      BY <1>6, CompareSkillShape
    <2>2. s \in Steps \ {"dead"} /\ pc[p] \in Early /\ (s \in Early => b)
      BY <2>1 DEF Early, Steps, Ended
    <2> QED
      BY <2>1, <2>2
  <1> QED
    BY <1>1, <1>2, <1>3, <1>4, <1>5, <1>6 DEF Opens

LEMMA EarlyKept ==
    ASSUME IInv, NoFailureYet, NEW p \in Installer, Step(p)
    PROVE  NoFailureYet' /\ Failing' \in {Failing, Failing \cup {p}}
  <1> USE Facts DEF NoFailureYet, Failing
  <1>1. pc \in [Installer -> Steps] /\ success \in [Installer -> BOOLEAN]
    BY DEF IInv, TypeOK
  <1>2. CASE Turns(p)
    <2>1. PICK s \in Transaction : pc' = [pc EXCEPT ![p] = s]
      BY <1>2 DEF Turns
    <2>2. success' = success /\ pc[p] # "dead" /\ s # "dead" /\ s \notin Early
      BY <1>2, <2>1 DEF Turns, Transaction, Working, Early
    <2> QED
      BY <1>1, <2>1, <2>2
  <1>3. CASE Finishes(p)
    <2>1. PICK ok \in BOOLEAN, s \in {"ended", "sync"} :
             /\ pc' = [pc EXCEPT ![p] = s]
             /\ success' = [success EXCEPT ![p] = success[p] /\ ok]
      BY <1>3 DEF Finishes, Finish
    <2>2. pc[p] # "dead" /\ s # "dead" /\ s \notin Early
      BY <1>3, <2>1 DEF Finishes, Working, Transaction, Early
    <2> QED
      BY <1>1, <2>1, <2>2
  <1>4. CASE Die(p)
    <2>1. pc' = [pc EXCEPT ![p] = "dead"] /\ success' = success
      BY <1>4 DEF Die
    <2> QED
      BY <1>1, <2>1 DEF Early
  <1>5. CASE Opens(p) /\ ~Die(p)
    <2>1. PICK s \in Steps \ {"dead"}, b \in BOOLEAN :
             /\ pc[p] \in Early /\ pc' = [pc EXCEPT ![p] = s]
             /\ success' = success \/ success' = [success EXCEPT ![p] = b]
             /\ s \in Early => success' = success \/ b
      BY <1>5, OpensEarly
    <2>2. success[p] /\ pc[p] # "dead"
      BY <2>1 DEF Early
    <2> QED
      BY <1>1, <2>1, <2>2
  <1> QED
    BY <1>2, <1>3, <1>4, <1>5, StepKinds

\* What a place holds, with one consumer at work.
LEMMA ContentIs ==
    IInv /\ FInv => \A p \in Installer :
        Active(p) =>
            Content = [s \in Slots |-> IF s = Place(p) THEN Holding(pc[p], tx[p], Here(p))
                                       ELSE dest[s]]
  <1> SUFFICES ASSUME IInv, FInv, NEW p \in Installer, Active(p), NEW s \in Slots
               PROVE  Content[s] = IF s = Place(p) THEN Holding(pc[p], tx[p], Here(p))
                                   ELSE dest[s]
    BY DEF Content
  <1>1. \A q \in Installer : Replacing(q) => q = p
    BY DEF Replacing, FInv, Alone, Active, Transaction, Ended
  <1>2. CASE Replacing(p) /\ s = Place(p)
    BY <1>1, <1>2 DEF Content, Replacing, Holding
  <1>3. CASE ~(Replacing(p) /\ s = Place(p))
    BY <1>1, <1>3 DEF Content, Replacing, Holding, Here
  <1> QED
    BY <1>2, <1>3

LEMMA ContentNext ==
    (IInv /\ FInv)' => \A p \in Installer :
        Active(p)' =>
            Content' = [s \in Slots |-> IF s = Place(p)' THEN Holding(pc'[p], tx'[p], Here(p)')
                                        ELSE dest'[s]]
  <1>1. (IInv /\ FInv => \A p \in Installer :
            Active(p) =>
                Content = [s \in Slots |-> IF s = Place(p) THEN Holding(pc[p], tx[p], Here(p))
                                           ELSE dest[s]])'
    BY ContentIs, PTL
  <1> QED
    BY <1>1

LEMMA ContentIdle ==
    IInv /\ (\A p \in Installer : pc[p] \notin Transaction) => Content = dest
  BY DEF IInv, TypeOK, Content, Replacing

\* A copy that stands somewhere is complete or what a removal left.
LEMMA StandingKinds ==
    ASSUME NEW x \in Standing, Genuine(x)
    PROVE  x \in {Whole(v) : v \in Version} \cup {Partial(v) : v \in Version}
                    \cup {None, NotDirectory}
  <1>1. CASE x \in Tree
    <2>1. x.version \in Version /\ (x = Whole(x.version) \/ x = Partial(x.version))
      BY <1>1 DEF Genuine, Tree, Whole, Partial
    <2> QED
      BY <2>1
  <1> QED
    BY <1>1 DEF Standing

LEMMA TurnIsAtomic ==
    ASSUME IInv, FInv, IInv', FInv', NEW p \in Installer, Turns(p)
    PROVE  Content' = Content \/ AtomicFleet!Replace(Place(p))
  <1>1. PICK s \in Transaction, t \in TxShape, x \in Standing :
           /\ pc' = [pc EXCEPT ![p] = s] /\ tx' = [tx EXCEPT ![p] = t]
           /\ dest' = [dest EXCEPT ![Place(p)] = x]
           /\ Follows(pc[p], tx[p], Here(p), s, t, x, source[p])
    BY DEF Turns
  <1>2. /\ pc[p] \in Working /\ UNCHANGED run /\ UNCHANGED <<slot, success>>
        /\ Undoes(pc[p], tx[p], Here(p), source[p])
        /\ Place(p) \in Slots /\ Active(p)
    BY WorkPlace DEF Turns, FInv, Secure
  <1>3. /\ pc'[p] = s /\ tx'[p] = t /\ Place(p)' = Place(p) /\ Here(p)' = x /\ Active(p)'
    <2>1. Place(p)' = Place(p)
      BY <1>2 DEF Place, Target, run
    <2> QED
      BY <1>1, <1>2, <2>1, Facts DEF Here, Active, Transaction, Ended
  <1>4. Content = [m \in Slots |-> IF m = Place(p) THEN Holding(pc[p], tx[p], Here(p))
                                   ELSE dest[m]]
    BY <1>2, ContentIs
  <1>5. Content' = [m \in Slots |-> IF m = Place(p) THEN Holding(s, t, x) ELSE dest[m]]
    <2>1. Content' = [m \in Slots |-> IF m = Place(p)' THEN Holding(pc'[p], tx'[p], Here(p)')
                                      ELSE dest'[m]]
      BY <1>3, ContentNext
    <2> QED
      BY <1>1, <1>3, <2>1, Facts
  <1>6. Holding(s, t, x) \in {Holding(pc[p], tx[p], Here(p)), Whole(source[p])}
    BY <1>1, <1>2 DEF Follows
  <1>7. CASE Holding(s, t, x) = Holding(pc[p], tx[p], Here(p))
    BY <1>4, <1>5, <1>7
  <1>8. CASE Holding(s, t, x) = Whole(source[p])
    <2>1. Content' = [Content EXCEPT ![Place(p)] = Whole(source[p])]
      BY <1>2, <1>4, <1>5, <1>8
    <2>2. Failing' = Failing
      BY <1>1, <1>2, Facts DEF Failing, Working, Transaction
    <2> QED
      BY <2>1, <2>2, Facts DEF AtomicFleet!Replace, Failing
  <1> QED
    BY <1>6, <1>7, <1>8

LEMMA ContentIdleNext ==
    IInv' /\ (\A p \in Installer : pc'[p] \notin Transaction) => Content' = dest'
  <1>1. (IInv /\ (\A p \in Installer : pc[p] \notin Transaction) => Content = dest)'
    BY ContentIdle, PTL
  <1> QED
    BY <1>1

\* A run that gives up a place leaves there what a removal may leave.
LEMMA GivesUp ==
    ASSUME IInv, FInv, NEW p \in Installer, Active(p),
           Content' = dest, Failing' = Failing \cup {p}
    PROVE  AtomicFleet!Fail(p)
  <1>1. Place(p) \in Slots /\ Here(p) \in Standing /\ Genuine(Here(p))
    BY Facts DEF Active, Steps
  <1>2. Content = [s \in Slots |-> IF s = Place(p) THEN Holding(pc[p], tx[p], Here(p))
                                   ELSE dest[s]]
    BY ContentIs
  <1>3. Content' = [Content EXCEPT ![Place(p)] = Here(p)]
    BY <1>1, <1>2, Facts DEF Here
  <1>4. Here(p) \in {Whole(v) : v \in Version} \cup {Partial(v) : v \in Version}
                       \cup {None, NotDirectory}
    BY <1>1, StandingKinds
  <1> QED
    BY <1>1, <1>3, <1>4 DEF AtomicFleet!Fail, Failing

LEMMA FinishIsAtomic ==
    ASSUME IInv, FInv, IInv', NoFailureYet, NEW p \in Installer, InTurn(p), Step(p), Finishes(p)
    PROVE  (Content' = Content /\ Failing' = Failing) \/ AtomicFleet!Fail(p)
  <1>1. PICK failed \in BOOLEAN, ok \in BOOLEAN :
           /\ Finish(p, failed, ok)
           /\ ok => pc[p] = "sync" \/ tx[p].committed
    BY DEF Finishes
  <1>2. pc[p] \in Working /\ Active(p) /\ Place(p) \in Slots
    BY WorkPlace DEF Finishes
  <1>3. dest' = dest /\ pc'[p] \notin Transaction
    BY NoSwap
  <1>4. \A q \in Installer \ {p} : pc[q] \notin Transaction /\ pc'[q] = pc[q]
    BY OneInTransaction
  <1>5. Content' = dest
    BY <1>3, <1>4, ContentIdleNext
  <1>6. CASE ok
    <2>1. Content = dest
      <3>1. Holding(pc[p], tx[p], Here(p)) = dest[Place(p)]
        BY <1>1, <1>6 DEF Holding, Here, Transaction
      <3>2. Content = [s \in Slots |-> IF s = Place(p) THEN Holding(pc[p], tx[p], Here(p))
                                       ELSE dest[s]]
        BY <1>2, ContentIs
      <3> QED
        BY <1>2, <3>1, <3>2, Facts
    <2>2. Failing' \in {Failing, Failing \cup {p}}
      BY EarlyKept
    <2> QED
      BY <1>5, <2>1, <2>2 DEF AtomicFleet!Fail, Failing
  <1>7. CASE ~ok
    <2>1. ~success'[p]
      BY <1>1, <1>7, Facts DEF Finish, IInv, TypeOK
    <2>2. Failing' = Failing \cup {p}
      BY <2>1, EarlyKept DEF Failing
    <2> QED
      BY <1>2, <1>5, <2>2, GivesUp
  <1> QED
    BY <1>6, <1>7

LEMMA OpenIsAtomic ==
    ASSUME IInv, FInv, IInv', NoFailureYet, NEW p \in Installer, InTurn(p), Step(p), Opens(p)
    PROVE  (Content' = Content /\ Failing' = Failing) \/ AtomicFleet!Fail(p)
  <1>1. dest' = dest /\ pc'[p] \notin Transaction
    BY NoSwap
  <1>2. \A q \in Installer \ {p} : pc[q] \notin Transaction /\ pc'[q] = pc[q]
    BY OneInTransaction
  <1>3. Content' = dest
    BY <1>1, <1>2, ContentIdleNext
  <1>4. Failing' \in {Failing, Failing \cup {p}}
    BY EarlyKept
  <1>5. CASE Die(p)
    <2>1. pc'[p] = "dead" /\ Active(p)
      BY <1>5, Facts DEF Die
    <2>2. Failing' = Failing \cup {p}
      BY <1>4, <2>1 DEF Failing
    <2> QED
      BY <1>3, <2>1, <2>2, GivesUp
  <1>6. CASE ~Die(p)
    <2>1. pc[p] \in Early
      BY <1>6, OpensEarly
    <2>2. Content = dest
      BY <1>2, <2>1, ContentIdle DEF Early, Transaction
    <2> QED
      BY <1>3, <1>4, <2>2 DEF AtomicFleet!Fail, Failing
  <1> QED
    BY <1>5, <1>6

\* What another program does shows where nothing stands and nothing is put aside.
LEMMA ObstructIsAtomic ==
    ASSUME IInv, NEW s \in Slots, Obstruct(s)
    PROVE  (Content' = Content /\ Failing' = Failing) \/ AtomicFleet!Intrude(s)
  <1>1. /\ dest[s] = None /\ dest' = [dest EXCEPT ![s] = NotDirectory]
        /\ UNCHANGED <<run, pc, slot, tx, success>>
    BY DEF Obstruct
  <1>2. Failing' = Failing
    BY <1>1 DEF Failing
  <1>3. \A p \in Installer : Replacing(p)' = Replacing(p) /\ Place(p)' = Place(p)
    BY <1>1 DEF Replacing, Place, Target, run
  <1>4. ASSUME NEW m \in Slots
        PROVE  Content'[m] = IF \E p \in Installer : Replacing(p) /\ Place(p) = m
                             THEN Content[m] ELSE dest'[m]
    <2>1. tx' = tx
      BY <1>1
    <2> QED
      BY <1>3, <2>1 DEF Content
  <1>5. /\ Content = [m \in Slots |-> Content[m]]
        /\ Content' = [m \in Slots |-> Content'[m]]
    BY DEF Content
  <1>6. \A m \in Slots : (\A p \in Installer : ~(Replacing(p) /\ Place(p) = m)) =>
                             Content[m] = dest[m]
    BY DEF Content
  <1>7. \A m \in Slots : dest'[m] = IF m = s THEN NotDirectory ELSE dest[m]
    BY <1>1, Facts DEF IInv, TypeOK
  <1>8. CASE \E p \in Installer : Replacing(p) /\ Place(p) = s
    <2>1. \A m \in Slots : Content'[m] = Content[m]
      BY <1>4, <1>6, <1>7, <1>8
    <2> QED
      BY <1>2, <1>5, <2>1
  <1>9. CASE ~\E p \in Installer : Replacing(p) /\ Place(p) = s
    <2>1. Content[s] = None
      BY <1>1, <1>6, <1>9
    <2>2. \A m \in Slots : Content'[m] = IF m = s THEN NotDirectory ELSE Content[m]
      BY <1>4, <1>6, <1>7, <1>9
    <2>3. Content' = [Content EXCEPT ![s] = NotDirectory]
      BY <1>5, <2>2
    <2> QED
      BY <1>2, <2>1, <2>3 DEF AtomicFleet!Intrude, Failing
  <1> QED
    BY <1>8, <1>9

LEMMA OthersAreAtomic ==
    ASSUME NoFailureYet, UNCHANGED <<run, pc, slot, tx, success>>
    PROVE  NoFailureYet' /\ Failing' = Failing /\ (dest' = dest => Content' = Content)
  BY DEF NoFailureYet, Failing, Content, Replacing, Place, Target, run

\* As long as consumers take turns, every step of one is a step of the abstract
\* fleet.
LEMMA StepIsAtomic ==
    ASSUME IInv, FInv, IInv', FInv', NoFailureYet, [Next]_vars,
           \A p \in Installer : Step(p) => InTurn(p)
    PROVE  /\ NoFailureYet'
           /\ AtomicFleet!Next \/ (Content' = Content /\ Failing' = Failing)
  <1>1. ASSUME NEW p \in Installer, Step(p)
        PROVE  /\ NoFailureYet'
               /\ AtomicFleet!Next \/ (Content' = Content /\ Failing' = Failing)
    <2>1. InTurn(p)
      BY <1>1
    <2>2. NoFailureYet'
      BY <1>1, EarlyKept
    <2>3. CASE Turns(p)
      <3>1. Failing' = Failing
        <4>1. PICK s \in Transaction : pc' = [pc EXCEPT ![p] = s]
          BY <2>3 DEF Turns
        <4> QED
          BY <2>3, <4>1, Facts DEF Turns, Failing, Working, Transaction
      <3>2. Place(p) \in Slots
        BY <2>3, WorkPlace DEF Turns
      <3> QED
        BY <2>2, <2>3, <3>1, <3>2, TurnIsAtomic DEF AtomicFleet!Next
    <2>4. CASE Finishes(p)
      BY <1>1, <2>1, <2>2, <2>4, FinishIsAtomic DEF AtomicFleet!Next
    <2>5. CASE Opens(p)
      BY <1>1, <2>1, <2>2, <2>5, OpenIsAtomic DEF AtomicFleet!Next
    <2> QED
      BY <1>1, <2>3, <2>4, <2>5, StepKinds
  <1>2. ASSUME NEW p \in Installer, NEW k \in Number, Edit(p, k)
        PROVE  NoFailureYet' /\ Content' = Content /\ Failing' = Failing
    BY <1>2, OthersAreAtomic DEF Edit, disk
  <1>3. ASSUME NEW s \in Slots, Obstruct(s)
        PROVE  /\ NoFailureYet'
               /\ AtomicFleet!Next \/ (Content' = Content /\ Failing' = Failing)
    <2>1. NoFailureYet'
      BY <1>3, OthersAreAtomic DEF Obstruct
    <2> QED
      BY <1>3, <2>1, ObstructIsAtomic DEF AtomicFleet!Next
  <1>4. CASE UNCHANGED vars
    BY <1>4, OthersAreAtomic DEF vars, disk
  <1> QED
    BY <1>1, <1>2, <1>3, <1>4 DEF Next

LEMMA InitIsAtomic == Init => NoFailureYet /\ AtomicFleet!Init
  <1> SUFFICES ASSUME Init
               PROVE  NoFailureYet /\ AtomicFleet!Init
    OBVIOUS
  <1>1. pc = [p \in Installer |-> "idle"] /\ success = [p \in Installer |-> TRUE]
        /\ dest \in [Slots -> {None} \cup {Whole(v) : v \in Version}]
    BY DEF Init
  <1>2. NoFailureYet /\ Failing = {}
    BY <1>1 DEF NoFailureYet, Failing
  <1>3. Content = dest
    BY <1>1, InitHolds, ContentIdle DEF Transaction
  <1> QED
    BY <1>1, <1>2, <1>3 DEF AtomicFleet!Init, Failing

-----------------------------------------------------------------------------
(* The launchers *)

\* The steps of a launcher leave the installation alone; every other step is
\* one of the installation.
LEMMA LaunchedStep == [LNext]_lvars => [Next]_vars
  BY DEF LNext, lvars, TakeLock, RunConsumer, Work, GiveLock, LauncherDies, Disturb, Next, Step

LEMMA LaunchedInstalls == LSpec => Spec
  <1>1. LInit => Init
    BY DEF LInit
  <1> QED
    BY <1>1, LaunchedStep, PTL DEF LSpec, Spec

\* A consumer at work has a launcher that holds the lock, unless one was killed
\* over its consumer; then nothing is said.
LInv ==
    /\ holder \in Installer \cup {None}
    /\ gone \subseteq Installer
    /\ orphaned \in BOOLEAN
    /\ holder \notin gone
    /\ ~orphaned => (\A p \in Installer : Active(p) => holder = p) /\ FInv

\* The lock makes the consumers take turns.
LEMMA LaunchedInTurn ==
    ASSUME IInv, LInv, ~orphaned, [LNext]_lvars, NEW p \in Installer, Step(p)
    PROVE  InTurn(p)
  <1> SUFFICES ASSUME Start(p)
               PROVE  \A q \in Installer : ~Active(q)
    BY DEF InTurn
  <1>1. \A q \in Installer : Active(q) => holder = q
    BY DEF LInv
  <1>2. pc \in [Installer -> Steps] /\ pc[p] = "idle" /\ pc'[p] = "sources"
    BY Facts DEF IInv, TypeOK, Start, Goto
  <1>3. ASSUME NEW q \in Installer, RunConsumer(q)
        PROVE  holder = p
    BY <1>2, <1>3 DEF RunConsumer, Start, Goto
  <1>4. ASSUME NEW q \in Installer
        PROVE  ~Work(q)
    <2> SUFFICES ASSUME Work(q)
                 PROVE  FALSE
      OBVIOUS
    <2>1. Step(q) /\ pc[q] # "idle"
      BY DEF Work, Active
    <2>2. PICK s \in Steps : pc' = [pc EXCEPT ![q] = s]
      BY <2>1, StepMoves
    <2> QED
      BY <1>2, <2>1, <2>2
  <1>5. holder = p
    BY <1>2, <1>3, <1>4
       DEF LNext, lvars, vars, TakeLock, GiveLock, LauncherDies, Disturb, Edit, Obstruct
  <1> QED
    BY <1>1, <1>2, <1>5 DEF Active

LEMMA LaunchedSecure ==
    ASSUME IInv, LInv, ~orphaned, [LNext]_lvars
    PROVE  FInv'
  BY LaunchedStep, LaunchedInTurn, NextSecure DEF LInv

\* Nobody works but under the lock, as long as no launcher left its consumer.
LEMMA UnderLock ==
    ASSUME IInv, LInv, ~orphaned', [LNext]_lvars
    PROVE  \A p \in Installer : Active(p)' => holder' = p
  <1> SUFFICES ASSUME NEW q \in Installer, Active(q)'
               PROVE  holder' = q
    OBVIOUS
  <1>1. ~orphaned
    BY DEF LNext, lvars, launchers, TakeLock, RunConsumer, Work, GiveLock, LauncherDies, Disturb
  <1>2. \A p \in Installer : Active(p) => holder = p
    BY <1>1 DEF LInv
  <1>3. CASE UNCHANGED vars /\ UNCHANGED holder
    BY <1>2, <1>3 DEF vars, Active
  <1>4. ASSUME NEW p \in Installer, TakeLock(p) \/ GiveLock(p)
        PROVE  holder' = q
    <2>1. Active(q) /\ holder = q
      BY <1>2, <1>4 DEF TakeLock, GiveLock, vars, Active
    <2> QED
      BY <1>4, <2>1, NobodyAssumption DEF TakeLock, GiveLock
  <1>5. ASSUME NEW p \in Installer, LauncherDies(p)
        PROVE  holder' = q
    <2>1. Active(q) /\ holder = q
      BY <1>2, <1>5 DEF LauncherDies, vars, Active
    <2>2. ~Active(p)
      BY <1>5 DEF LauncherDies
    <2> QED
      BY <1>5, <2>1, <2>2 DEF LauncherDies
  <1>6. ASSUME NEW p \in Installer, RunConsumer(p) \/ Work(p)
        PROVE  holder' = q
    <2>1. Step(p) /\ holder = p /\ holder' = holder
      BY <1>2, <1>6 DEF RunConsumer, Work, Step, launchers
    <2>2. q # p => Active(q)
      BY <2>1, StepMoves, Facts DEF Active
    <2> QED
      BY <1>2, <2>1, <2>2
  <1>7. CASE Disturb
    BY <1>2, <1>7 DEF Disturb, Edit, Obstruct, launchers, Active
  <1> QED
    BY <1>3, <1>4, <1>5, <1>6, <1>7 DEF LNext, lvars, launchers

LEMMA LaunchedInductive ==
    IInv /\ LInv /\ [LNext]_lvars => LInv'
  <1> SUFFICES ASSUME IInv, LInv, [LNext]_lvars
               PROVE  LInv'
    OBVIOUS
  <1>1. /\ holder' \in Installer \cup {None}
        /\ gone' \subseteq Installer
        /\ orphaned' \in BOOLEAN
        /\ holder' \notin gone'
    BY NobodyAssumption
       DEF LInv, LNext, lvars, launchers, TakeLock, RunConsumer, Work, GiveLock, LauncherDies,
           Disturb
  <1>2. ~orphaned' => ~orphaned
    BY DEF LNext, lvars, launchers, TakeLock, RunConsumer, Work, GiveLock, LauncherDies, Disturb
  <1> QED
    BY <1>1, <1>2, LaunchedSecure, UnderLock DEF LInv

\* Two invariants of the composition: what every run of consumers keeps, and
\* what the lock adds to it.
THEOREM LaunchedInvariant == LSpec => [](IInv /\ LInv)
  <1>1. LInit => LInv
    <2> SUFFICES ASSUME LInit
                 PROVE  LInv
      OBVIOUS
    <2>1. FInv /\ \A p \in Installer : ~Active(p)
      BY InitSecure DEF LInit, Init, Active
    <2> QED
      BY <2>1, NobodyAssumption DEF LInit, LInv
  <1> QED
    BY <1>1, LaunchedInductive, LaunchedInstalls, Inductive, PTL DEF LSpec

\* Under launchers too every variable keeps its type, and no edited skill lands.
THEOREM LaunchedKeepsTypes == LSpec => []TypeOK /\ []EditedNeverLands
  BY LaunchedInstalls, TypeCorrect, NothingEditedLands

\* The lock keeps the copies safe, without the assumption that one consumer
\* works at a time: until a launcher is killed under its consumer, the old
\* copy or the new one is complete.
THEOREM LockLosesNothing == LSpec => []LaunchedLosesNothing
  <1>1. IInv /\ LInv => LaunchedLosesNothing
    BY SecureLosesNothing DEF LInv, LaunchedLosesNothing
  <1> QED
    BY <1>1, LaunchedInvariant, PTL

\* Under the lock a rollback deletes only its own copy and restores what it
\* found.
THEOREM LockRollsBack == LSpec => []LaunchedRollsBack
  <1>1. IInv /\ LInv => LaunchedRollsBack
    BY SecureRestores, SecureRemovesOwn DEF LInv, LaunchedRollsBack
  <1> QED
    BY <1>1, LaunchedInvariant, PTL

\* Under the lock success and parity are reported of what is there.
THEOREM LockReportsTruly == LSpec => LaunchedReportsTruly
  <1>1. IInv /\ LInv /\ [LNext]_lvars => [~orphaned => SuccessIsEarned /\ PassIsEarned]_lvars
    BY LaunchedStep, SuccessStep, PassStep DEF LInv
  <1> QED
    BY <1>1, LaunchedInvariant, PTL DEF LSpec, LaunchedReportsTruly

\* "Each skill-directory replacement is atomic": seen from outside, counting
\* what a replacement has put aside, a skill directory goes at once from what
\* it held to a complete released copy, or the run that touched it fails.
THEOREM LockReplacesAtomically == LSpec => LaunchedReplacesAtomically
  <1> DEFINE AInv == ~orphaned => NoFailureYet
  <1>1. LInit => AInv /\ AtomicFleet!Init
    BY InitIsAtomic DEF LInit
  <1>2. IInv /\ LInv /\ AInv /\ IInv' /\ [LNext]_lvars =>
           AInv' /\ [~orphaned => ReplacesAtomically]_lvars
    <2> SUFFICES ASSUME IInv, LInv, AInv, IInv', [LNext]_lvars
                 PROVE  AInv' /\ (~orphaned => ReplacesAtomically)
      OBVIOUS
    <2>1. ~orphaned' => ~orphaned
      BY DEF LNext, lvars, launchers, TakeLock, RunConsumer, Work, GiveLock, LauncherDies, Disturb
    <2>2. ASSUME ~orphaned
          PROVE  NoFailureYet' /\ ReplacesAtomically
      <3>1. FInv /\ FInv' /\ NoFailureYet
        BY <2>2, LaunchedSecure DEF LInv
      <3>2. \A p \in Installer : Step(p) => InTurn(p)
        BY <2>2, LaunchedInTurn
      <3>3. NoFailureYet' /\ (AtomicFleet!Next \/ (Content' = Content /\ Failing' = Failing))
        BY <3>1, <3>2, LaunchedStep, StepIsAtomic
      <3> QED
        BY <3>3 DEF ReplacesAtomically
    <2> QED
      BY <2>1, <2>2
  <1> HIDE DEF AInv
  <1> QED
    BY <1>1, <1>2, LaunchedInvariant, PTL DEF LSpec, LaunchedReplacesAtomically

\* Where no other program interferes, and a failed verification and a failed
\* removal do not come together, the same sentence holds to the letter:
\* whatever else fails, and wherever a run is killed, the old copy or the new
\* one is complete, until a launcher is killed under its consumer.
THEOREM NothingIsLostUnlessBothFail ==
    ASSUME ~May("obstruct"), ~(May("verify") /\ May("remove"))
    PROVE  LSpec => [](~orphaned => OldOrNewSurvives)
  <1> DEFINE CInv == ~orphaned => NothingInTheWay
  <1>1. LInit => CInv
    BY InitClear DEF LInit
  <1>2. IInv /\ LInv /\ CInv /\ [LNext]_lvars => CInv'
    <2> SUFFICES ASSUME IInv, LInv, CInv, [LNext]_lvars, ~orphaned'
                 PROVE  NothingInTheWay'
      OBVIOUS
    <2>1. ~orphaned
      BY DEF LNext, lvars, launchers, TakeLock, RunConsumer, Work, GiveLock, LauncherDies, Disturb
    <2>2. FInv /\ \A p \in Installer : Step(p) => InTurn(p)
      BY <2>1, LaunchedInTurn DEF LInv
    <2> QED
      BY <2>1, <2>2, LaunchedStep, NextClear
  <1>3. IInv /\ LInv /\ CInv => (~orphaned => OldOrNewSurvives)
    BY ClearSurvives DEF LInv
  <1> HIDE DEF CInv
  <1> QED
    BY <1>1, <1>2, <1>3, LaunchedInvariant, PTL DEF LSpec

\* A step of installer or launcher is a step of the fence, or none.
LEMMA LaunchedSimulation ==
    IInv /\ LInv /\ [LNext]_lvars => [Fence!Next]_<<holder, gone, Child>>
  <1> SUFFICES ASSUME IInv, LInv, [LNext]_lvars
               PROVE  Fence!Next \/ UNCHANGED <<holder, gone, Child>>
    OBVIOUS
  <1>1. \A p \in Installer :
           /\ Child[p] = "none" <=> pc[p] = "idle"
           /\ Child[p] = "running" <=> Active(p)
    BY DEF Child, Active, Ended
  <1>2. UNCHANGED vars => UNCHANGED Child
    BY DEF vars, Child
  <1>3. ASSUME NEW p \in Installer, TakeLock(p)
        PROVE  Fence!Take(p)
    BY <1>1, <1>2, <1>3 DEF TakeLock, Fence!Take
  <1>4. ASSUME NEW p \in Installer, GiveLock(p)
        PROVE  Fence!Release(p)
    BY <1>1, <1>2, <1>4 DEF GiveLock, Fence!Release
  <1>5. ASSUME NEW p \in Installer, LauncherDies(p)
        PROVE  Fence!Die(p)
    BY <1>2, <1>5 DEF LInv, LauncherDies, Fence!Die
  <1>6. ASSUME NEW p \in Installer, RunConsumer(p)
        PROVE  Fence!Launch(p)
    <2>1. /\ holder = p /\ UNCHANGED <<holder, gone>>
          /\ pc[p] = "idle" /\ pc' = [pc EXCEPT ![p] = "sources"]
      BY <1>6 DEF RunConsumer, Start, Goto, launchers
    <2>2. pc \in [Installer -> Steps]
      BY Facts DEF IInv, TypeOK
    <2>3. Child' = [Child EXCEPT ![p] = "running"]
      BY <2>1, <2>2 DEF Child, Ended
    <2> QED
      BY <1>1, <2>1, <2>3 DEF Fence!Launch
  <1>7. ASSUME NEW p \in Installer, Work(p)
        PROVE  Fence!Exit(p) \/ UNCHANGED <<holder, gone, Child>>
    <2>1. Active(p) /\ UNCHANGED <<holder, gone>>
      BY <1>7 DEF Work, launchers
    <2>2. PICK s \in Steps \ {"idle"} : pc' = [pc EXCEPT ![p] = s]
      BY <1>7, StepMoves DEF Work
    <2>3. pc \in [Installer -> Steps]
      BY Facts DEF IInv, TypeOK
    <2>4. CASE s \in Ended
      <3>1. Child' = [Child EXCEPT ![p] = "exited"]
        BY <2>2, <2>3, <2>4 DEF Child, Ended
      <3> QED
        BY <1>1, <2>1, <3>1 DEF Fence!Exit
    <2>5. CASE s \notin Ended
      <3>1. Child' = Child
        BY <2>1, <2>2, <2>3, <2>5 DEF Child, Active
      <3> QED
        BY <2>1, <3>1
    <2> QED
      BY <2>4, <2>5
  <1>8. CASE Disturb
    BY <1>8 DEF Disturb, Edit, Obstruct, launchers, Child
  <1>9. CASE UNCHANGED lvars
    BY <1>2, <1>9 DEF lvars, launchers
  <1> QED
    BY <1>3, <1>4, <1>5, <1>6, <1>7, <1>8, <1>9 DEF LNext, Fence!Next

\* The installers under their launchers implement the same fence that the
\* launcher of Freshness does.
THEOREM LaunchedImplementsFence == LSpec => LaunchedUnderFence
  <1>1. LInit => Fence!Init
    BY DEF LInit, Init, Fence!Init, Child, Ended
  <1> QED
    BY <1>1, LaunchedSimulation, LaunchedInvariant, PTL
       DEF LSpec, LaunchedUnderFence, Fence!Spec
=============================================================================
