-------------------------- MODULE TrustRootProofs ---------------------------
(***************************************************************************)
(* The safety properties of TrustRoot for any number of verifiers, keys,   *)
(* thresholds, roots, statements and deployments, and any chain bound.     *)
(***************************************************************************)
EXTENDS TrustRoot, Integers, TLAPS

USE MaxUpdatesAssumption

-----------------------------------------------------------------------------
(* The inductive invariant *)

\* A running verifier remembers its command line.
Remembers == \A p \in Verifier : Active(p) => memory[p] \in Memories

\* The lock is held by exactly the verifier inside the transaction.
LockHeld == \A p \in Verifier : pc[p] \in Locked <=> lock = p

\* The checkpoint a verifier has read is the one on disk until it is replaced.
SeenIsCurrent ==
    \A p \in Verifier :
        pc[p] \in {"read", "chained", "current", "bound", "writing"} =>
            memory[p].seen = checkpoint

\* Rotation by rotation, and all from files that were deployed.
Verified(chain) ==
    /\ Len(chain) \in 1..(MaxUpdates + 1)
    /\ \A i \in 1..(Len(chain) - 1) : Rotation(chain[i], chain[i + 1])
    /\ \A i \in 1..Len(chain) : chain[i] \in DeployedRoots

ChainsVerified ==
    \A p \in Verifier :
        pc[p] \in {"chained", "current", "bound", "writing"} => Verified(memory[p].chain)

DeployedStatements == {d.statement : d \in Deployment}

ComparedWithCheckpoint ==
    \A p \in Verifier :
        pc[p] \in {"current", "bound", "writing"} =>
            /\ memory[p].statement \in DeployedStatements
            /\ \/ memory[p].seen = None
               \/ ValidateRootCheckpoint(memory[p].seen, memory[p].chain, memory[p].statement)

StatementsVerified ==
    \A p \in Verifier :
        pc[p] \in {"bound", "writing"} =>
            /\ memory[p].statement.rootVersion = Final(memory[p].chain).version
            /\ MeetsThreshold(memory[p].statement, Final(memory[p].chain).release)

Inductive ==
    /\ TypeOK
    /\ Remembers
    /\ LockHeld
    /\ SeenIsCurrent
    /\ ChainsVerified
    /\ ComparedWithCheckpoint
    /\ StatementsVerified
    /\ AcceptedIsAuthorized

-----------------------------------------------------------------------------
(* Data *)

\* What is deployed has the shape of the command line's files.
LEMMA DeploymentType ==
    ASSUME NEW d \in Deployment
    PROVE  /\ d.pin \in Roots
           /\ d.chain \in Seq(Roots)
           /\ Len(d.chain) \in Nat \ {0}
           /\ d.statement \in Statements
           /\ d.statement # None
  <1>1. d \in Deployments
    BY TrustRootAssumption
  <1>2. d.chain \in Seq(Roots) /\ d.chain # <<>>
    BY <1>1 DEF Deployments
  <1>3. Len(d.chain) \in Nat \ {0}
    BY <1>2
  <1> QED
    BY <1>1, <1>2, <1>3, TrustRootAssumption DEF Deployments

\* The last root of a chain is a root.
LEMMA FinalType ==
    ASSUME NEW chain \in Seq(Roots), Len(chain) >= 1
    PROVE  Final(chain) \in Roots
  BY DEF Final

\* A new checkpoint has the type of one.
LEMMA RootCheckpointType ==
    ASSUME NEW chain \in Seq(Roots), Len(chain) >= 1, NEW s \in Statements
    PROVE  /\ RootCheckpoint(chain, s) \in Checkpoints
           /\ RootCheckpoint(chain, s).root = Final(chain)
           /\ RootCheckpoint(chain, s).release = Payload(s)
           /\ RootCheckpoint(chain, s) # None
           /\ Payload(s).releaseSequence = s.releaseSequence
           /\ Payload(s).rootVersion = s.rootVersion
  <1>1. Final(chain) \in Roots
    BY FinalType
  <1>2. Payload(s) \in Payloads
    BY DEF Payload, Payloads, Statements
  <1>3. RootCheckpoint(chain, s) \in Checkpoints
    BY <1>1, <1>2 DEF RootCheckpoint, Checkpoints
  <1> QED
    BY <1>3, TrustRootAssumption DEF RootCheckpoint, Payload

\* The files read at CheckChain are a prefix of what is deployed.
LEMMA LoadedChain ==
    ASSUME NEW d \in Deployment, NEW n \in Nat, n < Len(d.chain)
    PROVE  LET loaded == SubSeq(d.chain, 1, n + 1) IN
           /\ loaded \in Seq(Roots)
           /\ Len(loaded) = n + 1
           /\ \A i \in 1..(n + 1) : loaded[i] \in DeployedRoots
  <1> DEFINE loaded == SubSeq(d.chain, 1, n + 1)
  <1>1. d.chain \in Seq(Roots) /\ Len(d.chain) \in Nat
    BY DeploymentType
  <1>2. loaded \in Seq(Roots) /\ Len(loaded) = n + 1
    BY <1>1
  <1>3. \A i \in 1..(n + 1) : loaded[i] = d.chain[i] /\ i \in DOMAIN d.chain
    BY <1>1
  <1>4. \A i \in 1..(n + 1) : loaded[i] \in DeployedRoots
    BY <1>3 DEF DeployedRoots
  <1> QED
    BY <1>2, <1>4

\* Any root of a verified chain is followed, rotation by rotation, by the last.
LEMMA ChainSuccession ==
    ASSUME NEW chain \in Seq(Roots), Verified(chain), NEW i \in DOMAIN chain
    PROVE  Succeeds(chain[i], Final(chain))
  <1> DEFINE n == Len(chain) - i + 1
             rest == [k \in 1..n |-> chain[k + i - 1]]
  <1>1. /\ i \in 1..Len(chain)
        /\ Len(chain) \in 1..(MaxUpdates + 1)
        /\ n \in 1..(MaxUpdates + 1)
        /\ i \in Nat /\ n \in Nat /\ 1 <= n /\ Len(chain) \in Nat
    BY DEF Verified
  <1>2. rest \in [1..n -> DeployedRoots]
    <2>1. \A k \in 1..n : k + i - 1 \in 1..Len(chain)
      BY <1>1
    <2> QED
      BY <2>1 DEF Verified
  <1>3. rest[1] = chain[i] /\ rest[n] = Final(chain)
    <2>1. 1 \in 1..n /\ n \in 1..n
      BY <1>1
    <2>2. 1 + i - 1 = i
      BY <1>1
    <2>3. n + i - 1 = Len(chain)
      BY <1>1
    <2> QED
      BY <2>1, <2>2, <2>3 DEF Final
  <1>4. ASSUME NEW k \in 1..(n - 1)
        PROVE  Rotation(rest[k], rest[k + 1])
    <2>1. /\ k + i - 1 \in 1..(Len(chain) - 1)
          /\ k \in 1..n
          /\ k + 1 \in 1..n
          /\ (k + 1) + i - 1 = (k + i - 1) + 1
      BY <1>1
    <2>2. rest[k] = chain[k + i - 1] /\ rest[k + 1] = chain[(k + i - 1) + 1]
      BY <2>1
    <2> QED
      BY <2>1, <2>2 DEF Verified
  <1> QED
    BY <1>1, <1>2, <1>3, <1>4 DEF Succeeds

-----------------------------------------------------------------------------
(* What a step of one verifier amounts to *)

Act(p) == (\E pid \in Pid : Start(p, pid)) \/ Step(p) \/ Die(p)

\* A verifier goes on, the lock stays where it is.
Moved(p, from, to, held) ==
    /\ pc[p] = from
    /\ pc' = [pc EXCEPT ![p] = to]
    /\ memory' = [memory EXCEPT ![p] = held]
    /\ lock' = lock

Started(p) ==
    /\ checkpoint' = checkpoint
    /\ \E held \in Memories : Moved(p, "idle", "waiting", held)

Acquired(p) ==
    /\ checkpoint' = checkpoint
    /\ lock = None
    /\ lock' = p
    /\ pc[p] = "waiting"
    /\ pc' = [pc EXCEPT ![p] = "locked"]
    /\ memory' = memory

HasRead(p) ==
    /\ checkpoint' = checkpoint
    /\ Moved(p, "locked", "read", [memory[p] EXCEPT !.seen = checkpoint])

HasVerifiedChain(p) ==
    /\ checkpoint' = checkpoint
    /\ \E chain \in Seq(Roots) :
          /\ Verified(chain)
          /\ Moved(p, "read", "chained", [memory[p] EXCEPT !.chain = chain])

HasCompared(p) ==
    /\ checkpoint' = checkpoint
    /\ \E loaded \in Statements \cap DeployedStatements :
          /\ Moved(p, "chained", "current", [memory[p] EXCEPT !.statement = loaded])
          /\ \/ memory[p].seen = None
             \/ ValidateRootCheckpoint(memory[p].seen, memory[p].chain, loaded)

HasVerifiedStatement(p) ==
    /\ checkpoint' = checkpoint
    /\ Moved(p, "current", "bound", memory[p])
    /\ memory[p].statement.rootVersion = Final(memory[p].chain).version
    /\ MeetsThreshold(memory[p].statement, Final(memory[p].chain).release)

HasOpened(p) ==
    /\ checkpoint' = checkpoint
    /\ Moved(p, "bound", "writing", memory[p])

HasReplaced(p) ==
    /\ checkpoint' = RootCheckpoint(memory[p].chain, memory[p].statement)
    /\ Moved(p, "writing", "replaced", memory[p])

\* Refused, finished or killed.
Left(p) ==
    /\ checkpoint' = checkpoint
    /\ Active(p)
    /\ \E step \in Ended : pc' = [pc EXCEPT ![p] = step]
    /\ memory' = [memory EXCEPT ![p] = None]
    /\ lock' = IF pc[p] \in Locked THEN None ELSE lock

Outcome(p) ==
    \/ Started(p) \/ Acquired(p) \/ HasRead(p) \/ HasVerifiedChain(p) \/ HasCompared(p)
    \/ HasVerifiedStatement(p) \/ HasOpened(p) \/ HasReplaced(p) \/ Left(p)

LEMMA StepOutcome ==
    ASSUME TypeOK, Remembers, LockHeld, NEW p \in Verifier, Act(p)
    PROVE  Outcome(p)
  <1>1. /\ pc \in [Verifier -> Ended \cup Locked \cup {"idle", "waiting"}]
        /\ memory \in [Verifier -> Memories \cup {None}]
        /\ deployed \in Deployment
    BY DEF TypeOK
  <1>2. pc[p] \in Locked => memory[p] \in Memories /\ Active(p)
    BY DEF Remembers, Active, Locked, Ended
  <1>3. ASSUME NEW pid \in Pid, Start(p, pid)
        PROVE  Started(p)
    <2> DEFINE held == [pid |-> pid, pin |-> deployed.pin, updates |-> Len(deployed.chain) - 1,
                        chain |-> <<>>, seen |-> None, statement |-> None]
    <2>1. deployed.pin \in Roots /\ Len(deployed.chain) - 1 \in Nat
      BY <1>1, DeploymentType
    <2>2. <<>> \in Seq(Roots)
      OBVIOUS
    <2>3. held \in Memories
      BY <2>1, <2>2 DEF Memories
    <2> QED
      BY <1>3, <2>3 DEF Start, Started, Moved
  <1>4. ASSUME Acquire(p)
        PROVE  Acquired(p)
    BY <1>4 DEF Acquire, Acquired
  <1>5. ASSUME ReadCheckpoint(p)
        PROVE  HasRead(p)
    BY <1>5 DEF ReadCheckpoint, Advance, HasRead, Moved
  <1>6. ASSUME NEW ran \in BOOLEAN, CheckChain(p, ran)
        PROVE  HasVerifiedChain(p) \/ Left(p)
    <2> DEFINE loaded == SubSeq(deployed.chain, 1, memory[p].updates + 1)
               ok == /\ ran
                     /\ memory[p].updates < Len(deployed.chain)
                     /\ VerifyRootChain(memory[p].pin, loaded, clock)
    <2>1. pc[p] = "read" /\ memory[p] \in Memories /\ Active(p) /\ pc[p] \in Locked
      BY <1>2, <1>6 DEF CheckChain, Advance, Locked
    <2>2. CASE ok
      <3>1. memory[p].updates \in Nat
        BY <2>1 DEF Memories
      <3>2. /\ loaded \in Seq(Roots)
            /\ Len(loaded) = memory[p].updates + 1
            /\ \A i \in 1..(memory[p].updates + 1) : loaded[i] \in DeployedRoots
        BY <1>1, <2>2, <3>1, LoadedChain
      <3>3. Verified(loaded)
        BY <2>2, <3>1, <3>2 DEF Verified, VerifyRootChain
      <3>4. Moved(p, "read", "chained", [memory[p] EXCEPT !.chain = loaded])
        BY <1>6, <2>2 DEF CheckChain, Advance, Moved
      <3> QED
        BY <1>6, <3>2, <3>3, <3>4 DEF CheckChain, HasVerifiedChain
    <2>3. CASE ~ok
      BY <1>6, <2>1, <2>3 DEF CheckChain, Advance, Left, Ended
    <2> QED
      BY <2>2, <2>3
  <1>7. ASSUME CheckCheckpoint(p)
        PROVE  HasCompared(p) \/ Left(p)
    <2> DEFINE loaded == deployed.statement
               ok == /\ ParseEnvelope(loaded)
                     /\ \/ memory[p].seen = None
                        \/ ValidateRootCheckpoint(memory[p].seen, memory[p].chain, loaded)
    <2>1. Active(p) /\ pc[p] \in Locked
      BY <1>2, <1>7 DEF CheckCheckpoint, Advance, Locked
    <2>2. loaded \in Statements \cap DeployedStatements
      BY <1>1, DeploymentType DEF DeployedStatements
    <2>3. CASE ok
      <3>1. Moved(p, "chained", "current", [memory[p] EXCEPT !.statement = loaded])
        BY <1>7, <2>3 DEF CheckCheckpoint, Advance, Moved
      <3> QED
        BY <1>7, <2>2, <2>3, <3>1 DEF CheckCheckpoint, HasCompared
    <2>4. CASE ~ok
      BY <1>7, <2>1, <2>4 DEF CheckCheckpoint, Advance, Left, Ended
    <2> QED
      BY <2>3, <2>4
  <1>8. ASSUME NEW bound \in BOOLEAN, CheckStatement(p, bound)
        PROVE  HasVerifiedStatement(p) \/ Left(p)
    <2> DEFINE ok == VerifyStatement(memory[p].statement, Final(memory[p].chain), clock) /\ bound
    <2>1. Active(p) /\ pc[p] \in Locked
      BY <1>2, <1>8 DEF CheckStatement, Advance, Locked
    <2>2. CASE ok
      BY <1>8, <2>2 DEF CheckStatement, Advance, HasVerifiedStatement, Moved, VerifyStatement
    <2>3. CASE ~ok
      BY <1>8, <2>1, <2>3 DEF CheckStatement, Advance, Left, Ended
    <2> QED
      BY <2>2, <2>3
  <1>9. ASSUME OpenTemporary(p)
        PROVE  HasOpened(p) \/ Left(p)
    <2>1. Active(p) /\ pc[p] \in Locked
      BY <1>2, <1>9 DEF OpenTemporary, Advance, Locked
    <2> QED
      BY <1>9, <2>1 DEF OpenTemporary, Advance, HasOpened, Moved, Left, Ended
  <1>10. ASSUME NEW written \in BOOLEAN, Replace(p, written)
         PROVE  HasReplaced(p) \/ Left(p)
    <2>1. Active(p) /\ pc[p] \in Locked
      BY <1>2, <1>10 DEF Replace, Advance, Locked
    <2> QED
      BY <1>10, <2>1 DEF Replace, Advance, HasReplaced, Moved, Left, Ended
  <1>11. ASSUME NEW synchronised \in BOOLEAN, Finish(p, synchronised)
         PROVE  Left(p)
    <2>1. Active(p) /\ pc[p] \in Locked
      BY <1>2, <1>11 DEF Finish, Locked
    <2> QED
      BY <1>11, <2>1 DEF Finish, Left, Ended
  <1>12. ASSUME Die(p)
         PROVE  Left(p)
    BY <1>12 DEF Die, Left, Ended, LockHeld
  <1> QED
    BY <1>3, <1>4, <1>5, <1>6, <1>7, <1>8, <1>9, <1>10, <1>11, <1>12 DEF Act, Step, Outcome

\* Files, clock and temporary names under a verifier's step.
LEMMA StepFrame ==
    ASSUME TypeOK, Remembers, NEW p \in Verifier, Act(p)
    PROVE  /\ clock' = clock
           /\ deployed' = deployed
           /\ temporaries' \subseteq Pid
  <1>1. temporaries \subseteq Pid
    BY DEF TypeOK
  <1>2. CASE OpenTemporary(p)
    <2>1. memory[p] \in Memories
      BY <1>2 DEF OpenTemporary, Advance, Remembers, Active, Ended
    <2>2. memory[p].pid \in Pid
      BY <2>1 DEF Memories
    <2> QED
      BY <1>1, <1>2, <2>2 DEF OpenTemporary
  <1>3. CASE ~OpenTemporary(p)
    BY <1>1, <1>3 DEF Act, Start, Step, Die, Acquire, ReadCheckpoint, CheckChain, CheckCheckpoint,
                      CheckStatement, Replace, Finish
  <1> QED
    BY <1>2, <1>3

\* What is known of a chain and a statement that are about to be accepted.
LEMMA AboutToReplace ==
    ASSUME Inductive, NEW p \in Verifier, pc[p] = "writing"
    PROVE  /\ memory[p].chain \in Seq(Roots)
           /\ Len(memory[p].chain) >= 1
           /\ Verified(memory[p].chain)
           /\ memory[p].statement \in Statements
           /\ memory[p].statement \in DeployedStatements
           /\ memory[p].statement.rootVersion = Final(memory[p].chain).version
           /\ MeetsThreshold(memory[p].statement, Final(memory[p].chain).release)
           /\ memory[p].seen = checkpoint
           /\ \/ checkpoint = None
              \/ ValidateRootCheckpoint(checkpoint, memory[p].chain, memory[p].statement)
  <1>1. memory[p] \in Memories
    BY DEF Inductive, Remembers, Active, Ended
  <1>2. memory[p].chain \in Seq(Roots)
    BY <1>1 DEF Memories
  <1>3. Verified(memory[p].chain)
    BY DEF Inductive, ChainsVerified
  <1>4. Len(memory[p].chain) >= 1
    BY <1>3 DEF Verified
  <1>5. memory[p].statement \in DeployedStatements
    BY DEF Inductive, ComparedWithCheckpoint
  <1>6. memory[p].statement \in Statements
    BY <1>5, DeploymentType DEF DeployedStatements
  <1>7. memory[p].seen = checkpoint
    BY DEF Inductive, SeenIsCurrent
  <1>8. memory[p].seen = None \/ ValidateRootCheckpoint(memory[p].seen, memory[p].chain, memory[p].statement)
    BY DEF Inductive, ComparedWithCheckpoint
  <1> QED
    BY <1>2, <1>3, <1>4, <1>5, <1>6, <1>7, <1>8 DEF Inductive, StatementsVerified

\* Who acts and what it remembers after, for every outcome.
LEMMA OutcomeShape ==
    ASSUME Inductive, NEW p \in Verifier, Outcome(p)
    PROVE  /\ \E step \in Ended \cup Locked \cup {"waiting"} : pc' = [pc EXCEPT ![p] = step]
           /\ \E held \in Memories \cup {None} :
                 /\ memory' = [memory EXCEPT ![p] = held]
                 /\ pc'[p] \notin Ended => held \in Memories
           /\ lock' \in Verifier \cup {None}
  <1>1. /\ pc \in [Verifier -> Ended \cup Locked \cup {"idle", "waiting"}]
        /\ memory \in [Verifier -> Memories \cup {None}]
        /\ lock \in Verifier \cup {None}
        /\ checkpoint \in Checkpoints \cup {None}
    BY DEF Inductive, TypeOK
  <1>2. Active(p) => memory[p] \in Memories
    BY DEF Inductive, Remembers
  <1>3. pc[p] \in Locked \cup {"waiting"} => Active(p)
    BY DEF Active, Locked, Ended
  <1>4. memory = [memory EXCEPT ![p] = memory[p]]
    BY <1>1
  <1>5. CASE Started(p)
    BY <1>1, <1>5 DEF Started, Moved, Ended
  <1>6. CASE Acquired(p)
    BY <1>1, <1>2, <1>3, <1>4, <1>6 DEF Acquired, Ended, Locked
  <1>7. CASE HasRead(p)
    <2>1. [memory[p] EXCEPT !.seen = checkpoint] \in Memories
      BY <1>1, <1>2, <1>3, <1>7 DEF HasRead, Moved, Locked, Memories
    <2> QED
      BY <1>1, <1>7, <2>1 DEF HasRead, Moved, Locked, Ended
  <1>8. CASE HasVerifiedChain(p)
    <2>1. PICK chain \in Seq(Roots) : Moved(p, "read", "chained", [memory[p] EXCEPT !.chain = chain])
      BY <1>8 DEF HasVerifiedChain
    <2>2. [memory[p] EXCEPT !.chain = chain] \in Memories
      BY <1>2, <1>3, <2>1 DEF Moved, Locked, Memories
    <2> QED
      BY <1>1, <2>1, <2>2 DEF Moved, Locked, Ended
  <1>9. CASE HasCompared(p)
    <2>1. PICK loaded \in Statements :
             Moved(p, "chained", "current", [memory[p] EXCEPT !.statement = loaded])
      BY <1>9 DEF HasCompared
    <2>2. [memory[p] EXCEPT !.statement = loaded] \in Memories
      BY <1>2, <1>3, <2>1 DEF Moved, Locked, Memories
    <2> QED
      BY <1>1, <2>1, <2>2 DEF Moved, Locked, Ended
  <1>10. CASE HasVerifiedStatement(p) \/ HasOpened(p) \/ HasReplaced(p)
    BY <1>1, <1>2, <1>3, <1>10
       DEF HasVerifiedStatement, HasOpened, HasReplaced, Moved, Locked, Ended
  <1>11. CASE Left(p)
    BY <1>1, <1>11 DEF Left
  <1> QED
    BY <1>5, <1>6, <1>7, <1>8, <1>9, <1>10, <1>11 DEF Outcome

-----------------------------------------------------------------------------
(* The invariant is inductive *)

LEMMA InductiveInit ==
    Init => Inductive
  <1> SUFFICES ASSUME Init
               PROVE  Inductive
    OBVIOUS
  <1>1. TypeOK
    BY DEF Init, TypeOK, Ended, Locked
  <1>2. Remembers
    BY DEF Init, Remembers, Active
  <1>3. LockHeld
    BY TrustRootAssumption DEF Init, LockHeld, Locked
  <1> QED
    BY <1>1, <1>2, <1>3 DEF Init, Inductive, SeenIsCurrent, ChainsVerified,
       ComparedWithCheckpoint, StatementsVerified, AcceptedIsAuthorized

\* Nobody acts: the clock ticks, files are replaced, or nothing happens.
LEMMA IdleStep ==
    ASSUME Inductive, Tick \/ Deploy \/ UNCHANGED vars
    PROVE  Inductive'
  <1>1. UNCHANGED <<checkpoint, lock, temporaries, pc, memory>>
    BY DEF Tick, Deploy, vars
  <1>2. clock' \in Nat /\ deployed' \in Deployment
    BY DEF Inductive, TypeOK, Tick, Deploy, vars
  <1>3. TypeOK'
    BY <1>1, <1>2 DEF Inductive, TypeOK
  <1>4. Remembers' /\ LockHeld' /\ SeenIsCurrent'
    BY <1>1 DEF Inductive, Remembers, Active, LockHeld, SeenIsCurrent
  <1>5. ChainsVerified' /\ ComparedWithCheckpoint' /\ StatementsVerified' /\ AcceptedIsAuthorized'
    BY <1>1 DEF Inductive, ChainsVerified, ComparedWithCheckpoint, StatementsVerified,
                AcceptedIsAuthorized
  <1> QED
    BY <1>3, <1>4, <1>5 DEF Inductive

\* Others go on as they were, and are outside the transaction if p was in it.
LEMMA OthersKept ==
    ASSUME Inductive, NEW p \in Verifier, Outcome(p), NEW q \in Verifier, q # p
    PROVE  /\ pc'[q] = pc[q]
           /\ memory'[q] = memory[q]
           /\ pc[p] \in Locked => pc[q] \notin Locked
  <1>1. pc \in [Verifier -> Ended \cup Locked \cup {"idle", "waiting"}]
        /\ memory \in [Verifier -> Memories \cup {None}]
    BY DEF Inductive, TypeOK
  <1>2. pc'[q] = pc[q] /\ memory'[q] = memory[q]
    BY <1>1, OutcomeShape
  <1> QED
    BY <1>2 DEF Inductive, LockHeld

LEMMA LockStep ==
    ASSUME Inductive, NEW p \in Verifier, Outcome(p)
    PROVE  LockHeld'
  <1> SUFFICES ASSUME NEW q \in Verifier
               PROVE  pc'[q] \in Locked <=> lock' = q
    BY DEF LockHeld
  <1>1. pc \in [Verifier -> Ended \cup Locked \cup {"idle", "waiting"}]
    BY DEF Inductive, TypeOK
  <1>2. \A r \in Verifier : pc[r] \in Locked <=> lock = r
    BY DEF Inductive, LockHeld
  <1>3. None \notin Verifier
    BY TrustRootAssumption
  <1>4. q # p => pc'[q] = pc[q]
    BY OthersKept
  <1>5. CASE Started(p)
    BY <1>1, <1>2, <1>4, <1>5 DEF Started, Moved, Locked
  <1>6. CASE Acquired(p)
    BY <1>1, <1>2, <1>3, <1>4, <1>6 DEF Acquired, Locked
  <1>7. CASE Left(p)
    BY <1>1, <1>2, <1>3, <1>4, <1>7 DEF Left, Locked, Ended
  <1>8. CASE HasRead(p) \/ HasVerifiedChain(p) \/ HasCompared(p) \/ HasVerifiedStatement(p)
             \/ HasOpened(p) \/ HasReplaced(p)
    <2>1. pc[p] \in Locked /\ pc'[p] \in Locked /\ lock' = lock
      BY <1>1, <1>8 DEF HasRead, HasVerifiedChain, HasCompared, HasVerifiedStatement, HasOpened,
                        HasReplaced, Moved, Locked
    <2> QED
      BY <1>2, <1>4, <2>1
  <1> QED
    BY <1>5, <1>6, <1>7, <1>8 DEF Outcome

\* A verifier's own knowledge after its step.
LEMMA OwnStep ==
    ASSUME Inductive, NEW p \in Verifier, Outcome(p)
    PROVE  /\ pc'[p] \in {"read", "chained", "current", "bound", "writing"} =>
                 memory'[p].seen = checkpoint /\ checkpoint' = checkpoint
           /\ pc'[p] \in {"chained", "current", "bound", "writing"} => Verified(memory'[p].chain)
           /\ pc'[p] \in {"current", "bound", "writing"} =>
                 /\ memory'[p].statement \in DeployedStatements
                 /\ \/ memory'[p].seen = None
                    \/ ValidateRootCheckpoint(memory'[p].seen, memory'[p].chain, memory'[p].statement)
           /\ pc'[p] \in {"bound", "writing"} =>
                 /\ memory'[p].statement.rootVersion = Final(memory'[p].chain).version
                 /\ MeetsThreshold(memory'[p].statement, Final(memory'[p].chain).release)
  <1>1. pc \in [Verifier -> Ended \cup Locked \cup {"idle", "waiting"}]
        /\ memory \in [Verifier -> Memories \cup {None}]
    BY DEF Inductive, TypeOK
  <1>2. pc[p] \in Locked => memory[p] \in Memories
    BY DEF Inductive, Remembers, Active, Locked, Ended
  <1>3. /\ pc[p] \in {"read", "chained", "current", "bound", "writing"} => memory[p].seen = checkpoint
        /\ pc[p] \in {"chained", "current", "bound", "writing"} => Verified(memory[p].chain)
        /\ pc[p] \in {"current", "bound", "writing"} =>
              /\ memory[p].statement \in DeployedStatements
              /\ \/ memory[p].seen = None
                 \/ ValidateRootCheckpoint(memory[p].seen, memory[p].chain, memory[p].statement)
        /\ pc[p] \in {"bound", "writing"} =>
              /\ memory[p].statement.rootVersion = Final(memory[p].chain).version
              /\ MeetsThreshold(memory[p].statement, Final(memory[p].chain).release)
    BY DEF Inductive, SeenIsCurrent, ChainsVerified, ComparedWithCheckpoint, StatementsVerified
  <1>4. CASE Started(p) \/ Acquired(p) \/ HasReplaced(p) \/ Left(p)
    <2>1. pc'[p] \notin {"read", "chained", "current", "bound", "writing"}
      BY <1>1, <1>4 DEF Started, Acquired, HasReplaced, Left, Moved, Ended
    <2> QED
      BY <2>1
  <1>5. CASE HasRead(p)
    <2>1. pc'[p] = "read" /\ memory'[p].seen = checkpoint /\ checkpoint' = checkpoint
      BY <1>1, <1>2, <1>5 DEF HasRead, Moved, Locked, Memories
    <2> QED
      BY <2>1
  <1>6. CASE HasVerifiedChain(p)
    <2>1. PICK chain \in Seq(Roots) :
             /\ Verified(chain)
             /\ Moved(p, "read", "chained", [memory[p] EXCEPT !.chain = chain])
      BY <1>6 DEF HasVerifiedChain
    <2>2. /\ pc'[p] = "chained" /\ checkpoint' = checkpoint
          /\ memory'[p].seen = checkpoint /\ memory'[p].chain = chain
      BY <1>1, <1>2, <1>3, <1>6, <2>1 DEF HasVerifiedChain, Moved, Locked, Memories
    <2> QED
      BY <2>1, <2>2
  <1>7. CASE HasCompared(p)
    <2>1. PICK loaded \in Statements \cap DeployedStatements :
             /\ Moved(p, "chained", "current", [memory[p] EXCEPT !.statement = loaded])
             /\ \/ memory[p].seen = None
                \/ ValidateRootCheckpoint(memory[p].seen, memory[p].chain, loaded)
      BY <1>7 DEF HasCompared
    <2>2. /\ pc'[p] = "current" /\ pc[p] = "chained" /\ checkpoint' = checkpoint
          /\ memory'[p].seen = memory[p].seen /\ memory'[p].chain = memory[p].chain
          /\ memory'[p].statement = loaded
      BY <1>1, <1>2, <1>7, <2>1 DEF HasCompared, Moved, Locked, Memories
    <2> QED
      BY <1>3, <2>1, <2>2
  <1>8. CASE HasVerifiedStatement(p)
    <2>1. /\ pc'[p] = "bound" /\ pc[p] = "current" /\ checkpoint' = checkpoint
          /\ memory'[p] = memory[p]
      BY <1>1, <1>8 DEF HasVerifiedStatement, Moved
    <2> QED
      BY <1>3, <1>8, <2>1 DEF HasVerifiedStatement
  <1>9. CASE HasOpened(p)
    <2>1. /\ pc'[p] = "writing" /\ pc[p] = "bound" /\ checkpoint' = checkpoint
          /\ memory'[p] = memory[p]
      BY <1>1, <1>9 DEF HasOpened, Moved
    <2> QED
      BY <1>3, <2>1
  <1> QED
    BY <1>4, <1>5, <1>6, <1>7, <1>8, <1>9 DEF Outcome

\* The checkpoint stays, or is the one of a verifier that had everything checked.
LEMMA CheckpointStep ==
    ASSUME Inductive, NEW p \in Verifier, Outcome(p)
    PROVE  \/ checkpoint' = checkpoint
           \/ /\ pc[p] = "writing"
              /\ checkpoint' = RootCheckpoint(memory[p].chain, memory[p].statement)
  BY DEF Outcome, Started, Acquired, HasRead, HasVerifiedChain, HasCompared, HasVerifiedStatement,
         HasOpened, HasReplaced, Left, Moved

LEMMA AuthorizedStep ==
    ASSUME Inductive, NEW p \in Verifier, Outcome(p)
    PROVE  AcceptedIsAuthorized' /\ checkpoint' \in Checkpoints \cup {None}
  <1>1. CASE checkpoint' = checkpoint
    BY <1>1 DEF Inductive, TypeOK, AcceptedIsAuthorized
  <1>2. CASE pc[p] = "writing" /\ checkpoint' = RootCheckpoint(memory[p].chain, memory[p].statement)
    <2> DEFINE chain == memory[p].chain
               s == memory[p].statement
    <2>1. /\ chain \in Seq(Roots) /\ Len(chain) >= 1
          /\ s \in Statements /\ s \in DeployedStatements
          /\ s.rootVersion = Final(chain).version
          /\ MeetsThreshold(s, Final(chain).release)
      BY <1>2, AboutToReplace
    <2>2. /\ checkpoint' \in Checkpoints
          /\ checkpoint'.root = Final(chain)
          /\ checkpoint'.release = Payload(s)
          /\ checkpoint'.release.rootVersion = s.rootVersion
      BY <1>2, <2>1, RootCheckpointType
    <2>3. PICK d \in Deployment : d.statement = s
      BY <2>1 DEF DeployedStatements
    <2> QED
      BY <2>1, <2>2, <2>3 DEF AcceptedIsAuthorized
  <1> QED
    BY <1>1, <1>2, CheckpointStep

LEMMA ActStep ==
    ASSUME Inductive, NEW p \in Verifier, Act(p)
    PROVE  Inductive' /\ Outcome(p)
  <1>1. TypeOK /\ Remembers /\ LockHeld
    BY DEF Inductive
  <1>2. Outcome(p)
    BY <1>1, StepOutcome
  <1>3. clock' = clock /\ deployed' = deployed /\ temporaries' \subseteq Pid
    BY <1>1, StepFrame
  <1>4. PICK step \in Ended \cup Locked \cup {"waiting"} : pc' = [pc EXCEPT ![p] = step]
    BY <1>2, OutcomeShape
  <1>5. PICK held \in Memories \cup {None} :
           /\ memory' = [memory EXCEPT ![p] = held]
           /\ pc'[p] \notin Ended => held \in Memories
    BY <1>2, OutcomeShape
  <1>6. /\ pc \in [Verifier -> Ended \cup Locked \cup {"idle", "waiting"}]
        /\ memory \in [Verifier -> Memories \cup {None}]
        /\ clock \in Nat
        /\ deployed \in Deployment
    BY <1>1 DEF TypeOK
  <1>7. AcceptedIsAuthorized' /\ checkpoint' \in Checkpoints \cup {None}
    BY <1>2, AuthorizedStep
  <1>8. TypeOK'
    <2>1. pc' \in [Verifier -> Ended \cup Locked \cup {"idle", "waiting"}]
      BY <1>4, <1>6
    <2>2. memory' \in [Verifier -> Memories \cup {None}]
      BY <1>5, <1>6
    <2>3. lock' \in Verifier \cup {None}
      BY <1>2, OutcomeShape
    <2> QED
      BY <1>3, <1>6, <1>7, <2>1, <2>2, <2>3 DEF TypeOK
  <1>9. Remembers'
    <2> SUFFICES ASSUME NEW q \in Verifier, pc'[q] \notin Ended \cup {"idle"}
                 PROVE  memory'[q] \in Memories
      BY DEF Remembers, Active
    <2>1. CASE q = p
      BY <1>5, <1>6, <2>1
    <2>2. CASE q # p
      <3>1. pc[q] \notin Ended \cup {"idle"} /\ memory'[q] = memory[q]
        BY <1>2, <2>2, OthersKept
      <3> QED
        BY <1>1, <3>1 DEF Remembers, Active
    <2> QED
      BY <2>1, <2>2
  <1>10. LockHeld'
    BY <1>2, LockStep
  <1>11. SeenIsCurrent'
    <2> SUFFICES ASSUME NEW q \in Verifier,
                        pc'[q] \in {"read", "chained", "current", "bound", "writing"}
                 PROVE  memory'[q].seen = checkpoint'
      BY DEF SeenIsCurrent
    <2>1. CASE q = p
      BY <1>2, <2>1, OwnStep
    <2>2. CASE q # p
      <3>1. /\ pc[q] = pc'[q] /\ memory'[q] = memory[q]
            /\ pc[p] \in Locked => pc[q] \notin Locked
        BY <1>2, <2>2, OthersKept
      <3>2. pc[p] \notin Locked
        BY <3>1 DEF Locked
      <3>3. checkpoint' = checkpoint
        BY <1>2, <3>2, CheckpointStep DEF Locked
      <3> QED
        BY <3>1, <3>3 DEF Inductive, SeenIsCurrent
    <2> QED
      BY <2>1, <2>2
  <1>12. ChainsVerified'
    <2> SUFFICES ASSUME NEW q \in Verifier, pc'[q] \in {"chained", "current", "bound", "writing"}
                 PROVE  Verified(memory'[q].chain)
      BY DEF ChainsVerified, Verified, DeployedRoots
    <2>1. CASE q = p
      BY <1>2, <2>1, OwnStep
    <2>2. CASE q # p
      BY <1>2, <2>2, OthersKept DEF Inductive, ChainsVerified
    <2> QED
      BY <2>1, <2>2
  <1>13. ComparedWithCheckpoint'
    <2> SUFFICES ASSUME NEW q \in Verifier, pc'[q] \in {"current", "bound", "writing"}
                 PROVE  /\ memory'[q].statement \in DeployedStatements
                        /\ \/ memory'[q].seen = None
                           \/ ValidateRootCheckpoint(memory'[q].seen, memory'[q].chain,
                                                     memory'[q].statement)
      BY DEF ComparedWithCheckpoint, DeployedStatements
    <2>1. CASE q = p
      BY <1>2, <2>1, OwnStep
    <2>2. CASE q # p
      BY <1>2, <2>2, OthersKept DEF Inductive, ComparedWithCheckpoint
    <2> QED
      BY <2>1, <2>2
  <1>14. StatementsVerified'
    <2> SUFFICES ASSUME NEW q \in Verifier, pc'[q] \in {"bound", "writing"}
                 PROVE  /\ memory'[q].statement.rootVersion = Final(memory'[q].chain).version
                        /\ MeetsThreshold(memory'[q].statement, Final(memory'[q].chain).release)
      BY DEF StatementsVerified
    <2>1. CASE q = p
      BY <1>2, <2>1, OwnStep
    <2>2. CASE q # p
      BY <1>2, <2>2, OthersKept DEF Inductive, StatementsVerified
    <2> QED
      BY <2>1, <2>2
  <1> QED
    BY <1>2, <1>7, <1>8, <1>9, <1>10, <1>11, <1>12, <1>13, <1>14 DEF Inductive

LEMMA InductiveNext ==
    ASSUME Inductive, [Next]_vars
    PROVE  Inductive'
  <1>1. CASE Tick \/ Deploy \/ UNCHANGED vars
    BY <1>1, IdleStep
  <1>2. ASSUME NEW p \in Verifier, Act(p)
        PROVE  Inductive'
    BY <1>2, ActStep
  <1> QED
    BY <1>1, <1>2 DEF Next, Act

-----------------------------------------------------------------------------
(* Theorems *)

\* The inductive invariant holds in every reachable state.
THEOREM InductiveHolds == Spec => []Inductive
  <1>1. Inductive /\ [Next]_vars => Inductive'
    BY InductiveNext
  <1> QED
    BY InductiveInit, <1>1, PTL DEF Spec

\* Every variable keeps its type.
THEOREM TypeCorrect == Spec => []TypeOK
  <1>1. Inductive => TypeOK
    BY DEF Inductive
  <1> QED
    BY InductiveHolds, <1>1, PTL

\* What the checkpoint records was signed by the release role of its root.
THEOREM AuthorizationHolds == Spec => []AcceptedIsAuthorized
  <1>1. Inductive => AcceptedIsAuthorized
    BY DEF Inductive
  <1> QED
    BY InductiveHolds, <1>1, PTL

\* A step that moves the checkpoint is a verifier's replacement, which had
\* compared chain and statement with the checkpoint it replaces.
LEMMA CheckpointMoves ==
    ASSUME Inductive, [Next]_vars, checkpoint' # checkpoint
    PROVE  \E chain \in Seq(Roots), s \in Statements :
              /\ Len(chain) >= 1
              /\ Verified(chain)
              /\ s.rootVersion = Final(chain).version
              /\ checkpoint = None \/ ValidateRootCheckpoint(checkpoint, chain, s)
              /\ checkpoint' = RootCheckpoint(chain, s)
  <1>1. PICK p \in Verifier : Act(p)
    BY DEF Next, Act, Tick, Deploy, vars
  <1>2. pc[p] = "writing" /\ checkpoint' = RootCheckpoint(memory[p].chain, memory[p].statement)
    BY <1>1, ActStep, CheckpointStep
  <1> QED
    BY <1>2, AboutToReplace

\* Accepted roots follow one another by rotations that both sides signed.
THEOREM RotationsHold == Spec => RotationsAreSigned
  <1>1. ASSUME Inductive, [Next]_vars, checkpoint # None, checkpoint' # checkpoint
        PROVE  Succeeds(checkpoint.root, checkpoint'.root)
    <2>1. PICK chain \in Seq(Roots), s \in Statements :
              /\ Len(chain) >= 1
              /\ Verified(chain)
              /\ ValidateRootCheckpoint(checkpoint, chain, s)
              /\ checkpoint' = RootCheckpoint(chain, s)
      BY <1>1, CheckpointMoves
    <2>2. PICK i \in DOMAIN chain : checkpoint.root = chain[i]
      BY <2>1 DEF ValidateRootCheckpoint
    <2>3. checkpoint'.root = Final(chain)
      BY <2>1, RootCheckpointType
    <2> QED
      BY <2>1, <2>2, <2>3, ChainSuccession
  <1>2. Inductive /\ [Next]_vars =>
            [checkpoint # None /\ checkpoint' # checkpoint =>
                Succeeds(checkpoint.root, checkpoint'.root)]_vars
    BY <1>1
  <1> QED
    BY InductiveHolds, <1>2, PTL DEF Spec, RotationsAreSigned

\* Root and release only advance, and only with a release of higher sequence.
THEOREM TrustAdvances == Spec => TrustOnlyAdvances
  <1> DEFINE root == IF checkpoint = None THEN None ELSE checkpoint.root
             version == IF checkpoint = None THEN 0 ELSE checkpoint.root.version
             sequence == IF checkpoint = None THEN 0 ELSE checkpoint.release.releaseSequence
  <1>1. Init => Trusted!Init
    BY DEF Init, Trusted!Init
  <1>2. ASSUME Inductive, [Next]_vars
        PROVE  [Trusted!Accept]_<<root, version, sequence>>
    <2>1. CASE checkpoint' = checkpoint
      BY <2>1
    <2>2. CASE checkpoint' # checkpoint
      <3>1. PICK chain \in Seq(Roots), s \in Statements :
              /\ Len(chain) >= 1
              /\ s.rootVersion = Final(chain).version
              /\ checkpoint = None \/ ValidateRootCheckpoint(checkpoint, chain, s)
              /\ checkpoint' = RootCheckpoint(chain, s)
        BY <1>2, <2>2, CheckpointMoves
      <3>2. /\ checkpoint' # None
            /\ checkpoint'.root = Final(chain)
            /\ checkpoint'.release = Payload(s)
            /\ Payload(s).releaseSequence = s.releaseSequence
            /\ Payload(s).rootVersion = s.rootVersion
            /\ checkpoint' \in Checkpoints
        BY <3>1, RootCheckpointType
      <3>3. /\ Final(chain).version \in Nat \ {0}
            /\ s.releaseSequence \in Nat \ {0}
        BY <3>1, FinalType DEF Roots, Statements
      <3>4. root' = Final(chain) /\ version' = Final(chain).version /\ sequence' = s.releaseSequence
        BY <3>2
      <3>5. CASE checkpoint = None
        <4>1. version = 0 /\ sequence = 0
          BY <3>5
        <4> QED
          BY <3>3, <3>4, <4>1 DEF Trusted!Accept
      <3>6. CASE checkpoint # None
        <4>1. ValidateRootCheckpoint(checkpoint, chain, s)
          BY <3>1, <3>6
        <4>2. checkpoint \in Checkpoints /\ checkpoint.release.rootVersion = checkpoint.root.version
          BY <1>2, <3>6 DEF Inductive, TypeOK, AcceptedIsAuthorized
        <4>3. checkpoint.release.releaseSequence \in Nat /\ checkpoint.root.version \in Nat
          BY <4>2 DEF Checkpoints, Payloads, Roots
        <4>4. checkpoint.release.releaseSequence # s.releaseSequence
          <5> SUFFICES ASSUME checkpoint.release.releaseSequence = s.releaseSequence
                       PROVE  FALSE
            OBVIOUS
          <5>1. Payload(s) = checkpoint.release
            BY <4>1 DEF ValidateRootCheckpoint
          <5>2. Final(chain).version = checkpoint.root.version
            BY <3>1, <3>2, <4>2, <5>1
          <5>3. checkpoint.root = Final(chain)
            BY <4>1, <5>2 DEF ValidateRootCheckpoint
          <5>4. checkpoint' = checkpoint
            BY <3>1, <4>2, <5>1, <5>3 DEF RootCheckpoint, Checkpoints
          <5> QED
            BY <2>2, <5>4
        <4>5. sequence < sequence'
          BY <3>3, <3>4, <3>6, <4>1, <4>3, <4>4 DEF ValidateRootCheckpoint
        <4>6. version <= version' /\ (version = version' => root' = root)
          BY <3>4, <3>6, <4>1 DEF ValidateRootCheckpoint
        <4> QED
          BY <3>3, <3>4, <4>5, <4>6 DEF Trusted!Accept
      <3> QED
        BY <3>5, <3>6
    <2> QED
      BY <2>1, <2>2
  <1> QED
    BY InductiveHolds, <1>1, <1>2, PTL DEF Spec, TrustOnlyAdvances, Trusted!Spec
=============================================================================
