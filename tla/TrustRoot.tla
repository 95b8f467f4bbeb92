------------------------------ MODULE TrustRoot ------------------------------
(***************************************************************************)
(* The external root verifier, scripts/verify_external_root.py with        *)
(* verify_external_release of scripts/trust_root.py.  Verifiers are        *)
(* processes that share the root checkpoint, its lock and the directory    *)
(* of temporary files.  The command line a process starts with has the     *)
(* pinned digest and the paths; what the paths hold is read when it is     *)
(* needed.  The operator may put other files in place at any moment, and a *)
(* verifier may be killed at any step.                                     *)
(***************************************************************************)
EXTENDS RootChain

CONSTANTS
    Verifier,       \* processes, each a single invocation
    Pid,            \* process ids, which the system reuses
    Deployment,     \* what the operator may have in place
    MaxClock,       \* bound of the model: the last instant of the clock
    None            \* no file, no holder, nothing in memory

Deployments ==
    [pin : Roots,                   \* the root named by --trusted-root-sha256
     chain : Seq(Roots) \ {<<>>},   \* the files of --trusted-root and each --root-update
     statement : Statements]        \* the file of --release-statement

Checkpoints == [root : Roots, release : Payloads]

ASSUME TrustRootAssumption ==
    /\ Deployment \subseteq Deployments
    /\ MaxClock \in Nat
    /\ None \notin Verifier
    /\ None \notin Statements
    /\ None \notin Checkpoints

VARIABLES
    clock,          \* the host's UTC clock
    deployed,       \* the files in place and the pin handed out with them
    checkpoint,     \* the root checkpoint file
    lock,           \* holder of the flock on its .lock file
    temporaries,    \* process ids whose temporary checkpoint file exists
    pc,             \* the step of each verifier
    memory          \* what each has been told and has read

vars == <<clock, deployed, checkpoint, lock, temporaries, pc, memory>>

\* A verifier's process id, its pin and number of root updates, the chain it
\* has verified, the checkpoint it has read and the statement it has loaded.
Memories ==
    [pid : Pid, pin : Roots, updates : Nat, chain : Seq(Roots),
     seen : Checkpoints \cup {None}, statement : Statements \cup {None}]

Ended == {"verified", "refused", "dead"}

Active(p) == pc[p] \notin Ended \cup {"idle"}

Init ==
    /\ clock = 0
    /\ deployed \in Deployment
    /\ checkpoint = None
    /\ lock = None
    /\ temporaries = {}
    /\ pc = [p \in Verifier |-> "idle"]
    /\ memory = [p \in Verifier |-> None]

Tick ==
    /\ clock < MaxClock
    /\ clock' = clock + 1
    /\ UNCHANGED <<deployed, checkpoint, lock, temporaries, pc, memory>>

Deploy ==
    /\ deployed' \in Deployment
    /\ UNCHANGED <<clock, checkpoint, lock, temporaries, pc, memory>>

-----------------------------------------------------------------------------
(* One verifier *)

\* Two live processes never share a process id.
Start(p, pid) ==
    /\ pc[p] = "idle"
    /\ \A q \in Verifier : Active(q) => memory[q].pid # pid
    /\ pc' = [pc EXCEPT ![p] = "waiting"]
    /\ memory' = [memory EXCEPT ![p] =
                    [pid |-> pid, pin |-> deployed.pin, updates |-> Len(deployed.chain) - 1,
                     chain |-> <<>>, seen |-> None, statement |-> None]]
    /\ UNCHANGED <<clock, deployed, checkpoint, lock, temporaries>>

\* Fault for mutation runs: the transaction runs without the lock.
AcquireUnlocked(p) ==
    /\ pc[p] = "waiting"
    /\ pc' = [pc EXCEPT ![p] = "locked"]
    /\ lock' = p
    /\ UNCHANGED <<clock, deployed, checkpoint, temporaries, memory>>

Acquire(p) ==
    /\ lock = None
    /\ pc[p] = "waiting"
    /\ pc' = [pc EXCEPT ![p] = "locked"]
    /\ lock' = p
    /\ UNCHANGED <<clock, deployed, checkpoint, temporaries, memory>>

\* Fault for mutation runs: a refusal that skips the finally clause.
AdvanceHeld(p, from, ok, to, held) ==
    /\ pc[p] = from
    /\ pc' = [pc EXCEPT ![p] = IF ok THEN to ELSE "refused"]
    /\ lock' = lock
    /\ memory' = [memory EXCEPT ![p] = IF ok THEN held ELSE None]

\* A step under the lock; a refusal releases it and ends the process.
Advance(p, from, ok, to, held) ==
    /\ pc[p] = from
    /\ pc' = [pc EXCEPT ![p] = IF ok THEN to ELSE "refused"]
    /\ lock' = IF ok THEN lock ELSE None
    /\ memory' = [memory EXCEPT ![p] = IF ok THEN held ELSE None]

ReadCheckpoint(p) ==
    /\ Advance(p, "locked", TRUE, "read", [memory[p] EXCEPT !.seen = checkpoint])
    /\ UNCHANGED <<clock, deployed, checkpoint, temporaries>>

\* The files the command line names are read and verified, if they are there
\* and ssh-keygen runs.
CheckChain(p, ran) ==
    LET loaded == SubSeq(deployed.chain, 1, memory[p].updates + 1) IN
    /\ Advance(p, "read",
               /\ ran
               /\ memory[p].updates < Len(deployed.chain)
               /\ VerifyRootChain(memory[p].pin, loaded, clock),
               "chained", [memory[p] EXCEPT !.chain = loaded])
    /\ UNCHANGED <<clock, deployed, checkpoint, temporaries>>

\* The statement is loaded once; the checkpoint is consulted before any of its
\* signatures.
CheckCheckpoint(p) ==
    LET loaded == deployed.statement IN
    /\ Advance(p, "chained",
               /\ ParseEnvelope(loaded)
               /\ \/ memory[p].seen = None
                  \/ ValidateRootCheckpoint(memory[p].seen, memory[p].chain, loaded),
               "current", [memory[p] EXCEPT !.statement = loaded])
    /\ UNCHANGED <<clock, deployed, checkpoint, temporaries>>

\* Fault for mutation runs: the statement is loaded again to be verified.
CheckStatementAgain(p, bound) ==
    /\ Advance(p, "current",
               /\ VerifyStatement(deployed.statement, Final(memory[p].chain), clock)
               /\ bound,
               "bound", memory[p])
    /\ UNCHANGED <<clock, deployed, checkpoint, temporaries>>

\* The statement's own checks, and whether artifacts, archive and Git objects
\* are the ones it binds.
CheckStatement(p, bound) ==
    /\ Advance(p, "current",
               /\ VerifyStatement(memory[p].statement, Final(memory[p].chain), clock)
               /\ bound,
               "bound", memory[p])
    /\ UNCHANGED <<clock, deployed, checkpoint, temporaries>>

\* O_EXCL refuses the name a killed process of the same id has left; the
\* finally clause then removes that file.
OpenTemporary(p) ==
    LET pid == memory[p].pid
        free == pid \notin temporaries
    IN
    /\ Advance(p, "bound", free, "writing", memory[p])
    /\ temporaries' = IF free THEN temporaries \cup {pid} ELSE temporaries \ {pid}
    /\ UNCHANGED <<clock, deployed, checkpoint>>

\* The file is written, synchronised and renamed, unless one of these fails.
Replace(p, written) ==
    /\ Advance(p, "writing", written, "replaced", memory[p])
    /\ checkpoint' = IF written THEN RootCheckpoint(memory[p].chain, memory[p].statement)
                     ELSE checkpoint
    /\ temporaries' = temporaries \ {memory[p].pid}
    /\ UNCHANGED <<clock, deployed>>

\* chmod and the directory's fsync may still fail, with the checkpoint moved.
Finish(p, synchronised) ==
    /\ pc[p] = "replaced"
    /\ pc' = [pc EXCEPT ![p] = IF synchronised THEN "verified" ELSE "refused"]
    /\ lock' = None
    /\ memory' = [memory EXCEPT ![p] = None]
    /\ UNCHANGED <<clock, deployed, checkpoint, temporaries>>

\* A kill drops the lock and leaves the temporary file.
Die(p) ==
    /\ Active(p)
    /\ pc' = [pc EXCEPT ![p] = "dead"]
    /\ lock' = IF lock = p THEN None ELSE lock
    /\ memory' = [memory EXCEPT ![p] = None]
    /\ UNCHANGED <<clock, deployed, checkpoint, temporaries>>

Step(p) ==
    \/ Acquire(p)
    \/ ReadCheckpoint(p)
    \/ \E ran \in BOOLEAN : CheckChain(p, ran)
    \/ CheckCheckpoint(p)
    \/ \E bound \in BOOLEAN : CheckStatement(p, bound)
    \/ OpenTemporary(p)
    \/ \E written \in BOOLEAN : Replace(p, written)
    \/ \E synchronised \in BOOLEAN : Finish(p, synchronised)

Next ==
    \/ Tick
    \/ Deploy
    \/ \E p \in Verifier : (\E pid \in Pid : Start(p, pid)) \/ Step(p) \/ Die(p)

Spec == Init /\ [][Next]_vars

\* A started verifier is scheduled; nobody has to start or to be killed.
FairSpec == Spec /\ \A p \in Verifier : WF_vars(Step(p))

-----------------------------------------------------------------------------
(* Correctness *)

Locked == {"locked", "read", "chained", "current", "bound", "writing", "replaced"}

\* Every variable keeps its type: the files, the lock, and what each process
\* remembers while it runs.
TypeOK ==
    /\ clock \in Nat
    /\ deployed \in Deployment
    /\ checkpoint \in Checkpoints \cup {None}
    /\ lock \in Verifier \cup {None}
    /\ temporaries \subseteq Pid
    /\ pc \in [Verifier -> Ended \cup Locked \cup {"idle", "waiting"}]
    /\ memory \in [Verifier -> Memories \cup {None}]

DeployedRoots == UNION {{d.chain[i] : i \in DOMAIN d.chain} : d \in Deployment}

\* A chain of rotations leads from one root to the other.
Succeeds(old, new) ==
    \E n \in 1..(MaxUpdates + 1) :
        \E chain \in [1..n -> DeployedRoots] :
            /\ chain[1] = old
            /\ chain[n] = new
            /\ \A i \in 1..(n - 1) : Rotation(chain[i], chain[i + 1])

\* "It prevents a later mirror from withholding an already accepted rotation
\* or substituting a different root at any checkpointed intermediate version":
\* whatever is deployed, and whichever verifiers run, each accepted root
\* follows from the one accepted before by rotations that both sides signed.
RotationsAreSigned ==
    [][checkpoint # None /\ checkpoint' # checkpoint =>
          Succeeds(checkpoint.root, checkpoint'.root)]_vars

\* The release in the checkpoint was signed by enough holders of the release
\* role of exactly the root it stands next to.
AcceptedIsAuthorized ==
    checkpoint # None =>
        /\ checkpoint.release.rootVersion = checkpoint.root.version
        /\ \E d \in Deployment :
              /\ Payload(d.statement) = checkpoint.release
              /\ MeetsThreshold(d.statement, checkpoint.root.release)

\* The checkpoint implements the trusted state: no rollback, no second root at
\* a version, and no acceptance without a release of a higher sequence.
Trusted ==
    INSTANCE TrustedState WITH
        root <- IF checkpoint = None THEN None ELSE checkpoint.root,
        version <- IF checkpoint = None THEN 0 ELSE checkpoint.root.version,
        sequence <- IF checkpoint = None THEN 0 ELSE checkpoint.release.releaseSequence

TrustOnlyAdvances == Trusted!Spec

\* Every started verifier ends, whoever is refused or killed with the lock and
\* whatever temporary files are left.
EveryVerifierEnds == \A p \in Verifier : pc[p] # "idle" ~> pc[p] \in Ended
=============================================================================
