------------------------------ MODULE Mission -------------------------------
(***************************************************************************)
(* The archipelago mission loop: kickoff.py, and loop.py with its commands *)
(* run-gates, fail, advance and close-phase.  Every command is a process   *)
(* of its own that reads state.json, works on its copy, appends to         *)
(* ledger.jsonl and writes the whole copy back; there is no lock, and a    *)
(* process may be killed between any two steps.                            *)
(*                                                                         *)
(* The document keeps what the commands read: statuses, loopbacks, stage,  *)
(* cycle and active phase.  A ledger entry holds the position of the entry *)
(* it was chained to, which stands for prevHash; the entry hash of an      *)
(* entry is its position.  The rendered page and the journal are outputs   *)
(* nothing reads back and are left out.                                    *)
(***************************************************************************)
EXTENDS Integers, Sequences, FiniteSets

CONSTANTS
    Process,        \* invocations of kickoff.py and loop.py
    Phases,         \* the phases of plan.lock, in order
    GatesOf,        \* the gates of each phase, in order
    Family,         \* the number k of each gate's G-family
    Routes,         \* stages the operator names, and DefaultRoute
    AtOnce,         \* how many commands run at the same time
    Faults,         \* subset of {"crash", "tear"}
    DefaultRoute,   \* no --route given
    None,           \* no file, nothing captured
    Empty,          \* state.json truncated by a writer that has not written
    Garbled         \* state.json with the tail of a longer document

Phase == {Phases[i] : i \in DOMAIN Phases}
GatesIn == [ph \in Phase |-> {GatesOf[ph][i] : i \in DOMAIN GatesOf[ph]}]
Gate == UNION {GatesIn[ph] : ph \in Phase}
Stages == 0..7

ASSUME MissionAssumption ==
    /\ IsFiniteSet(Process)
    /\ Phases # <<>> /\ Phases \in Seq(Phase)
    /\ \A ph \in Phase : GatesOf[ph] \in Seq(GatesIn[ph])
    /\ \A ph, qh \in Phase : ph # qh => GatesIn[ph] \cap GatesIn[qh] = {}
    /\ Family \in [Gate -> 0..6]
    /\ Routes \subseteq Stages \cup {DefaultRoute}
    /\ Faults \subseteq {"crash", "tear"}
    /\ AtOnce \in Nat \ {0}

\* Fault for mutation runs: the table is read one stage too low.
RouteBefore == [k \in 0..6 |-> k - 1]

\* The loopback table: a failed Gk goes back to the stage it falsifies.
ROUTE == [k \in 0..6 |-> IF k < 4 THEN k ELSE IF k = 4 THEN 2 ELSE IF k = 5 THEN 4 ELSE 6]

Commands ==
    [op : {"kickoff"}]
    \cup [op : {"run", "close"}, phase : Phase]
    \cup [op : {"fail"}, gate : Gate, route : Routes]
    \cup [op : {"advance"}, to : Routes \ {DefaultRoute}]

VARIABLES
    state,      \* state.json
    ledger,     \* ledger.jsonl
    approved,   \* whether the locks are as approved (kickoff) and bound (loop)
    pc,         \* the step of each process
    cmd,        \* its command line
    doc,        \* its copy of the document
    turn,       \* the position of the gate it runs in its phase
    entry,      \* the ledger entry it is about to append
    tip         \* the ledger tip it has read

memory == <<doc, turn, entry, tip>>
local == <<cmd, memory>>
vars == <<state, ledger, approved, pc, local>>

Ended == {"done", "refused", "dead"}
Active(p) == pc[p] \notin Ended \cup {"idle"}
Readable == state \notin {None, Empty, Garbled}

Goto(p, from, to) == pc[p] = from /\ pc' = [pc EXCEPT ![p] = to]

\* A process that ends takes its memory with it.
Exit(p) ==
    /\ doc' = [doc EXCEPT ![p] = None]
    /\ turn' = [turn EXCEPT ![p] = 0]
    /\ entry' = [entry EXCEPT ![p] = None]
    /\ tip' = [tip EXCEPT ![p] = 0]
    /\ UNCHANGED cmd

Init ==
    /\ state = None
    /\ ledger = <<>>
    /\ approved = TRUE
    /\ pc = [p \in Process |-> "idle"]
    /\ cmd = [p \in Process |-> None]
    /\ doc = [p \in Process |-> None]
    /\ turn = [p \in Process |-> 0]
    /\ entry = [p \in Process |-> None]
    /\ tip = [p \in Process |-> 0]

-----------------------------------------------------------------------------
(* The document *)

Fresh ==
    [phase |-> [ph \in Phase |-> "pending"], gate |-> [g \in Gate |-> "pending"],
     loopbacks |-> <<>>, stage |-> 2, cycle |-> 1, active |-> Phases[1]]

Least(positions) == CHOOSE i \in positions : \A j \in positions : i <= j

FirstOpen(status) ==
    LET open == {i \in DOMAIN Phases : status[Phases[i]] # "done"} IN
    IF open = {} THEN None ELSE Phases[Least(open)]

OpenLoopbacks(d) ==
    {d.loopbacks[i].gate : i \in {j \in DOMAIN d.loopbacks : ~d.loopbacks[j].resolved}}

\* Fault for mutation runs: a passing run leaves the loopbacks of its gate open.
VerdictUnresolved(d, g, status) == [d EXCEPT !.gate[g] = status]

\* Fault for mutation runs: a passing run takes the loopbacks of its gate away.
VerdictSweeps(d, g, status) ==
    [d EXCEPT !.gate[g] = status,
              !.loopbacks = SelectSeq(@, LAMBDA l : status # "passed" \/ l.gate # g)]

\* A passing run resolves every loopback of its gate.
Verdict(d, g, status) ==
    [d EXCEPT !.gate[g] = status,
              !.loopbacks = [i \in DOMAIN @ |->
                  IF status = "passed" /\ @[i].gate = g
                  THEN [@[i] EXCEPT !.resolved = TRUE] ELSE @[i]]]

\* Fault for mutation runs: the gate keeps its earlier status.
FailedOnRecord(d, g, to) ==
    [d EXCEPT !.loopbacks = Append(@, [gate |-> g, resolved |-> FALSE]),
              !.stage = to]

Failed(d, g, to) ==
    [d EXCEPT !.gate[g] = "failed",
              !.loopbacks = Append(@, [gate |-> g, resolved |-> FALSE]),
              !.stage = to]

\* The cycle counts only when S0 is entered from S0.
Advanced(d, to) ==
    [d EXCEPT !.stage = to, !.cycle = IF to = 0 THEN @ + 1 ELSE @]

Closed(d, ph) ==
    LET status == [d.phase EXCEPT ![ph] = "done"] IN
    [d EXCEPT !.phase = status, !.active = FirstOpen(status)]

\* The pulse gate G3: what precedes the active phase is done.
PulseGateOk(d) ==
    \A i \in DOMAIN Phases :
        (\A j \in 1..i : Phases[j] # d.active) => d.phase[Phases[i]] = "done"

-----------------------------------------------------------------------------
(* Starting a command *)

Start(p, c) ==
    /\ Cardinality({q \in Process : Active(q)}) < AtOnce
    /\ Goto(p, "idle", IF c.op = "kickoff" THEN "kickoff" ELSE "load")
    /\ cmd' = [cmd EXCEPT ![p] = c]
    /\ UNCHANGED <<state, ledger, approved, doc, turn, entry, tip>>

Refuse(p, from) ==
    /\ Goto(p, from, "refused")
    /\ Exit(p)
    /\ UNCHANGED <<state, ledger, approved>>

Kickoff(p) ==
    /\ state = None
    /\ approved
    /\ Goto(p, "kickoff", "save")
    /\ doc' = [doc EXCEPT ![p] = Fresh]
    /\ UNCHANGED <<state, ledger, approved, cmd, turn, entry, tip>>

KickoffRefuse(p) ==
    /\ state # None \/ ~approved
    /\ Refuse(p, "kickoff")

\* load(): no document, an unreadable one, or locks that no longer match it.
LoadRefuse(p) ==
    /\ ~Readable \/ ~approved
    /\ Refuse(p, "load")

Loads(p, op) == pc[p] = "load" /\ cmd[p].op = op /\ Readable /\ approved

\* The command goes on with its own copy and its first ledger entry.
Begin(p, d, event, subject) ==
    /\ pc' = [pc EXCEPT ![p] = "tip"]
    /\ doc' = [doc EXCEPT ![p] = d]
    /\ entry' = [entry EXCEPT ![p] = [event |-> event, subject |-> subject]]

\* The gates of a phase past position i that document d does not call passed.
ToRun(d, ph, i) ==
    {j \in DOMAIN GatesOf[ph] : j > i /\ d.gate[GatesOf[ph][j]] # "passed"}

GateAt(p, i) == GatesOf[cmd[p].phase][i]

\* The next gate of the loop after position i, or the end of the loop.
Continue(p, d, i) ==
    LET left == ToRun(d, cmd[p].phase, i) IN
    \/ /\ left = {}
       /\ pc' = [pc EXCEPT ![p] = "save"]
       /\ UNCHANGED <<turn, entry>>
    \/ /\ left # {}
       /\ pc' = [pc EXCEPT ![p] = "tip"]
       /\ turn' = [turn EXCEPT ![p] = Least(left)]
       /\ entry' = [entry EXCEPT ![p] =
                      [event |-> "gate-start", subject |-> GateAt(p, Least(left))]]

Started(d, ph) ==
    [d EXCEPT !.phase[ph] = IF @ = "pending" THEN "in_progress" ELSE @]

RunGates(p) ==
    /\ Loads(p, "run")
    /\ doc' = [doc EXCEPT ![p] = Started(state, cmd[p].phase)]
    /\ Continue(p, state, 0)
    /\ UNCHANGED <<state, ledger, approved, cmd, tip>>

Target(c) == IF c.route = DefaultRoute THEN ROUTE[Family[c.gate]] ELSE c.route

Fail(p) ==
    /\ Loads(p, "fail")
    /\ Target(cmd[p]) <= state.stage
    /\ Begin(p, Failed(state, cmd[p].gate, Target(cmd[p])), "loopback", cmd[p].gate)
    /\ UNCHANGED <<state, ledger, approved, cmd, turn, tip>>

FailRefuse(p) ==
    /\ Loads(p, "fail")
    /\ Target(cmd[p]) > state.stage
    /\ Refuse(p, "load")

Advance(p) ==
    /\ Loads(p, "advance")
    /\ PulseGateOk(state)
    /\ cmd[p].to >= state.stage
    /\ Begin(p, Advanced(state, cmd[p].to), "stage-advance", None)
    /\ UNCHANGED <<state, ledger, approved, cmd, turn, tip>>

AdvanceRefuse(p) ==
    /\ Loads(p, "advance")
    /\ ~(PulseGateOk(state) /\ cmd[p].to >= state.stage)
    /\ Refuse(p, "load")

\* Fault for mutation runs: phases close over failed gates.
ClosableUnlessPending(d, ph) == \A g \in GatesIn[ph] : d.gate[g] # "pending"

Closable(d, ph) ==
    \A g \in GatesIn[ph] : d.gate[g] = "passed" /\ g \notin OpenLoopbacks(d)

ClosePhase(p) ==
    /\ Loads(p, "close")
    /\ Closable(state, cmd[p].phase)
    /\ Begin(p, Closed(state, cmd[p].phase), "phase-close", cmd[p].phase)
    /\ UNCHANGED <<state, ledger, approved, cmd, turn, tip>>

CloseRefuse(p) ==
    /\ Loads(p, "close")
    /\ ~Closable(state, cmd[p].phase)
    /\ Refuse(p, "load")

-----------------------------------------------------------------------------
(* ledger_append *)

ReadTip(p) ==
    /\ Goto(p, "tip", "check")
    /\ tip' = [tip EXCEPT ![p] = Len(ledger)]
    /\ UNCHANGED <<state, ledger, approved, cmd, doc, turn, entry>>

\* The size of the file is compared once more before the write.
CheckTip(p) ==
    \/ /\ Len(ledger) # tip[p]
       /\ Refuse(p, "check")
    \/ /\ Len(ledger) = tip[p]
       /\ Goto(p, "check", "append")
       /\ UNCHANGED <<state, ledger, approved, local>>

\* Fault for mutation runs: a verdict is chained to the entry before its start.
ChainedToStart(p) ==
    [event |-> entry[p].event, subject |-> entry[p].subject,
     prev |-> IF entry[p].event = "gate-passed" THEN tip[p] - 1 ELSE tip[p]]

Chained(p) ==
    [event |-> entry[p].event, subject |-> entry[p].subject, prev |-> tip[p]]

\* O_APPEND: the entry lands at the end, chained to the tip that was read.
AppendEntry(p) ==
    /\ pc[p] = "append"
    /\ ledger' = Append(ledger, Chained(p))
    /\ \/ /\ entry[p].event = "gate-start"
          /\ pc' = [pc EXCEPT ![p] = "execute"] /\ UNCHANGED <<turn, entry>>
       \/ /\ entry[p].event \in {"gate-passed", "gate-failed"}
          /\ Continue(p, doc[p], turn[p])
       \/ /\ entry[p].event \notin {"gate-start", "gate-passed", "gate-failed"}
          /\ pc' = [pc EXCEPT ![p] = "save"] /\ UNCHANGED <<turn, entry>>
    /\ UNCHANGED <<state, approved, cmd, doc, tip>>

-----------------------------------------------------------------------------
(* Running a gate, and writing the document back *)

\* Fault for mutation runs: the verdict goes into the document alone.
ExecuteUnlogged(p, passed) ==
    LET g == GateAt(p, turn[p]) IN
    /\ pc[p] = "execute"
    /\ doc' = [doc EXCEPT ![p] = Verdict(@, g, IF passed THEN "passed" ELSE "failed")]
    /\ Continue(p, doc[p], turn[p])
    /\ UNCHANGED <<state, ledger, approved, cmd, tip>>

\* A timeout, an exit code or a launch error is a failed gate.
ExecuteGate(p, passed) ==
    LET g == GateAt(p, turn[p]) IN
    /\ Goto(p, "execute", "tip")
    /\ doc' = [doc EXCEPT ![p] = Verdict(@, g, IF passed THEN "passed" ELSE "failed")]
    /\ entry' = [entry EXCEPT ![p] =
                   [event |-> IF passed THEN "gate-passed" ELSE "gate-failed", subject |-> g]]
    /\ UNCHANGED <<state, ledger, approved, cmd, turn, tip>>

\* Evidence that was touched while the gate ran ends the command unsaved.
CustodyLost(p) == Refuse(p, "execute")

\* write_text truncates the file when it opens it.
SaveOpen(p) ==
    /\ Goto(p, "save", "saving")
    /\ state' = Empty
    /\ UNCHANGED <<ledger, approved, local>>

\* Fault for mutation runs: the document is made into text when the file is open
\* already, and one that cannot be leaves it empty.
SaveWriteStreaming(p) ==
    /\ \/ Goto(p, "saving", "done") /\ state' = doc[p]
       \/ Goto(p, "saving", "refused") /\ UNCHANGED state
    /\ Exit(p)
    /\ UNCHANGED <<ledger, approved>>

\* Over a document another process wrote meanwhile, a shorter one leaves a tail.
SaveWrite(p) ==
    /\ Goto(p, "saving", "done")
    /\ \/ state' = doc[p]
       \/ state # Empty /\ state' = Garbled
    /\ Exit(p)
    /\ UNCHANGED <<ledger, approved>>

Die(p) ==
    /\ Active(p)
    /\ (IF pc[p] = "saving" THEN "tear" ELSE "crash") \in Faults
    /\ pc' = [pc EXCEPT ![p] = "dead"]
    /\ Exit(p)
    /\ UNCHANGED <<state, ledger, approved>>

\* Somebody edits a lock.
Drift ==
    /\ approved' = FALSE
    /\ UNCHANGED <<state, ledger, pc, local>>

Next ==
    \/ Drift
    \/ \E p \in Process :
          \/ \E c \in Commands : Start(p, c)
          \/ Kickoff(p) \/ KickoffRefuse(p) \/ LoadRefuse(p)
          \/ RunGates(p) \/ Fail(p) \/ FailRefuse(p)
          \/ Advance(p) \/ AdvanceRefuse(p) \/ ClosePhase(p) \/ CloseRefuse(p)
          \/ ReadTip(p) \/ CheckTip(p) \/ AppendEntry(p)
          \/ \E passed \in BOOLEAN : ExecuteGate(p, passed)
          \/ CustodyLost(p)
          \/ SaveOpen(p) \/ SaveWrite(p)
          \/ Die(p)

Spec == Init /\ [][Next]_vars

-----------------------------------------------------------------------------
(* Correctness *)

Documents ==
    [phase : [Phase -> {"pending", "in_progress", "done"}],
     gate : [Gate -> {"pending", "passed", "failed"}],
     loopbacks : Seq([gate : Gate, resolved : BOOLEAN]),
     stage : Stages, cycle : Nat \ {0}, active : Phase \cup {None}]

\* What stands for no document, or for one that cannot be read, is none.
ASSUME NullsAssumption ==
    /\ \A null \in {None, Empty, Garbled} : null \notin Documents
    /\ Empty # None /\ Garbled # None /\ Garbled # Empty
    /\ None \notin [Gate -> {"pending", "passed", "failed"}]

Subjects == Gate \cup Phase \cup {None}

Events == {"gate-start", "gate-passed", "gate-failed", "loopback", "stage-advance",
           "phase-close"}

\* Every variable keeps its type.
TypeOK ==
    /\ state \in Documents \cup {None, Empty, Garbled}
    /\ ledger \in Seq([event : Events, subject : Subjects, prev : Nat])
    /\ approved \in BOOLEAN
    /\ pc \in [Process -> Ended \cup {"idle", "kickoff", "load", "tip", "check",
                                      "append", "execute", "save", "saving"}]
    /\ cmd \in [Process -> Commands \cup {None}]
    /\ doc \in [Process -> Documents \cup {None}]
    /\ turn \in [Process -> Nat]
    /\ entry \in [Process -> [event : Events, subject : Subjects] \cup {None}]
    /\ tip \in [Process -> Nat]

Logged(event, subject) ==
    \E i \in DOMAIN ledger : ledger[i].event = event /\ ledger[i].subject = subject

\* "Nothing crosses a gate on claims alone": whatever commands overlap or die,
\* a gate that state.json calls passed, and every gate of a phase it calls
\* done, has a passing run in the ledger.
PassedHasEvidence ==
    Readable =>
        /\ \A g \in Gate : state.gate[g] = "passed" => Logged("gate-passed", g)
        /\ \A ph \in Phase : state.phase[ph] = "done" =>
              \A g \in GatesIn[ph] : Logged("gate-passed", g)

\* The document is of one piece even where commands overlap: the active phase
\* is the first one not done, so that the pulse gate lets every advance pass,
\* and a gate with an open loopback is failed, so that its phase cannot close.
DocumentConsistent ==
    Readable =>
        /\ state.active = FirstOpen(state.phase)
        /\ \A g \in OpenLoopbacks(state) : state.gate[g] = "failed"

\* verify-ledger: each entry is chained to the one before it.
ChainIntact == \A i \in DOMAIN ledger : ledger[i].prev = i - 1

LastVerdict(g) ==
    LET said == {i \in DOMAIN ledger :
                   /\ ledger[i].subject = g
                   /\ ledger[i].event \in {"gate-passed", "gate-failed", "loopback"}}
    IN  ledger[CHOOSE i \in said : \A j \in said : j <= i].event

\* As long as commands run one after the other to their end, the ledger's last
\* word on a gate that the document calls passed is a passing run too: a later
\* failure was never lost, though commands may refuse and end half-way.
PassedIsLatestVerdict ==
    Readable /\ (\A p \in Process : ~Active(p) /\ pc[p] # "dead") =>
        \A g \in Gate : state.gate[g] = "passed" => LastVerdict(g) = "gate-passed"

\* One command at a time implements the mission of the protocol, killed
\* commands included.  The truncated file stands for what is being written.
View ==
    IF state = Empty THEN doc[CHOOSE p \in Process : pc[p] = "saving"] ELSE state

Protocol ==
    INSTANCE GatedMission WITH
        Missing <- None,
        verdict <- IF View = None THEN None ELSE View.gate,
        failures <- IF View = None THEN {} ELSE OpenLoopbacks(View),
        closed <- IF View = None THEN {} ELSE {ph \in Phase : View.phase[ph] = "done"},
        stage <- IF View = None THEN 2 ELSE View.stage

FollowsProtocol == Protocol!Spec

\* "Loopbacks are recorded in state, never swept away": every fail command
\* that has ended is in the list of state.json.
LoopbacksNeverSwept ==
    Readable =>
        Cardinality({p \in Process : pc[p] = "done" /\ cmd[p].op = "fail"})
            <= Len(state.loopbacks)

\* "The repo is the memory": once kicked off, a mission can be resumed from the
\* tree by a session that starts when no command is writing.
RepoIsTheMemory ==
    state # None /\ (\A p \in Process : pc[p] # "saving") => Readable
=============================================================================
