------------------------------ MODULE GateExec ------------------------------
(***************************************************************************)
(* How loop.py runs one gate (execute_gate and its helpers): the gate is a *)
(* process group with a pipe for stdout and one for stderr, a daemon       *)
(* thread drains each pipe into the evidence file, and the main thread     *)
(* waits, times out, signals, joins, writes the footer and hashes.         *)
(*                                                                         *)
(* Output is counted in units.  A read returns Chunk units, or what is     *)
(* left at the end of the pipe, and the end comes when no process holds    *)
(* the pipe any more: neither the gate's shell nor a child it left behind, *)
(* which may have left the process group.  The pipe object is locked while *)
(* a thread is inside read, so close waits for the read.  No clock: a      *)
(* timeout may expire whenever what it waits for has not happened, except  *)
(* that a reader with output in hand finishes before a join gives up.      *)
(***************************************************************************)
EXTENDS Integers, FiniteSets

CONSTANTS
    Chunk,          \* units a read asks for (64 KiB)
    Prefix,         \* units of the frame around a chunk
    Limit,          \* MAX_GATE_OUTPUT_BYTES, in units
    MaxOutput       \* bound on the units the gate writes to a stream

ASSUME GateAssumption ==
    {Chunk, Prefix, Limit, MaxOutput} \subseteq Nat \ {0}

Stream == {"stdout", "stderr"}

VARIABLES
    leader,     \* the shell: "running", "exited", or "killed" by a signal; "none" before
    code,       \* its exit status
    child,      \* a child it left: "none", "grouped", "escaped" or "gone"
    sent,       \* units written to each stream
    pipe,       \* units waiting in each pipe
    reader,     \* the step of each reader thread
    hand,       \* units it has in hand
    room,       \* what was left of the budget when it looked
    lock,       \* the thread that holds the lock, or "free"
    written,    \* budget["written"]
    seen, kept, \* the statistics of each stream
    failed,     \* whether the reader of the stream recorded an error
    closed,     \* whether the main thread has closed the pipe object
    main,       \* the step of the main thread
    timedOut,   \* whether the timeout expired
    terminated, \* what terminate_gate_process returned
    footer      \* the completion record once written: a set of at most one

gate == <<leader, code, child, sent>>
threads == <<reader, hand, room, lock, written, seen, kept, failed>>
thread == <<closed, main, timedOut, terminated, footer>>
vars == <<gate, pipe, threads, thread>>

GInit ==
    /\ leader = "none" /\ code = 0 /\ child = "none"
    /\ sent = [s \in Stream |-> 0]
    /\ pipe = [s \in Stream |-> 0]
    /\ reader = [s \in Stream |-> "off"]
    /\ hand = [s \in Stream |-> 0]
    /\ room = [s \in Stream |-> 0]
    /\ lock = "free"
    /\ written = 0
    /\ seen = [s \in Stream |-> 0]
    /\ kept = [s \in Stream |-> 0]
    /\ failed = [s \in Stream |-> FALSE]
    /\ closed = [s \in Stream |-> FALSE]
    /\ main = "launch"
    /\ timedOut = FALSE /\ terminated = TRUE
    /\ footer = {}

-----------------------------------------------------------------------------
(* The gate *)

ChildHolds == child \in {"grouped", "escaped"}
Held == leader \in {"running", "dying"} \/ ChildHolds

Write(s) ==
    /\ Held /\ reader[s] # "ended" /\ ~closed[s]
    /\ sent[s] < MaxOutput
    /\ sent' = [sent EXCEPT ![s] = @ + 1]
    /\ pipe' = [pipe EXCEPT ![s] = @ + 1]
    /\ UNCHANGED <<leader, code, child, threads, thread>>

LeaveChild ==
    /\ leader = "running" /\ child = "none"
    /\ child' \in {"grouped", "escaped"}
    /\ UNCHANGED <<leader, code, sent, pipe, threads, thread>>

Exit ==
    /\ leader = "running"
    /\ leader' = "exited"
    /\ code' \in {0, 1}
    /\ UNCHANGED <<child, sent, pipe, threads, thread>>

ChildEnds ==
    /\ ChildHolds
    /\ child' = "gone"
    /\ UNCHANGED <<leader, code, sent, pipe, threads, thread>>

-----------------------------------------------------------------------------
(* A reader thread: stream_gate_pipe *)

Moves(s, from, to) == reader[s] = from /\ reader' = [reader EXCEPT ![s] = to]
ReaderOnly == UNCHANGED <<gate, thread>>

\* Reading a closed pipe object raises ValueError, which is recorded.
CallRead(s) ==
    /\ Moves(s, "top", IF closed[s] THEN "ended" ELSE "read")
    /\ failed' = [failed EXCEPT ![s] = closed[s]]
    /\ UNCHANGED <<pipe, hand, room, lock, written, seen, kept>> /\ ReaderOnly

\* The read returns a whole chunk, or the rest once the pipe has ended.
ReadChunk(s) ==
    /\ pipe[s] > 0
    /\ pipe[s] >= Chunk \/ ~Held
    /\ Moves(s, "read", "wait")
    /\ LET n == IF pipe[s] >= Chunk THEN Chunk ELSE pipe[s] IN
       /\ hand' = [hand EXCEPT ![s] = n]
       /\ pipe' = [pipe EXCEPT ![s] = @ - n]
    /\ UNCHANGED <<room, lock, written, seen, kept, failed>> /\ ReaderOnly

ReadEnd(s) ==
    /\ pipe[s] = 0 /\ ~Held
    /\ Moves(s, "read", "ended")
    /\ UNCHANGED <<pipe, hand, room, lock, written, seen, kept, failed>> /\ ReaderOnly

\* Fault for mutation runs: the statistics and the budget are not locked.
LookUnlocked(s) ==
    /\ Moves(s, "wait", "write")
    /\ room' = [room EXCEPT ![s] = Limit - written]
    /\ seen' = [seen EXCEPT ![s] = @ + hand[s]]
    /\ UNCHANGED <<pipe, hand, lock, written, kept, failed>> /\ ReaderOnly

Look(s) ==
    /\ lock = "free"
    /\ Moves(s, "wait", "write")
    /\ lock' = s
    /\ room' = [room EXCEPT ![s] = Limit - written]
    /\ seen' = [seen EXCEPT ![s] = @ + hand[s]]
    /\ UNCHANGED <<pipe, hand, written, kept, failed>> /\ ReaderOnly

Least(a, b) == IF a < b THEN a ELSE b

\* What of a framed chunk fits in the room that is left.
Accepted(s) == IF room[s] <= 0 THEN 0 ELSE Least(Prefix + hand[s], room[s])

\* Fault for mutation runs: the frame is counted as kept output.
CountsFramed(n) == n

\* The frame is not output: what is kept of a chunk is what follows it.
Counts(n) == IF n > Prefix THEN n - Prefix ELSE 0

WriteChunk(s) ==
    /\ Moves(s, "write", "top")
    /\ lock' = IF lock = s THEN "free" ELSE lock
    /\ written' = written + Accepted(s)
    /\ kept' = [kept EXCEPT ![s] = @ + Counts(Accepted(s))]
    /\ hand' = [hand EXCEPT ![s] = 0]
    /\ room' = [room EXCEPT ![s] = 0]
    /\ UNCHANGED <<pipe, seen, failed>> /\ ReaderOnly

-----------------------------------------------------------------------------
(* The main thread: execute_gate and terminate_gate_process *)

Main(from, to) == main = from /\ main' = to

Launch ==
    /\ Main("launch", "wait")
    /\ leader' = "running"
    /\ reader' = [s \in Stream |-> "top"]
    /\ UNCHANGED <<code, child, sent, pipe, hand, room, lock, written, seen, kept, failed,
                   closed, timedOut, terminated, footer>>

LaunchFails ==
    /\ Main("launch", "record")
    /\ UNCHANGED <<gate, pipe, threads, closed, timedOut, terminated, footer>>

\* A wait, or the poll before the first signal, finds the shell gone.
WaitExit ==
    /\ leader \in {"exited", "killed"}
    /\ \E at \in {"wait", "poll", "graceTerm", "graceKill"} : Main(at, "join stdout")
    /\ UNCHANGED <<gate, pipe, threads, closed, timedOut, terminated, footer>>

Expire ==
    /\ leader = "running"
    /\ Main("wait", "poll")
    /\ timedOut' = TRUE
    /\ UNCHANGED <<gate, pipe, threads, closed, terminated, footer>>

Poll ==
    /\ leader = "running"
    /\ Main("poll", "term")
    /\ UNCHANGED <<gate, pipe, threads, closed, timedOut, terminated, footer>>

\* SIGTERM to the group: each process dies of it, ends as it likes or goes on.
Term ==
    /\ Main("term", "graceTerm")
    /\ \/ leader = "running" /\ leader' = "killed" /\ code' = 1
       \/ UNCHANGED <<leader, code>>
    /\ child' \in IF child = "grouped" THEN {"grouped", "gone"} ELSE {child}
    /\ UNCHANGED <<sent, pipe, threads, closed, timedOut, terminated, footer>>

GraceOver ==
    /\ leader = "running"
    /\ Main("graceTerm", "kill")
    /\ UNCHANGED <<gate, pipe, threads, closed, timedOut, terminated, footer>>

\* Fault for mutation runs: a gate that outlives SIGTERM is left alone.
KillNothing ==
    /\ Main("kill", "graceKill")
    /\ UNCHANGED <<gate, pipe, threads, closed, timedOut, terminated, footer>>

\* SIGKILL to the group.  The shell may be in a call that delays its end.
Kill ==
    /\ Main("kill", "graceKill")
    /\ leader' \in IF leader = "running" THEN {"dying", "killed"} ELSE {leader}
    /\ child' = IF child = "grouped" THEN "gone" ELSE child
    /\ UNCHANGED <<code, sent, pipe, threads, closed, timedOut, terminated, footer>>

Dies ==
    /\ leader = "dying"
    /\ leader' = "killed"
    /\ UNCHANGED <<code, child, sent, pipe, threads, thread>>

KillUnanswered ==
    /\ leader \in {"running", "dying"}
    /\ Main("graceKill", "join stdout")
    /\ terminated' = FALSE
    /\ UNCHANGED <<gate, pipe, threads, closed, timedOut, footer>>

JoinOf == [stdout |-> "join stdout", stderr |-> "join stderr"]
CloseOf == [stdout |-> "close stdout", stderr |-> "close stderr"]
RejoinOf == [stdout |-> "rejoin stdout", stderr |-> "rejoin stderr"]

\* A join returns when the thread has ended, or gives up on a reader that waits
\* for the gate's output.
Join(s) ==
    /\ reader[s] \in {"read", "ended"}
    /\ Main(JoinOf[s], IF s = "stdout" THEN JoinOf["stderr"] ELSE CloseOf["stdout"])
    /\ UNCHANGED <<gate, pipe, threads, closed, timedOut, terminated, footer>>

\* Only the pipe of a live thread is closed, which waits for its read.
Close(s) ==
    /\ reader[s] # "read"
    /\ Main(CloseOf[s], RejoinOf[s])
    /\ closed' = [closed EXCEPT ![s] = reader[s] # "ended"]
    /\ UNCHANGED <<gate, pipe, threads, timedOut, terminated, footer>>

\* Fault for mutation runs: the thread of a closed pipe is not joined again.
RejoinNot(s) ==
    /\ Main(RejoinOf[s], IF s = "stdout" THEN CloseOf["stderr"] ELSE "record")
    /\ UNCHANGED <<gate, pipe, threads, closed, timedOut, terminated, footer>>

\* Nothing is left for the reader of a closed pipe to wait for.
Rejoin(s) ==
    /\ reader[s] = "ended"
    /\ Main(RejoinOf[s], IF s = "stdout" THEN CloseOf["stderr"] ELSE "record")
    /\ UNCHANGED <<gate, pipe, threads, closed, timedOut, terminated, footer>>

\* Fault for mutation runs: the exit status of a gate that timed out counts.
ReturncodeLate == IF leader = "none" THEN 127 ELSE code

Returncode ==
    IF leader = "none" THEN 127 ELSE IF timedOut THEN 124 ELSE code

Total(f) == f["stdout"] + f["stderr"]

\* cmd_run_gates writes the completion record from what the threads counted.
Record ==
    /\ Main("record", "hash")
    /\ footer' = {[returncode |-> Returncode,
                  truncated |-> Total(seen) > Total(kept),
                  errors |-> {s \in Stream : failed[s]}]}
    /\ UNCHANGED <<gate, pipe, threads, closed, timedOut, terminated>>

Hash ==
    /\ Main("hash", "done")
    /\ UNCHANGED <<gate, pipe, threads, closed, timedOut, terminated, footer>>

-----------------------------------------------------------------------------
Reader(s) == CallRead(s) \/ ReadChunk(s) \/ ReadEnd(s) \/ Look(s) \/ WriteChunk(s)

Waits == Expire \/ GraceOver \/ KillUnanswered \/ WaitExit
MainStep ==
    \/ Launch \/ LaunchFails \/ Poll \/ Term \/ Kill
    \/ (\E s \in Stream : Join(s) \/ Close(s) \/ Rejoin(s))
    \/ Record \/ Hash

GNext ==
    \/ MainStep \/ Waits \/ Dies
    \/ \E s \in Stream : Reader(s) \/ Write(s)
    \/ LeaveChild \/ Exit \/ ChildEnds

\* Threads run and timeouts expire; what is killed dies.  The gate itself need
\* not exit, close its pipes or reap its children.
GFairness ==
    /\ WF_vars(MainStep) /\ WF_vars(Waits) /\ WF_vars(Dies)
    /\ \A s \in Stream : WF_vars(Reader(s))

GSpec == GInit /\ [][GNext]_vars /\ GFairness

-----------------------------------------------------------------------------
(* Properties *)

Joining == {JoinOf[s] : s \in Stream} \cup {CloseOf[s] : s \in Stream}
               \cup {RejoinOf[s] : s \in Stream}

\* Every variable has its type, a thread that holds the lock is writing, and a
\* reader's counts never exceed what it read of what the gate wrote.
GateTypeOK ==
    /\ leader \in {"none", "running", "dying", "exited", "killed"} /\ code \in {0, 1}
    /\ child \in {"none", "grouped", "escaped", "gone"}
    /\ reader \in [Stream -> {"off", "top", "read", "wait", "write", "ended"}]
    /\ sent \in [Stream -> 0..MaxOutput] /\ pipe \in [Stream -> 0..MaxOutput]
    /\ hand \in [Stream -> 0..Chunk] /\ room \in [Stream -> Int] /\ written \in Nat
    /\ seen \in [Stream -> Nat] /\ kept \in [Stream -> Nat]
    /\ failed \in [Stream -> BOOLEAN] /\ closed \in [Stream -> BOOLEAN]
    /\ timedOut \in BOOLEAN /\ terminated \in BOOLEAN
    /\ main \in {"launch", "wait", "poll", "term", "graceTerm", "kill", "graceKill",
                 "record", "hash", "done"} \cup Joining
    /\ \A s \in Stream : reader[s] = "write" <=> lock = s
    /\ \A s \in Stream : kept[s] <= seen[s] /\ seen[s] + pipe[s] <= sent[s]

\* The two readers together never put more into the evidence file than the
\* limit, frames included (stream_gate_pipe's shared budget).
WithinBudget == written <= Limit

\* Output the gate wrote and the evidence does not hold is told: the record
\* says truncated, or names the stream whose reading failed.
LossIsTold ==
    \A f \in footer, s \in Stream :
        sent[s] > kept[s] => f.truncated \/ s \in f.errors

\* The record says exit 0 only of a gate whose shell ended with 0 before the
\* timeout, and not of one that caught SIGTERM and then ended with 0.
PassedEndedInTime ==
    \A f \in footer : f.returncode = 0 =>
        leader = "exited" /\ code = 0 /\ ~timedOut

\* Nothing is written into the evidence file once the completion record is,
\* and the file that is hashed is the file that stays.
NothingAfterRecord == [][footer # {} => UNCHANGED <<written, footer>>]_vars

\* run-gates comes back from a gate once no child of the gate holds its pipes,
\* whatever the gate's shell does about signals.
GateEndsWithItsChildren == <>[]~ChildHolds => <>(main = "done")

=============================================================================
