--------------------------- MODULE GateExecProofs ---------------------------
(***************************************************************************)
(* What execute_gate guarantees for every chunk, frame and limit, and every *)
(* amount of output: the budget, the accounting of what is lost, the exit   *)
(* status, and the silence after the completion record.                     *)
(***************************************************************************)
EXTENDS GateExec, TLAPS

Mains == {"launch", "wait", "poll", "term", "graceTerm", "kill", "graceKill",
          "record", "hash", "done"} \cup Joining
Signalling == {"poll", "term", "graceTerm", "kill", "graceKill"}
Over == {"record", "hash", "done"}

Types ==
    /\ leader \in {"none", "running", "dying", "exited", "killed"} /\ code \in {0, 1}
    /\ child \in {"none", "grouped", "escaped", "gone"}
    /\ reader \in [Stream -> {"off", "top", "read", "wait", "write", "ended"}]
    /\ sent \in [Stream -> 0..MaxOutput] /\ pipe \in [Stream -> 0..MaxOutput]
    /\ hand \in [Stream -> 0..Chunk] /\ room \in [Stream -> Int] /\ written \in Nat
    /\ seen \in [Stream -> Nat] /\ kept \in [Stream -> Nat]
    /\ failed \in [Stream -> BOOLEAN] /\ closed \in [Stream -> BOOLEAN]
    /\ timedOut \in BOOLEAN /\ terminated \in BOOLEAN
    /\ main \in Mains

\* A reader that writes holds the lock and still knows what room there is.
LockInv ==
    /\ lock \in Stream \cup {"free"}
    /\ \A s \in Stream : reader[s] = "write" <=> lock = s
    /\ \A s \in Stream : lock = s => room[s] = Limit - written

\* Every unit the gate wrote is in the pipe, in hand, or counted as seen.
InFlight(s) == IF reader[s] = "wait" THEN hand[s] ELSE 0
Flow == \A s \in Stream : seen[s] + pipe[s] + InFlight(s) = sent[s]

Pending(s) == IF reader[s] = "write" THEN hand[s] ELSE 0
KeptInv == \A s \in Stream : kept[s] + Pending(s) <= seen[s]

\* A reader that ended without an error has read all there was.
Drained == \A s \in Stream : reader[s] = "ended" /\ ~failed[s] => pipe[s] = 0

\* Where the main thread is tells what has ended and what has been started.
MainInv ==
    /\ leader = "none" => child = "none" /\ \A s \in Stream : reader[s] = "off" /\ sent[s] = 0
    /\ main = "launch" => leader = "none"
    /\ main \notin Over \cup {"launch"} => leader # "none"
    /\ main \in {CloseOf["stderr"], RejoinOf["stderr"]} => reader["stdout"] = "ended"
    /\ main \in Over /\ leader # "none" => \A s \in Stream : reader[s] = "ended"

TimeInv ==
    /\ main \in Signalling => timedOut
    /\ leader \in {"dying", "killed"} => timedOut
    /\ main \in Joining \cup Over /\ leader # "none" /\ ~timedOut => leader = "exited"

RecordInv ==
    /\ footer # {} <=> main \in {"hash", "done"}
    /\ \A f \in footer :
          /\ f.returncode = 0 => leader = "exited" /\ code = 0 /\ ~timedOut
          /\ \A s \in Stream : sent[s] > kept[s] => f.truncated \/ s \in f.errors

GInv == Types /\ LockInv /\ WithinBudget /\ Flow /\ KeptInv /\ Drained /\ MainInv /\ TimeInv /\ RecordInv

-----------------------------------------------------------------------------
(* Streams and the names of the steps *)

LEMMA StreamFacts ==
    /\ Stream = {"stdout", "stderr"}
    /\ JoinOf["stdout"] = "join stdout" /\ JoinOf["stderr"] = "join stderr"
    /\ CloseOf["stdout"] = "close stdout" /\ CloseOf["stderr"] = "close stderr"
    /\ RejoinOf["stdout"] = "rejoin stdout" /\ RejoinOf["stderr"] = "rejoin stderr"
    /\ Joining = {"join stdout", "join stderr", "close stdout", "close stderr",
                  "rejoin stdout", "rejoin stderr"}
    /\ Mains = {"launch", "wait", "poll", "term", "graceTerm", "kill", "graceKill",
                "record", "hash", "done", "join stdout", "join stderr", "close stdout",
                "close stderr", "rejoin stdout", "rejoin stderr"}
  <1>1. Stream = {"stdout", "stderr"}
    BY DEF Stream
  <1>2. /\ JoinOf["stdout"] = "join stdout" /\ JoinOf["stderr"] = "join stderr"
        /\ CloseOf["stdout"] = "close stdout" /\ CloseOf["stderr"] = "close stderr"
        /\ RejoinOf["stdout"] = "rejoin stdout" /\ RejoinOf["stderr"] = "rejoin stderr"
    BY DEF JoinOf, CloseOf, RejoinOf
  <1>3. Joining = {"join stdout", "join stderr", "close stdout", "close stderr",
                   "rejoin stdout", "rejoin stderr"}
    BY <1>1, <1>2 DEF Joining
  <1> QED
    BY <1>1, <1>2, <1>3 DEF Mains

LEMMA Sizes == Chunk \in Nat /\ Prefix \in Nat /\ Limit \in Nat /\ MaxOutput \in Nat /\ Chunk > 0
  BY GateAssumption

\* How a chunk fits into the room that is left.
LEMMA AcceptedBounds ==
    ASSUME Types, LockInv, WithinBudget, NEW s \in Stream, reader[s] = "write"
    PROVE  /\ Accepted(s) \in Nat
           /\ written + Accepted(s) <= Limit
           /\ Counts(Accepted(s)) \in Nat /\ Counts(Accepted(s)) <= hand[s]
  <1>1. room[s] = Limit - written /\ room[s] \in Int /\ hand[s] \in Nat
    BY Sizes DEF LockInv, Types
  <1>2. /\ Accepted(s) \in Nat /\ Accepted(s) <= Prefix + hand[s]
        /\ written + Accepted(s) <= Limit
    BY <1>1, Sizes DEF Accepted, Least, WithinBudget, Types
  <1>3. Counts(Accepted(s)) \in Nat /\ Counts(Accepted(s)) <= hand[s]
    BY <1>1, <1>2, Sizes DEF Counts
  <1> QED
    BY <1>2, <1>3

LEMMA KeptBelowSeen ==
    ASSUME Types, KeptInv
    PROVE  \A t \in Stream : kept[t] \in Nat /\ seen[t] \in Nat /\ kept[t] <= seen[t]
  <1> SUFFICES ASSUME NEW t \in Stream
               PROVE  kept[t] \in Nat /\ seen[t] \in Nat /\ kept[t] <= seen[t]
    OBVIOUS
  <1>1. Pending(t) \in Nat /\ kept[t] \in Nat /\ seen[t] \in Nat
    BY Sizes DEF Types, Pending
  <1>2. kept[t] + Pending(t) <= seen[t]
    BY DEF KeptInv
  <1> QED
    BY <1>1, <1>2

-----------------------------------------------------------------------------
(* One part of the invariant at a time *)

LEMMA TypesKept ==
    ASSUME GInv, [GNext]_vars
    PROVE  Types'
  <1>1. ASSUME Launch
        PROVE  Types'
    BY <1>1, StreamFacts, Sizes DEF GInv, Launch, Types, Main, Moves, ReaderOnly, gate, threads, thread
  <1>2. ASSUME LaunchFails
        PROVE  Types'
    BY <1>2, StreamFacts, Sizes DEF GInv, LaunchFails, Types, Main, Moves, ReaderOnly, gate, threads, thread
  <1>3. ASSUME WaitExit
        PROVE  Types'
    BY <1>3, StreamFacts, Sizes DEF GInv, WaitExit, Types, Main, Moves, ReaderOnly, gate, threads, thread
  <1>4. ASSUME Expire
        PROVE  Types'
    BY <1>4, StreamFacts, Sizes DEF GInv, Expire, Types, Main, Moves, ReaderOnly, gate, threads, thread
  <1>5. ASSUME Poll
        PROVE  Types'
    BY <1>5, StreamFacts, Sizes DEF GInv, Poll, Types, Main, Moves, ReaderOnly, gate, threads, thread
  <1>6. ASSUME Term
        PROVE  Types'
    BY <1>6, StreamFacts, Sizes DEF GInv, Term, Types, Main, Moves, ReaderOnly, gate, threads, thread
  <1>7. ASSUME GraceOver
        PROVE  Types'
    BY <1>7, StreamFacts, Sizes DEF GInv, GraceOver, Types, Main, Moves, ReaderOnly, gate, threads, thread
  <1>8. ASSUME Kill
        PROVE  Types'
    BY <1>8, StreamFacts, Sizes DEF GInv, Kill, Types, Main, Moves, ReaderOnly, gate, threads, thread
  <1>9. ASSUME Dies
        PROVE  Types'
    BY <1>9, StreamFacts, Sizes DEF GInv, Dies, Types, Main, Moves, ReaderOnly, gate, threads, thread
  <1>10. ASSUME KillUnanswered
        PROVE  Types'
    BY <1>10, StreamFacts, Sizes DEF GInv, KillUnanswered, Types, Main, Moves, ReaderOnly, gate, threads, thread
  <1>11. ASSUME NEW s \in Stream, Join(s)
        PROVE  Types'
    BY <1>11, StreamFacts, Sizes DEF GInv, Join, Types, Main, Moves, ReaderOnly, gate, threads, thread
  <1>12. ASSUME NEW s \in Stream, Close(s)
        PROVE  Types'
    BY <1>12, StreamFacts, Sizes DEF GInv, Close, Types, Main, Moves, ReaderOnly, gate, threads, thread
  <1>13. ASSUME NEW s \in Stream, Rejoin(s)
        PROVE  Types'
    BY <1>13, StreamFacts, Sizes DEF GInv, Rejoin, Types, Main, Moves, ReaderOnly, gate, threads, thread
  <1>14. ASSUME Record
        PROVE  Types'
    BY <1>14, StreamFacts, Sizes DEF GInv, Record, Types, Main, Moves, ReaderOnly, gate, threads, thread
  <1>15. ASSUME Hash
        PROVE  Types'
    BY <1>15, StreamFacts, Sizes DEF GInv, Hash, Types, Main, Moves, ReaderOnly, gate, threads, thread
  <1>16. ASSUME NEW s \in Stream, CallRead(s)
        PROVE  Types'
    BY <1>16, StreamFacts, Sizes DEF GInv, CallRead, Types, Main, Moves, ReaderOnly, gate, threads, thread
  <1>17. ASSUME NEW s \in Stream, ReadChunk(s)
        PROVE  Types'
    <2>1. CASE pipe[s] >= Chunk
      <3>1. /\ hand' = [hand EXCEPT ![s] = Chunk] /\ pipe' = [pipe EXCEPT ![s] = pipe[s] - Chunk]
            /\ reader' = [reader EXCEPT ![s] = "wait"]
        BY <1>17, <2>1 DEF ReadChunk, Moves
      <3>2. pipe[s] - Chunk \in 0..MaxOutput /\ Chunk \in 0..Chunk
        BY <2>1, Sizes DEF GInv, Types
      <3>3. hand' \in [Stream -> 0..Chunk] /\ pipe' \in [Stream -> 0..MaxOutput]
        BY <3>1, <3>2 DEF GInv, Types
      <3> QED
        BY <1>17, <3>1, <3>3 DEF GInv, Types, ReadChunk, ReaderOnly, gate, thread
    <2>2. CASE ~(pipe[s] >= Chunk)
      <3>1. /\ hand' = [hand EXCEPT ![s] = pipe[s]] /\ pipe' = [pipe EXCEPT ![s] = pipe[s] - pipe[s]]
            /\ reader' = [reader EXCEPT ![s] = "wait"]
        BY <1>17, <2>2 DEF ReadChunk, Moves
      <3>2. pipe[s] - pipe[s] \in 0..MaxOutput /\ pipe[s] \in 0..Chunk
        BY <2>2, Sizes DEF GInv, Types
      <3>3. hand' \in [Stream -> 0..Chunk] /\ pipe' \in [Stream -> 0..MaxOutput]
        BY <3>1, <3>2 DEF GInv, Types
      <3> QED
        BY <1>17, <3>1, <3>3 DEF GInv, Types, ReadChunk, ReaderOnly, gate, thread
    <2> QED
      BY <2>1, <2>2
  <1>18. ASSUME NEW s \in Stream, ReadEnd(s)
        PROVE  Types'
    BY <1>18, StreamFacts, Sizes DEF GInv, ReadEnd, Types, Main, Moves, ReaderOnly, gate, threads, thread
  <1>19. ASSUME NEW s \in Stream, Look(s)
        PROVE  Types'
    <2>1. Limit - written \in Int /\ seen[s] + hand[s] \in Nat
      BY Sizes DEF GInv, Types
    <2>2. /\ reader' = [reader EXCEPT ![s] = "write"]
          /\ room' = [room EXCEPT ![s] = Limit - written]
          /\ seen' = [seen EXCEPT ![s] = seen[s] + hand[s]]
      BY <1>19 DEF Look, Moves
    <2>3. room' \in [Stream -> Int] /\ seen' \in [Stream -> Nat]
      BY <2>1, <2>2 DEF GInv, Types
    <2> QED
      BY <1>19, <2>2, <2>3 DEF GInv, Types, Look, ReaderOnly, gate, thread
  <1>20. ASSUME NEW s \in Stream, WriteChunk(s)
        PROVE  Types'
    <2>1. Accepted(s) \in Nat /\ Counts(Accepted(s)) \in Nat
      BY <1>20, AcceptedBounds DEF GInv, WriteChunk, Moves
    <2>2. /\ reader' = [reader EXCEPT ![s] = "top"]
          /\ written' = written + Accepted(s)
          /\ kept' = [kept EXCEPT ![s] = kept[s] + Counts(Accepted(s))]
          /\ hand' = [hand EXCEPT ![s] = 0] /\ room' = [room EXCEPT ![s] = 0]
      BY <1>20 DEF WriteChunk, Moves
    <2>3. kept[s] + Counts(Accepted(s)) \in Nat /\ 0 \in 0..Chunk /\ written' \in Nat
      BY <2>1, <2>2, Sizes DEF GInv, Types
    <2>4. /\ kept' \in [Stream -> Nat] /\ hand' \in [Stream -> 0..Chunk]
          /\ room' \in [Stream -> Int]
      BY <2>2, <2>3 DEF GInv, Types
    <2> QED
      BY <1>20, <2>2, <2>3, <2>4 DEF GInv, Types, WriteChunk, ReaderOnly, gate, thread
  <1>21. ASSUME NEW s \in Stream, Write(s)
        PROVE  Types'
    <2>1. sent[s] + 1 \in 0..MaxOutput /\ pipe[s] + 1 \in 0..MaxOutput
      <3>1. InFlight(s) \in Nat /\ pipe[s] \in Nat /\ sent[s] \in Nat /\ seen[s] \in Nat
        BY Sizes DEF GInv, Types, InFlight
      <3>2. sent[s] < MaxOutput /\ seen[s] + pipe[s] + InFlight(s) = sent[s]
        BY <1>21 DEF GInv, Flow, Write
      <3> QED
        BY <3>1, <3>2, Sizes
    <2>2. sent' = [sent EXCEPT ![s] = sent[s] + 1] /\ pipe' = [pipe EXCEPT ![s] = pipe[s] + 1]
      BY <1>21 DEF Write
    <2>3. sent' \in [Stream -> 0..MaxOutput] /\ pipe' \in [Stream -> 0..MaxOutput]
      BY <2>1, <2>2 DEF GInv, Types
    <2> QED
      BY <1>21, <2>3 DEF GInv, Types, Write, threads, thread
  <1>22. ASSUME LeaveChild
        PROVE  Types'
    BY <1>22, StreamFacts, Sizes DEF GInv, LeaveChild, Types, Main, Moves, ReaderOnly, gate, threads, thread
  <1>23. ASSUME Exit
        PROVE  Types'
    BY <1>23, StreamFacts, Sizes DEF GInv, Exit, Types, Main, Moves, ReaderOnly, gate, threads, thread
  <1>24. ASSUME ChildEnds
        PROVE  Types'
    BY <1>24, StreamFacts, Sizes DEF GInv, ChildEnds, Types, Main, Moves, ReaderOnly, gate, threads, thread
  <1>25. CASE UNCHANGED vars
    BY <1>25 DEF GInv, Types, vars, gate, threads, thread
  <1> QED
    BY <1>1, <1>2, <1>3, <1>4, <1>5, <1>6, <1>7, <1>8, <1>9, <1>10, <1>11, <1>12, <1>13, <1>14, <1>15, <1>16, <1>17, <1>18, <1>19, <1>20, <1>21, <1>22, <1>23, <1>24, <1>25
       DEF GNext, MainStep, Waits, Reader

LEMMA LockKept ==
    ASSUME GInv, [GNext]_vars
    PROVE  LockInv'
  <1>1. ASSUME Launch
        PROVE  LockInv'
    <2>1. \A t \in Stream : reader[t] = "off" /\ reader'[t] = "top"
      BY <1>1 DEF GInv, MainInv, Launch, Main
    <2>2. lock' = lock /\ room' = room /\ written' = written
      BY <1>1 DEF Launch
    <2> QED
      BY <2>1, <2>2 DEF GInv, LockInv
  <1>2. ASSUME LaunchFails
        PROVE  LockInv'
    BY <1>2, Sizes DEF GInv, LaunchFails, Types, LockInv, Main, Moves, ReaderOnly, gate, threads, thread
  <1>3. ASSUME WaitExit
        PROVE  LockInv'
    BY <1>3, Sizes DEF GInv, WaitExit, Types, LockInv, Main, Moves, ReaderOnly, gate, threads, thread
  <1>4. ASSUME Expire
        PROVE  LockInv'
    BY <1>4, Sizes DEF GInv, Expire, Types, LockInv, Main, Moves, ReaderOnly, gate, threads, thread
  <1>5. ASSUME Poll
        PROVE  LockInv'
    BY <1>5, Sizes DEF GInv, Poll, Types, LockInv, Main, Moves, ReaderOnly, gate, threads, thread
  <1>6. ASSUME Term
        PROVE  LockInv'
    BY <1>6, Sizes DEF GInv, Term, Types, LockInv, Main, Moves, ReaderOnly, gate, threads, thread
  <1>7. ASSUME GraceOver
        PROVE  LockInv'
    BY <1>7, Sizes DEF GInv, GraceOver, Types, LockInv, Main, Moves, ReaderOnly, gate, threads, thread
  <1>8. ASSUME Kill
        PROVE  LockInv'
    BY <1>8, Sizes DEF GInv, Kill, Types, LockInv, Main, Moves, ReaderOnly, gate, threads, thread
  <1>9. ASSUME Dies
        PROVE  LockInv'
    BY <1>9, Sizes DEF GInv, Dies, Types, LockInv, Main, Moves, ReaderOnly, gate, threads, thread
  <1>10. ASSUME KillUnanswered
        PROVE  LockInv'
    BY <1>10, Sizes DEF GInv, KillUnanswered, Types, LockInv, Main, Moves, ReaderOnly, gate, threads, thread
  <1>11. ASSUME NEW s \in Stream, Join(s)
        PROVE  LockInv'
    BY <1>11, Sizes DEF GInv, Join, Types, LockInv, Main, Moves, ReaderOnly, gate, threads, thread
  <1>12. ASSUME NEW s \in Stream, Close(s)
        PROVE  LockInv'
    BY <1>12, Sizes DEF GInv, Close, Types, LockInv, Main, Moves, ReaderOnly, gate, threads, thread
  <1>13. ASSUME NEW s \in Stream, Rejoin(s)
        PROVE  LockInv'
    BY <1>13, Sizes DEF GInv, Rejoin, Types, LockInv, Main, Moves, ReaderOnly, gate, threads, thread
  <1>14. ASSUME Record
        PROVE  LockInv'
    BY <1>14, Sizes DEF GInv, Record, Types, LockInv, Main, Moves, ReaderOnly, gate, threads, thread
  <1>15. ASSUME Hash
        PROVE  LockInv'
    BY <1>15, Sizes DEF GInv, Hash, Types, LockInv, Main, Moves, ReaderOnly, gate, threads, thread
  <1>16. ASSUME NEW s \in Stream, CallRead(s)
        PROVE  LockInv'
    BY <1>16, Sizes DEF GInv, CallRead, Types, LockInv, Main, Moves, ReaderOnly, gate, threads, thread
  <1>17. ASSUME NEW s \in Stream, ReadChunk(s)
        PROVE  LockInv'
    BY <1>17, Sizes DEF GInv, ReadChunk, Types, LockInv, Main, Moves, ReaderOnly, gate, threads, thread
  <1>18. ASSUME NEW s \in Stream, ReadEnd(s)
        PROVE  LockInv'
    BY <1>18, Sizes DEF GInv, ReadEnd, Types, LockInv, Main, Moves, ReaderOnly, gate, threads, thread
  <1>19. ASSUME NEW s \in Stream, Look(s)
        PROVE  LockInv'
    <2>1. /\ lock = "free" /\ lock' = s /\ written' = written
          /\ reader' = [reader EXCEPT ![s] = "write"]
          /\ room' = [room EXCEPT ![s] = Limit - written]
      BY <1>19 DEF Look, Moves
    <2>2. /\ reader'[s] = "write" /\ room'[s] = Limit - written
          /\ \A t \in Stream \ {s} : reader'[t] = reader[t]
      BY <2>1 DEF GInv, Types
    <2>3. \A t \in Stream : reader[t] # "write"
      BY <2>1 DEF GInv, LockInv, Stream
    <2> QED
      BY <2>1, <2>2, <2>3 DEF LockInv
  <1>20. ASSUME NEW s \in Stream, WriteChunk(s)
        PROVE  LockInv'
    <2>1. lock = s
      BY <1>20 DEF GInv, LockInv, WriteChunk, Moves
    <2>2. lock' = "free" /\ reader' = [reader EXCEPT ![s] = "top"]
      BY <1>20, <2>1 DEF WriteChunk, Moves
    <2>3. reader'[s] = "top" /\ \A t \in Stream \ {s} : reader'[t] = reader[t]
      BY <2>2 DEF GInv, Types
    <2>4. \A t \in Stream \ {s} : reader[t] # "write"
      BY <2>1 DEF GInv, LockInv
    <2>5. "free" \notin Stream
      BY DEF Stream
    <2> QED
      BY <2>2, <2>3, <2>4, <2>5 DEF LockInv
  <1>21. ASSUME NEW s \in Stream, Write(s)
        PROVE  LockInv'
    BY <1>21, Sizes DEF GInv, Write, Types, LockInv, Main, Moves, ReaderOnly, gate, threads, thread
  <1>22. ASSUME LeaveChild
        PROVE  LockInv'
    BY <1>22, Sizes DEF GInv, LeaveChild, Types, LockInv, Main, Moves, ReaderOnly, gate, threads, thread
  <1>23. ASSUME Exit
        PROVE  LockInv'
    BY <1>23, Sizes DEF GInv, Exit, Types, LockInv, Main, Moves, ReaderOnly, gate, threads, thread
  <1>24. ASSUME ChildEnds
        PROVE  LockInv'
    BY <1>24, Sizes DEF GInv, ChildEnds, Types, LockInv, Main, Moves, ReaderOnly, gate, threads, thread
  <1>25. CASE UNCHANGED vars
    BY <1>25 DEF GInv, Types, LockInv, vars, gate, threads, thread
  <1> QED
    BY <1>1, <1>2, <1>3, <1>4, <1>5, <1>6, <1>7, <1>8, <1>9, <1>10, <1>11, <1>12, <1>13, <1>14, <1>15, <1>16, <1>17, <1>18, <1>19, <1>20, <1>21, <1>22, <1>23, <1>24, <1>25
       DEF GNext, MainStep, Waits, Reader

LEMMA BudgetKept ==
    ASSUME GInv, [GNext]_vars
    PROVE  WithinBudget'
  <1>1. ASSUME Launch
        PROVE  WithinBudget'
    BY <1>1, Sizes DEF GInv, Launch, WithinBudget, Main, Moves, ReaderOnly, gate, threads, thread
  <1>2. ASSUME LaunchFails
        PROVE  WithinBudget'
    BY <1>2, Sizes DEF GInv, LaunchFails, WithinBudget, Main, Moves, ReaderOnly, gate, threads, thread
  <1>3. ASSUME WaitExit
        PROVE  WithinBudget'
    BY <1>3, Sizes DEF GInv, WaitExit, WithinBudget, Main, Moves, ReaderOnly, gate, threads, thread
  <1>4. ASSUME Expire
        PROVE  WithinBudget'
    BY <1>4, Sizes DEF GInv, Expire, WithinBudget, Main, Moves, ReaderOnly, gate, threads, thread
  <1>5. ASSUME Poll
        PROVE  WithinBudget'
    BY <1>5, Sizes DEF GInv, Poll, WithinBudget, Main, Moves, ReaderOnly, gate, threads, thread
  <1>6. ASSUME Term
        PROVE  WithinBudget'
    BY <1>6, Sizes DEF GInv, Term, WithinBudget, Main, Moves, ReaderOnly, gate, threads, thread
  <1>7. ASSUME GraceOver
        PROVE  WithinBudget'
    BY <1>7, Sizes DEF GInv, GraceOver, WithinBudget, Main, Moves, ReaderOnly, gate, threads, thread
  <1>8. ASSUME Kill
        PROVE  WithinBudget'
    BY <1>8, Sizes DEF GInv, Kill, WithinBudget, Main, Moves, ReaderOnly, gate, threads, thread
  <1>9. ASSUME Dies
        PROVE  WithinBudget'
    BY <1>9, Sizes DEF GInv, Dies, WithinBudget, Main, Moves, ReaderOnly, gate, threads, thread
  <1>10. ASSUME KillUnanswered
        PROVE  WithinBudget'
    BY <1>10, Sizes DEF GInv, KillUnanswered, WithinBudget, Main, Moves, ReaderOnly, gate, threads, thread
  <1>11. ASSUME NEW s \in Stream, Join(s)
        PROVE  WithinBudget'
    BY <1>11, Sizes DEF GInv, Join, WithinBudget, Main, Moves, ReaderOnly, gate, threads, thread
  <1>12. ASSUME NEW s \in Stream, Close(s)
        PROVE  WithinBudget'
    BY <1>12, Sizes DEF GInv, Close, WithinBudget, Main, Moves, ReaderOnly, gate, threads, thread
  <1>13. ASSUME NEW s \in Stream, Rejoin(s)
        PROVE  WithinBudget'
    BY <1>13, Sizes DEF GInv, Rejoin, WithinBudget, Main, Moves, ReaderOnly, gate, threads, thread
  <1>14. ASSUME Record
        PROVE  WithinBudget'
    BY <1>14, Sizes DEF GInv, Record, WithinBudget, Main, Moves, ReaderOnly, gate, threads, thread
  <1>15. ASSUME Hash
        PROVE  WithinBudget'
    BY <1>15, Sizes DEF GInv, Hash, WithinBudget, Main, Moves, ReaderOnly, gate, threads, thread
  <1>16. ASSUME NEW s \in Stream, CallRead(s)
        PROVE  WithinBudget'
    BY <1>16, Sizes DEF GInv, CallRead, WithinBudget, Main, Moves, ReaderOnly, gate, threads, thread
  <1>17. ASSUME NEW s \in Stream, ReadChunk(s)
        PROVE  WithinBudget'
    BY <1>17, Sizes DEF GInv, ReadChunk, WithinBudget, Main, Moves, ReaderOnly, gate, threads, thread
  <1>18. ASSUME NEW s \in Stream, ReadEnd(s)
        PROVE  WithinBudget'
    BY <1>18, Sizes DEF GInv, ReadEnd, WithinBudget, Main, Moves, ReaderOnly, gate, threads, thread
  <1>19. ASSUME NEW s \in Stream, Look(s)
        PROVE  WithinBudget'
    BY <1>19, Sizes DEF GInv, Look, WithinBudget, Main, Moves, ReaderOnly, gate, threads, thread
  <1>20. ASSUME NEW s \in Stream, WriteChunk(s)
        PROVE  WithinBudget'
    BY <1>20, AcceptedBounds DEF GInv, WriteChunk, Moves, WithinBudget
  <1>21. ASSUME NEW s \in Stream, Write(s)
        PROVE  WithinBudget'
    BY <1>21, Sizes DEF GInv, Write, WithinBudget, Main, Moves, ReaderOnly, gate, threads, thread
  <1>22. ASSUME LeaveChild
        PROVE  WithinBudget'
    BY <1>22, Sizes DEF GInv, LeaveChild, WithinBudget, Main, Moves, ReaderOnly, gate, threads, thread
  <1>23. ASSUME Exit
        PROVE  WithinBudget'
    BY <1>23, Sizes DEF GInv, Exit, WithinBudget, Main, Moves, ReaderOnly, gate, threads, thread
  <1>24. ASSUME ChildEnds
        PROVE  WithinBudget'
    BY <1>24, Sizes DEF GInv, ChildEnds, WithinBudget, Main, Moves, ReaderOnly, gate, threads, thread
  <1>25. CASE UNCHANGED vars
    BY <1>25 DEF GInv, WithinBudget, vars, gate, threads, thread
  <1> QED
    BY <1>1, <1>2, <1>3, <1>4, <1>5, <1>6, <1>7, <1>8, <1>9, <1>10, <1>11, <1>12, <1>13, <1>14, <1>15, <1>16, <1>17, <1>18, <1>19, <1>20, <1>21, <1>22, <1>23, <1>24, <1>25
       DEF GNext, MainStep, Waits, Reader

LEMMA FlowKept ==
    ASSUME GInv, [GNext]_vars
    PROVE  Flow'
  <1>1. ASSUME Launch
        PROVE  Flow'
    <2>1. \A t \in Stream : reader[t] = "off" /\ reader'[t] = "top"
      BY <1>1 DEF GInv, MainInv, Launch, Main
    <2>2. UNCHANGED <<sent, pipe, seen>>
      BY <1>1 DEF Launch
    <2> QED
      BY <2>1, <2>2 DEF GInv, Flow, InFlight
  <1>2. ASSUME LaunchFails
        PROVE  Flow'
    BY <1>2, Sizes DEF GInv, LaunchFails, Types, Flow, InFlight, Main, Moves, ReaderOnly, gate, threads, thread
  <1>3. ASSUME WaitExit
        PROVE  Flow'
    BY <1>3, Sizes DEF GInv, WaitExit, Types, Flow, InFlight, Main, Moves, ReaderOnly, gate, threads, thread
  <1>4. ASSUME Expire
        PROVE  Flow'
    BY <1>4, Sizes DEF GInv, Expire, Types, Flow, InFlight, Main, Moves, ReaderOnly, gate, threads, thread
  <1>5. ASSUME Poll
        PROVE  Flow'
    BY <1>5, Sizes DEF GInv, Poll, Types, Flow, InFlight, Main, Moves, ReaderOnly, gate, threads, thread
  <1>6. ASSUME Term
        PROVE  Flow'
    BY <1>6, Sizes DEF GInv, Term, Types, Flow, InFlight, Main, Moves, ReaderOnly, gate, threads, thread
  <1>7. ASSUME GraceOver
        PROVE  Flow'
    BY <1>7, Sizes DEF GInv, GraceOver, Types, Flow, InFlight, Main, Moves, ReaderOnly, gate, threads, thread
  <1>8. ASSUME Kill
        PROVE  Flow'
    BY <1>8, Sizes DEF GInv, Kill, Types, Flow, InFlight, Main, Moves, ReaderOnly, gate, threads, thread
  <1>9. ASSUME Dies
        PROVE  Flow'
    BY <1>9, Sizes DEF GInv, Dies, Types, Flow, InFlight, Main, Moves, ReaderOnly, gate, threads, thread
  <1>10. ASSUME KillUnanswered
        PROVE  Flow'
    BY <1>10, Sizes DEF GInv, KillUnanswered, Types, Flow, InFlight, Main, Moves, ReaderOnly, gate, threads, thread
  <1>11. ASSUME NEW s \in Stream, Join(s)
        PROVE  Flow'
    BY <1>11, Sizes DEF GInv, Join, Types, Flow, InFlight, Main, Moves, ReaderOnly, gate, threads, thread
  <1>12. ASSUME NEW s \in Stream, Close(s)
        PROVE  Flow'
    BY <1>12, Sizes DEF GInv, Close, Types, Flow, InFlight, Main, Moves, ReaderOnly, gate, threads, thread
  <1>13. ASSUME NEW s \in Stream, Rejoin(s)
        PROVE  Flow'
    BY <1>13, Sizes DEF GInv, Rejoin, Types, Flow, InFlight, Main, Moves, ReaderOnly, gate, threads, thread
  <1>14. ASSUME Record
        PROVE  Flow'
    BY <1>14, Sizes DEF GInv, Record, Types, Flow, InFlight, Main, Moves, ReaderOnly, gate, threads, thread
  <1>15. ASSUME Hash
        PROVE  Flow'
    BY <1>15, Sizes DEF GInv, Hash, Types, Flow, InFlight, Main, Moves, ReaderOnly, gate, threads, thread
  <1>16. ASSUME NEW s \in Stream, CallRead(s)
        PROVE  Flow'
    BY <1>16, Sizes DEF GInv, CallRead, Types, Flow, InFlight, Main, Moves, ReaderOnly, gate, threads, thread
  <1>17. ASSUME NEW s \in Stream, ReadChunk(s)
        PROVE  Flow'
    BY <1>17, Sizes DEF GInv, ReadChunk, Types, Flow, InFlight, Main, Moves, ReaderOnly, gate, threads, thread
  <1>18. ASSUME NEW s \in Stream, ReadEnd(s)
        PROVE  Flow'
    BY <1>18, Sizes DEF GInv, ReadEnd, Types, Flow, InFlight, Main, Moves, ReaderOnly, gate, threads, thread
  <1>19. ASSUME NEW s \in Stream, Look(s)
        PROVE  Flow'
    BY <1>19, Sizes DEF GInv, Look, Types, Flow, InFlight, Main, Moves, ReaderOnly, gate, threads, thread
  <1>20. ASSUME NEW s \in Stream, WriteChunk(s)
        PROVE  Flow'
    BY <1>20, Sizes DEF GInv, WriteChunk, Types, Flow, InFlight, Main, Moves, ReaderOnly, gate, threads, thread
  <1>21. ASSUME NEW s \in Stream, Write(s)
        PROVE  Flow'
    BY <1>21, Sizes DEF GInv, Write, Types, Flow, InFlight, Main, Moves, ReaderOnly, gate, threads, thread
  <1>22. ASSUME LeaveChild
        PROVE  Flow'
    BY <1>22, Sizes DEF GInv, LeaveChild, Types, Flow, InFlight, Main, Moves, ReaderOnly, gate, threads, thread
  <1>23. ASSUME Exit
        PROVE  Flow'
    BY <1>23, Sizes DEF GInv, Exit, Types, Flow, InFlight, Main, Moves, ReaderOnly, gate, threads, thread
  <1>24. ASSUME ChildEnds
        PROVE  Flow'
    BY <1>24, Sizes DEF GInv, ChildEnds, Types, Flow, InFlight, Main, Moves, ReaderOnly, gate, threads, thread
  <1>25. CASE UNCHANGED vars
    BY <1>25 DEF GInv, Types, Flow, InFlight, vars, gate, threads, thread
  <1> QED
    BY <1>1, <1>2, <1>3, <1>4, <1>5, <1>6, <1>7, <1>8, <1>9, <1>10, <1>11, <1>12, <1>13, <1>14, <1>15, <1>16, <1>17, <1>18, <1>19, <1>20, <1>21, <1>22, <1>23, <1>24, <1>25
       DEF GNext, MainStep, Waits, Reader

LEMMA KeptKept ==
    ASSUME GInv, [GNext]_vars
    PROVE  KeptInv'
  <1>1. ASSUME Launch
        PROVE  KeptInv'
    BY <1>1, Sizes DEF GInv, Launch, Types, KeptInv, Pending, Main, Moves, ReaderOnly, gate, threads, thread
  <1>2. ASSUME LaunchFails
        PROVE  KeptInv'
    BY <1>2, Sizes DEF GInv, LaunchFails, Types, KeptInv, Pending, Main, Moves, ReaderOnly, gate, threads, thread
  <1>3. ASSUME WaitExit
        PROVE  KeptInv'
    BY <1>3, Sizes DEF GInv, WaitExit, Types, KeptInv, Pending, Main, Moves, ReaderOnly, gate, threads, thread
  <1>4. ASSUME Expire
        PROVE  KeptInv'
    BY <1>4, Sizes DEF GInv, Expire, Types, KeptInv, Pending, Main, Moves, ReaderOnly, gate, threads, thread
  <1>5. ASSUME Poll
        PROVE  KeptInv'
    BY <1>5, Sizes DEF GInv, Poll, Types, KeptInv, Pending, Main, Moves, ReaderOnly, gate, threads, thread
  <1>6. ASSUME Term
        PROVE  KeptInv'
    BY <1>6, Sizes DEF GInv, Term, Types, KeptInv, Pending, Main, Moves, ReaderOnly, gate, threads, thread
  <1>7. ASSUME GraceOver
        PROVE  KeptInv'
    BY <1>7, Sizes DEF GInv, GraceOver, Types, KeptInv, Pending, Main, Moves, ReaderOnly, gate, threads, thread
  <1>8. ASSUME Kill
        PROVE  KeptInv'
    BY <1>8, Sizes DEF GInv, Kill, Types, KeptInv, Pending, Main, Moves, ReaderOnly, gate, threads, thread
  <1>9. ASSUME Dies
        PROVE  KeptInv'
    BY <1>9, Sizes DEF GInv, Dies, Types, KeptInv, Pending, Main, Moves, ReaderOnly, gate, threads, thread
  <1>10. ASSUME KillUnanswered
        PROVE  KeptInv'
    BY <1>10, Sizes DEF GInv, KillUnanswered, Types, KeptInv, Pending, Main, Moves, ReaderOnly, gate, threads, thread
  <1>11. ASSUME NEW s \in Stream, Join(s)
        PROVE  KeptInv'
    BY <1>11, Sizes DEF GInv, Join, Types, KeptInv, Pending, Main, Moves, ReaderOnly, gate, threads, thread
  <1>12. ASSUME NEW s \in Stream, Close(s)
        PROVE  KeptInv'
    BY <1>12, Sizes DEF GInv, Close, Types, KeptInv, Pending, Main, Moves, ReaderOnly, gate, threads, thread
  <1>13. ASSUME NEW s \in Stream, Rejoin(s)
        PROVE  KeptInv'
    BY <1>13, Sizes DEF GInv, Rejoin, Types, KeptInv, Pending, Main, Moves, ReaderOnly, gate, threads, thread
  <1>14. ASSUME Record
        PROVE  KeptInv'
    BY <1>14, Sizes DEF GInv, Record, Types, KeptInv, Pending, Main, Moves, ReaderOnly, gate, threads, thread
  <1>15. ASSUME Hash
        PROVE  KeptInv'
    BY <1>15, Sizes DEF GInv, Hash, Types, KeptInv, Pending, Main, Moves, ReaderOnly, gate, threads, thread
  <1>16. ASSUME NEW s \in Stream, CallRead(s)
        PROVE  KeptInv'
    BY <1>16, Sizes DEF GInv, CallRead, Types, KeptInv, Pending, Main, Moves, ReaderOnly, gate, threads, thread
  <1>17. ASSUME NEW s \in Stream, ReadChunk(s)
        PROVE  KeptInv'
    BY <1>17, Sizes DEF GInv, ReadChunk, Types, KeptInv, Pending, Main, Moves, ReaderOnly, gate, threads, thread
  <1>18. ASSUME NEW s \in Stream, ReadEnd(s)
        PROVE  KeptInv'
    BY <1>18, Sizes DEF GInv, ReadEnd, Types, KeptInv, Pending, Main, Moves, ReaderOnly, gate, threads, thread
  <1>19. ASSUME NEW s \in Stream, Look(s)
        PROVE  KeptInv'
    BY <1>19, Sizes DEF GInv, Look, Types, KeptInv, Pending, Main, Moves, ReaderOnly, gate, threads, thread
  <1>20. ASSUME NEW s \in Stream, WriteChunk(s)
        PROVE  KeptInv'
    <2>1. Counts(Accepted(s)) \in Nat /\ Counts(Accepted(s)) <= hand[s] /\ reader[s] = "write"
      BY <1>20, AcceptedBounds DEF GInv, WriteChunk, Moves
    <2>2. /\ reader' = [reader EXCEPT ![s] = "top"] /\ seen' = seen
          /\ kept' = [kept EXCEPT ![s] = kept[s] + Counts(Accepted(s))]
          /\ hand' = [hand EXCEPT ![s] = 0]
      BY <1>20 DEF WriteChunk, Moves
    <2>3. /\ kept'[s] = kept[s] + Counts(Accepted(s)) /\ reader'[s] = "top"
          /\ \A t \in Stream \ {s} :
                kept'[t] = kept[t] /\ reader'[t] = reader[t] /\ hand'[t] = hand[t]
      BY <2>2 DEF GInv, Types
    <2>4. kept[s] + hand[s] <= seen[s] /\ kept[s] \in Nat /\ hand[s] \in Nat /\ seen[s] \in Nat
      BY <2>1, Sizes DEF GInv, Types, KeptInv, Pending
    <2>5. kept'[s] + Pending(s)' <= seen'[s]
      BY <2>1, <2>2, <2>3, <2>4 DEF Pending
    <2>6. \A t \in Stream \ {s} : kept'[t] + Pending(t)' <= seen'[t]
      BY <2>2, <2>3 DEF GInv, KeptInv, Pending
    <2> QED
      BY <2>5, <2>6 DEF KeptInv
  <1>21. ASSUME NEW s \in Stream, Write(s)
        PROVE  KeptInv'
    BY <1>21, Sizes DEF GInv, Write, Types, KeptInv, Pending, Main, Moves, ReaderOnly, gate, threads, thread
  <1>22. ASSUME LeaveChild
        PROVE  KeptInv'
    BY <1>22, Sizes DEF GInv, LeaveChild, Types, KeptInv, Pending, Main, Moves, ReaderOnly, gate, threads, thread
  <1>23. ASSUME Exit
        PROVE  KeptInv'
    BY <1>23, Sizes DEF GInv, Exit, Types, KeptInv, Pending, Main, Moves, ReaderOnly, gate, threads, thread
  <1>24. ASSUME ChildEnds
        PROVE  KeptInv'
    BY <1>24, Sizes DEF GInv, ChildEnds, Types, KeptInv, Pending, Main, Moves, ReaderOnly, gate, threads, thread
  <1>25. CASE UNCHANGED vars
    BY <1>25 DEF GInv, Types, KeptInv, Pending, vars, gate, threads, thread
  <1> QED
    BY <1>1, <1>2, <1>3, <1>4, <1>5, <1>6, <1>7, <1>8, <1>9, <1>10, <1>11, <1>12, <1>13, <1>14, <1>15, <1>16, <1>17, <1>18, <1>19, <1>20, <1>21, <1>22, <1>23, <1>24, <1>25
       DEF GNext, MainStep, Waits, Reader

LEMMA DrainedKept ==
    ASSUME GInv, [GNext]_vars
    PROVE  Drained'
  <1>1. ASSUME Launch
        PROVE  Drained'
    BY <1>1, Sizes DEF GInv, Launch, Types, Drained, Main, Moves, ReaderOnly, gate, threads, thread
  <1>2. ASSUME LaunchFails
        PROVE  Drained'
    BY <1>2, Sizes DEF GInv, LaunchFails, Types, Drained, Main, Moves, ReaderOnly, gate, threads, thread
  <1>3. ASSUME WaitExit
        PROVE  Drained'
    BY <1>3, Sizes DEF GInv, WaitExit, Types, Drained, Main, Moves, ReaderOnly, gate, threads, thread
  <1>4. ASSUME Expire
        PROVE  Drained'
    BY <1>4, Sizes DEF GInv, Expire, Types, Drained, Main, Moves, ReaderOnly, gate, threads, thread
  <1>5. ASSUME Poll
        PROVE  Drained'
    BY <1>5, Sizes DEF GInv, Poll, Types, Drained, Main, Moves, ReaderOnly, gate, threads, thread
  <1>6. ASSUME Term
        PROVE  Drained'
    BY <1>6, Sizes DEF GInv, Term, Types, Drained, Main, Moves, ReaderOnly, gate, threads, thread
  <1>7. ASSUME GraceOver
        PROVE  Drained'
    BY <1>7, Sizes DEF GInv, GraceOver, Types, Drained, Main, Moves, ReaderOnly, gate, threads, thread
  <1>8. ASSUME Kill
        PROVE  Drained'
    BY <1>8, Sizes DEF GInv, Kill, Types, Drained, Main, Moves, ReaderOnly, gate, threads, thread
  <1>9. ASSUME Dies
        PROVE  Drained'
    BY <1>9, Sizes DEF GInv, Dies, Types, Drained, Main, Moves, ReaderOnly, gate, threads, thread
  <1>10. ASSUME KillUnanswered
        PROVE  Drained'
    BY <1>10, Sizes DEF GInv, KillUnanswered, Types, Drained, Main, Moves, ReaderOnly, gate, threads, thread
  <1>11. ASSUME NEW s \in Stream, Join(s)
        PROVE  Drained'
    BY <1>11, Sizes DEF GInv, Join, Types, Drained, Main, Moves, ReaderOnly, gate, threads, thread
  <1>12. ASSUME NEW s \in Stream, Close(s)
        PROVE  Drained'
    BY <1>12, Sizes DEF GInv, Close, Types, Drained, Main, Moves, ReaderOnly, gate, threads, thread
  <1>13. ASSUME NEW s \in Stream, Rejoin(s)
        PROVE  Drained'
    BY <1>13, Sizes DEF GInv, Rejoin, Types, Drained, Main, Moves, ReaderOnly, gate, threads, thread
  <1>14. ASSUME Record
        PROVE  Drained'
    BY <1>14, Sizes DEF GInv, Record, Types, Drained, Main, Moves, ReaderOnly, gate, threads, thread
  <1>15. ASSUME Hash
        PROVE  Drained'
    BY <1>15, Sizes DEF GInv, Hash, Types, Drained, Main, Moves, ReaderOnly, gate, threads, thread
  <1>16. ASSUME NEW s \in Stream, CallRead(s)
        PROVE  Drained'
    BY <1>16, Sizes DEF GInv, CallRead, Types, Drained, Main, Moves, ReaderOnly, gate, threads, thread
  <1>17. ASSUME NEW s \in Stream, ReadChunk(s)
        PROVE  Drained'
    BY <1>17, Sizes DEF GInv, ReadChunk, Types, Drained, Main, Moves, ReaderOnly, gate, threads, thread
  <1>18. ASSUME NEW s \in Stream, ReadEnd(s)
        PROVE  Drained'
    BY <1>18, Sizes DEF GInv, ReadEnd, Types, Drained, Main, Moves, ReaderOnly, gate, threads, thread
  <1>19. ASSUME NEW s \in Stream, Look(s)
        PROVE  Drained'
    BY <1>19, Sizes DEF GInv, Look, Types, Drained, Main, Moves, ReaderOnly, gate, threads, thread
  <1>20. ASSUME NEW s \in Stream, WriteChunk(s)
        PROVE  Drained'
    BY <1>20, Sizes DEF GInv, WriteChunk, Types, Drained, Main, Moves, ReaderOnly, gate, threads, thread
  <1>21. ASSUME NEW s \in Stream, Write(s)
        PROVE  Drained'
    BY <1>21, Sizes DEF GInv, Write, Types, Drained, Main, Moves, ReaderOnly, gate, threads, thread
  <1>22. ASSUME LeaveChild
        PROVE  Drained'
    BY <1>22, Sizes DEF GInv, LeaveChild, Types, Drained, Main, Moves, ReaderOnly, gate, threads, thread
  <1>23. ASSUME Exit
        PROVE  Drained'
    BY <1>23, Sizes DEF GInv, Exit, Types, Drained, Main, Moves, ReaderOnly, gate, threads, thread
  <1>24. ASSUME ChildEnds
        PROVE  Drained'
    BY <1>24, Sizes DEF GInv, ChildEnds, Types, Drained, Main, Moves, ReaderOnly, gate, threads, thread
  <1>25. CASE UNCHANGED vars
    BY <1>25 DEF GInv, Types, Drained, vars, gate, threads, thread
  <1> QED
    BY <1>1, <1>2, <1>3, <1>4, <1>5, <1>6, <1>7, <1>8, <1>9, <1>10, <1>11, <1>12, <1>13, <1>14, <1>15, <1>16, <1>17, <1>18, <1>19, <1>20, <1>21, <1>22, <1>23, <1>24, <1>25
       DEF GNext, MainStep, Waits, Reader

LEMMA MainKept ==
    ASSUME GInv, [GNext]_vars
    PROVE  MainInv'
  <1>1. ASSUME Launch
        PROVE  MainInv'
    BY <1>1, StreamFacts DEF GInv, Launch, Types, MainInv, Over, Held, ChildHolds, Main, Moves, ReaderOnly, gate, threads, thread
  <1>2. ASSUME LaunchFails
        PROVE  MainInv'
    BY <1>2, StreamFacts DEF GInv, LaunchFails, Types, MainInv, Over, Held, ChildHolds, Main, Moves, ReaderOnly, gate, threads, thread
  <1>3. ASSUME WaitExit
        PROVE  MainInv'
    BY <1>3, StreamFacts DEF GInv, WaitExit, Types, MainInv, Over, Held, ChildHolds, Main, Moves, ReaderOnly, gate, threads, thread
  <1>4. ASSUME Expire
        PROVE  MainInv'
    BY <1>4, StreamFacts DEF GInv, Expire, Types, MainInv, Over, Held, ChildHolds, Main, Moves, ReaderOnly, gate, threads, thread
  <1>5. ASSUME Poll
        PROVE  MainInv'
    BY <1>5, StreamFacts DEF GInv, Poll, Types, MainInv, Over, Held, ChildHolds, Main, Moves, ReaderOnly, gate, threads, thread
  <1>6. ASSUME Term
        PROVE  MainInv'
    BY <1>6, StreamFacts DEF GInv, Term, Types, MainInv, Over, Held, ChildHolds, Main, Moves, ReaderOnly, gate, threads, thread
  <1>7. ASSUME GraceOver
        PROVE  MainInv'
    BY <1>7, StreamFacts DEF GInv, GraceOver, Types, MainInv, Over, Held, ChildHolds, Main, Moves, ReaderOnly, gate, threads, thread
  <1>8. ASSUME Kill
        PROVE  MainInv'
    BY <1>8, StreamFacts DEF GInv, Kill, Types, MainInv, Over, Held, ChildHolds, Main, Moves, ReaderOnly, gate, threads, thread
  <1>9. ASSUME Dies
        PROVE  MainInv'
    BY <1>9, StreamFacts DEF GInv, Dies, Types, MainInv, Over, Held, ChildHolds, Main, Moves, ReaderOnly, gate, threads, thread
  <1>10. ASSUME KillUnanswered
        PROVE  MainInv'
    BY <1>10, StreamFacts DEF GInv, KillUnanswered, Types, MainInv, Over, Held, ChildHolds, Main, Moves, ReaderOnly, gate, threads, thread
  <1>11. ASSUME NEW s \in Stream, Join(s)
        PROVE  MainInv'
    BY <1>11, StreamFacts DEF GInv, Join, Types, MainInv, Over, Held, ChildHolds, Main, Moves, ReaderOnly, gate, threads, thread
  <1>12. ASSUME NEW s \in Stream, Close(s)
        PROVE  MainInv'
    BY <1>12, StreamFacts DEF GInv, Close, Types, MainInv, Over, Held, ChildHolds, Main, Moves, ReaderOnly, gate, threads, thread
  <1>13. ASSUME NEW s \in Stream, Rejoin(s)
        PROVE  MainInv'
    BY <1>13, StreamFacts DEF GInv, Rejoin, Types, MainInv, Over, Held, ChildHolds, Main, Moves, ReaderOnly, gate, threads, thread
  <1>14. ASSUME Record
        PROVE  MainInv'
    BY <1>14, StreamFacts DEF GInv, Record, Types, MainInv, Over, Held, ChildHolds, Main, Moves, ReaderOnly, gate, threads, thread
  <1>15. ASSUME Hash
        PROVE  MainInv'
    BY <1>15, StreamFacts DEF GInv, Hash, Types, MainInv, Over, Held, ChildHolds, Main, Moves, ReaderOnly, gate, threads, thread
  <1>16. ASSUME NEW s \in Stream, CallRead(s)
        PROVE  MainInv'
    BY <1>16, StreamFacts DEF GInv, CallRead, Types, MainInv, Over, Held, ChildHolds, Main, Moves, ReaderOnly, gate, threads, thread
  <1>17. ASSUME NEW s \in Stream, ReadChunk(s)
        PROVE  MainInv'
    BY <1>17, StreamFacts DEF GInv, ReadChunk, Types, MainInv, Over, Held, ChildHolds, Main, Moves, ReaderOnly, gate, threads, thread
  <1>18. ASSUME NEW s \in Stream, ReadEnd(s)
        PROVE  MainInv'
    BY <1>18, StreamFacts DEF GInv, ReadEnd, Types, MainInv, Over, Held, ChildHolds, Main, Moves, ReaderOnly, gate, threads, thread
  <1>19. ASSUME NEW s \in Stream, Look(s)
        PROVE  MainInv'
    BY <1>19, StreamFacts DEF GInv, Look, Types, MainInv, Over, Held, ChildHolds, Main, Moves, ReaderOnly, gate, threads, thread
  <1>20. ASSUME NEW s \in Stream, WriteChunk(s)
        PROVE  MainInv'
    BY <1>20, StreamFacts DEF GInv, WriteChunk, Types, MainInv, Over, Held, ChildHolds, Main, Moves, ReaderOnly, gate, threads, thread
  <1>21. ASSUME NEW s \in Stream, Write(s)
        PROVE  MainInv'
    BY <1>21, StreamFacts DEF GInv, Write, Types, MainInv, Over, Held, ChildHolds, Main, Moves, ReaderOnly, gate, threads, thread
  <1>22. ASSUME LeaveChild
        PROVE  MainInv'
    BY <1>22, StreamFacts DEF GInv, LeaveChild, Types, MainInv, Over, Held, ChildHolds, Main, Moves, ReaderOnly, gate, threads, thread
  <1>23. ASSUME Exit
        PROVE  MainInv'
    BY <1>23, StreamFacts DEF GInv, Exit, Types, MainInv, Over, Held, ChildHolds, Main, Moves, ReaderOnly, gate, threads, thread
  <1>24. ASSUME ChildEnds
        PROVE  MainInv'
    BY <1>24, StreamFacts DEF GInv, ChildEnds, Types, MainInv, Over, Held, ChildHolds, Main, Moves, ReaderOnly, gate, threads, thread
  <1>25. CASE UNCHANGED vars
    BY <1>25 DEF GInv, Types, MainInv, Over, Held, ChildHolds, vars, gate, threads, thread
  <1> QED
    BY <1>1, <1>2, <1>3, <1>4, <1>5, <1>6, <1>7, <1>8, <1>9, <1>10, <1>11, <1>12, <1>13, <1>14, <1>15, <1>16, <1>17, <1>18, <1>19, <1>20, <1>21, <1>22, <1>23, <1>24, <1>25
       DEF GNext, MainStep, Waits, Reader

LEMMA TimeKept ==
    ASSUME GInv, [GNext]_vars
    PROVE  TimeInv'
  <1>1. ASSUME Launch
        PROVE  TimeInv'
    BY <1>1, StreamFacts DEF GInv, Launch, Types, TimeInv, MainInv, Signalling, Over, Main, Moves, ReaderOnly, gate, threads, thread
  <1>2. ASSUME LaunchFails
        PROVE  TimeInv'
    BY <1>2, StreamFacts DEF GInv, LaunchFails, Types, TimeInv, MainInv, Signalling, Over, Main, Moves, ReaderOnly, gate, threads, thread
  <1>3. ASSUME WaitExit
        PROVE  TimeInv'
    BY <1>3, StreamFacts DEF GInv, WaitExit, Types, TimeInv, MainInv, Signalling, Over, Main, Moves, ReaderOnly, gate, threads, thread
  <1>4. ASSUME Expire
        PROVE  TimeInv'
    BY <1>4, StreamFacts DEF GInv, Expire, Types, TimeInv, MainInv, Signalling, Over, Main, Moves, ReaderOnly, gate, threads, thread
  <1>5. ASSUME Poll
        PROVE  TimeInv'
    BY <1>5, StreamFacts DEF GInv, Poll, Types, TimeInv, MainInv, Signalling, Over, Main, Moves, ReaderOnly, gate, threads, thread
  <1>6. ASSUME Term
        PROVE  TimeInv'
    BY <1>6, StreamFacts DEF GInv, Term, Types, TimeInv, MainInv, Signalling, Over, Main, Moves, ReaderOnly, gate, threads, thread
  <1>7. ASSUME GraceOver
        PROVE  TimeInv'
    BY <1>7, StreamFacts DEF GInv, GraceOver, Types, TimeInv, MainInv, Signalling, Over, Main, Moves, ReaderOnly, gate, threads, thread
  <1>8. ASSUME Kill
        PROVE  TimeInv'
    BY <1>8, StreamFacts DEF GInv, Kill, Types, TimeInv, MainInv, Signalling, Over, Main, Moves, ReaderOnly, gate, threads, thread
  <1>9. ASSUME Dies
        PROVE  TimeInv'
    BY <1>9, StreamFacts DEF GInv, Dies, Types, TimeInv, MainInv, Signalling, Over, Main, Moves, ReaderOnly, gate, threads, thread
  <1>10. ASSUME KillUnanswered
        PROVE  TimeInv'
    BY <1>10, StreamFacts DEF GInv, KillUnanswered, Types, TimeInv, MainInv, Signalling, Over, Main, Moves, ReaderOnly, gate, threads, thread
  <1>11. ASSUME NEW s \in Stream, Join(s)
        PROVE  TimeInv'
    BY <1>11, StreamFacts DEF GInv, Join, Types, TimeInv, MainInv, Signalling, Over, Main, Moves, ReaderOnly, gate, threads, thread
  <1>12. ASSUME NEW s \in Stream, Close(s)
        PROVE  TimeInv'
    BY <1>12, StreamFacts DEF GInv, Close, Types, TimeInv, MainInv, Signalling, Over, Main, Moves, ReaderOnly, gate, threads, thread
  <1>13. ASSUME NEW s \in Stream, Rejoin(s)
        PROVE  TimeInv'
    BY <1>13, StreamFacts DEF GInv, Rejoin, Types, TimeInv, MainInv, Signalling, Over, Main, Moves, ReaderOnly, gate, threads, thread
  <1>14. ASSUME Record
        PROVE  TimeInv'
    BY <1>14, StreamFacts DEF GInv, Record, Types, TimeInv, MainInv, Signalling, Over, Main, Moves, ReaderOnly, gate, threads, thread
  <1>15. ASSUME Hash
        PROVE  TimeInv'
    BY <1>15, StreamFacts DEF GInv, Hash, Types, TimeInv, MainInv, Signalling, Over, Main, Moves, ReaderOnly, gate, threads, thread
  <1>16. ASSUME NEW s \in Stream, CallRead(s)
        PROVE  TimeInv'
    BY <1>16, StreamFacts DEF GInv, CallRead, Types, TimeInv, MainInv, Signalling, Over, Main, Moves, ReaderOnly, gate, threads, thread
  <1>17. ASSUME NEW s \in Stream, ReadChunk(s)
        PROVE  TimeInv'
    BY <1>17, StreamFacts DEF GInv, ReadChunk, Types, TimeInv, MainInv, Signalling, Over, Main, Moves, ReaderOnly, gate, threads, thread
  <1>18. ASSUME NEW s \in Stream, ReadEnd(s)
        PROVE  TimeInv'
    BY <1>18, StreamFacts DEF GInv, ReadEnd, Types, TimeInv, MainInv, Signalling, Over, Main, Moves, ReaderOnly, gate, threads, thread
  <1>19. ASSUME NEW s \in Stream, Look(s)
        PROVE  TimeInv'
    BY <1>19, StreamFacts DEF GInv, Look, Types, TimeInv, MainInv, Signalling, Over, Main, Moves, ReaderOnly, gate, threads, thread
  <1>20. ASSUME NEW s \in Stream, WriteChunk(s)
        PROVE  TimeInv'
    BY <1>20, StreamFacts DEF GInv, WriteChunk, Types, TimeInv, MainInv, Signalling, Over, Main, Moves, ReaderOnly, gate, threads, thread
  <1>21. ASSUME NEW s \in Stream, Write(s)
        PROVE  TimeInv'
    BY <1>21, StreamFacts DEF GInv, Write, Types, TimeInv, MainInv, Signalling, Over, Main, Moves, ReaderOnly, gate, threads, thread
  <1>22. ASSUME LeaveChild
        PROVE  TimeInv'
    BY <1>22, StreamFacts DEF GInv, LeaveChild, Types, TimeInv, MainInv, Signalling, Over, Main, Moves, ReaderOnly, gate, threads, thread
  <1>23. ASSUME Exit
        PROVE  TimeInv'
    BY <1>23, StreamFacts DEF GInv, Exit, Types, TimeInv, MainInv, Signalling, Over, Main, Moves, ReaderOnly, gate, threads, thread
  <1>24. ASSUME ChildEnds
        PROVE  TimeInv'
    BY <1>24, StreamFacts DEF GInv, ChildEnds, Types, TimeInv, MainInv, Signalling, Over, Main, Moves, ReaderOnly, gate, threads, thread
  <1>25. CASE UNCHANGED vars
    BY <1>25 DEF GInv, Types, TimeInv, MainInv, Signalling, Over, vars, gate, threads, thread
  <1> QED
    BY <1>1, <1>2, <1>3, <1>4, <1>5, <1>6, <1>7, <1>8, <1>9, <1>10, <1>11, <1>12, <1>13, <1>14, <1>15, <1>16, <1>17, <1>18, <1>19, <1>20, <1>21, <1>22, <1>23, <1>24, <1>25
       DEF GNext, MainStep, Waits, Reader

LEMMA RecordKept ==
    ASSUME GInv, [GNext]_vars
    PROVE  RecordInv'
  <1>1. ASSUME Launch
        PROVE  RecordInv'
    BY <1>1, StreamFacts DEF GInv, Launch, Types, RecordInv, MainInv, Over, Held, ChildHolds, Main, Moves, ReaderOnly, gate, threads, thread
  <1>2. ASSUME LaunchFails
        PROVE  RecordInv'
    BY <1>2, StreamFacts DEF GInv, LaunchFails, Types, RecordInv, MainInv, Over, Held, ChildHolds, Main, Moves, ReaderOnly, gate, threads, thread
  <1>3. ASSUME WaitExit
        PROVE  RecordInv'
    BY <1>3, StreamFacts DEF GInv, WaitExit, Types, RecordInv, MainInv, Over, Held, ChildHolds, Main, Moves, ReaderOnly, gate, threads, thread
  <1>4. ASSUME Expire
        PROVE  RecordInv'
    BY <1>4, StreamFacts DEF GInv, Expire, Types, RecordInv, MainInv, Over, Held, ChildHolds, Main, Moves, ReaderOnly, gate, threads, thread
  <1>5. ASSUME Poll
        PROVE  RecordInv'
    BY <1>5, StreamFacts DEF GInv, Poll, Types, RecordInv, MainInv, Over, Held, ChildHolds, Main, Moves, ReaderOnly, gate, threads, thread
  <1>6. ASSUME Term
        PROVE  RecordInv'
    BY <1>6, StreamFacts DEF GInv, Term, Types, RecordInv, MainInv, Over, Held, ChildHolds, Main, Moves, ReaderOnly, gate, threads, thread
  <1>7. ASSUME GraceOver
        PROVE  RecordInv'
    BY <1>7, StreamFacts DEF GInv, GraceOver, Types, RecordInv, MainInv, Over, Held, ChildHolds, Main, Moves, ReaderOnly, gate, threads, thread
  <1>8. ASSUME Kill
        PROVE  RecordInv'
    BY <1>8, StreamFacts DEF GInv, Kill, Types, RecordInv, MainInv, Over, Held, ChildHolds, Main, Moves, ReaderOnly, gate, threads, thread
  <1>9. ASSUME Dies
        PROVE  RecordInv'
    BY <1>9, StreamFacts DEF GInv, Dies, Types, RecordInv, MainInv, Over, Held, ChildHolds, Main, Moves, ReaderOnly, gate, threads, thread
  <1>10. ASSUME KillUnanswered
        PROVE  RecordInv'
    BY <1>10, StreamFacts DEF GInv, KillUnanswered, Types, RecordInv, MainInv, Over, Held, ChildHolds, Main, Moves, ReaderOnly, gate, threads, thread
  <1>11. ASSUME NEW s \in Stream, Join(s)
        PROVE  RecordInv'
    BY <1>11, StreamFacts DEF GInv, Join, Types, RecordInv, MainInv, Over, Held, ChildHolds, Main, Moves, ReaderOnly, gate, threads, thread
  <1>12. ASSUME NEW s \in Stream, Close(s)
        PROVE  RecordInv'
    BY <1>12, StreamFacts DEF GInv, Close, Types, RecordInv, MainInv, Over, Held, ChildHolds, Main, Moves, ReaderOnly, gate, threads, thread
  <1>13. ASSUME NEW s \in Stream, Rejoin(s)
        PROVE  RecordInv'
    BY <1>13, StreamFacts DEF GInv, Rejoin, Types, RecordInv, MainInv, Over, Held, ChildHolds, Main, Moves, ReaderOnly, gate, threads, thread
  <1>14. ASSUME Record
        PROVE  RecordInv'
    <2> DEFINE f == [returncode |-> Returncode, truncated |-> Total(seen) > Total(kept),
                     errors |-> {s \in Stream : failed[s]}]
    <2>1. /\ main = "record" /\ main' = "hash" /\ footer' = {f}
          /\ UNCHANGED <<leader, code, timedOut, sent, kept>>
      BY <1>14 DEF Record, Main, gate, threads
    <2>2. f.returncode = 0 => leader = "exited" /\ code = 0 /\ ~timedOut
      BY <2>1 DEF GInv, TimeInv, Over, Returncode
    <2>3. ASSUME NEW s \in Stream, sent[s] > kept[s]
          PROVE  f.truncated \/ s \in f.errors
      <3>1. reader[s] = "ended"
        <4>1. leader # "none"
          BY <2>3, Sizes DEF GInv, MainInv, Types
        <4> QED
          BY <2>1, <4>1 DEF GInv, MainInv, Over
      <3>2. \A t \in Stream : kept[t] \in Nat /\ seen[t] \in Nat /\ kept[t] <= seen[t]
        BY KeptBelowSeen DEF GInv
      <3>3. CASE ~failed[s]
        <4>1. seen[s] = sent[s]
          BY <3>1, <3>3, Sizes DEF GInv, Drained, Flow, InFlight, Types
        <4>2. seen[s] > kept[s]
          BY <2>3, <4>1
        <4>3. "stdout" \in Stream /\ "stderr" \in Stream /\ s \in {"stdout", "stderr"}
          BY <2>3 DEF Stream
        <4>4. /\ kept["stdout"] \in Nat /\ seen["stdout"] \in Nat
              /\ kept["stderr"] \in Nat /\ seen["stderr"] \in Nat
              /\ kept["stdout"] <= seen["stdout"] /\ kept["stderr"] <= seen["stderr"]
          BY <3>2, <4>3
        <4>5. seen["stdout"] + seen["stderr"] > kept["stdout"] + kept["stderr"]
          <5>1. CASE s = "stdout"
            BY <5>1, <4>2, <4>4
          <5>2. CASE s = "stderr"
            BY <5>2, <4>2, <4>4
          <5> QED
            BY <4>3, <5>1, <5>2
        <4>6. Total(seen) > Total(kept)
          BY <4>5 DEF Total
        <4> QED
          BY <4>6
      <3>4. CASE failed[s]
        BY <3>4
      <3> QED
        BY <3>3, <3>4
    <2> HIDE DEF f
    <2> QED
      BY <2>1, <2>2, <2>3 DEF RecordInv
  <1>15. ASSUME Hash
        PROVE  RecordInv'
    BY <1>15, StreamFacts DEF GInv, Hash, Types, RecordInv, MainInv, Over, Held, ChildHolds, Main, Moves, ReaderOnly, gate, threads, thread
  <1>16. ASSUME NEW s \in Stream, CallRead(s)
        PROVE  RecordInv'
    BY <1>16, StreamFacts DEF GInv, CallRead, Types, RecordInv, MainInv, Over, Held, ChildHolds, Main, Moves, ReaderOnly, gate, threads, thread
  <1>17. ASSUME NEW s \in Stream, ReadChunk(s)
        PROVE  RecordInv'
    BY <1>17, StreamFacts DEF GInv, ReadChunk, Types, RecordInv, MainInv, Over, Held, ChildHolds, Main, Moves, ReaderOnly, gate, threads, thread
  <1>18. ASSUME NEW s \in Stream, ReadEnd(s)
        PROVE  RecordInv'
    BY <1>18, StreamFacts DEF GInv, ReadEnd, Types, RecordInv, MainInv, Over, Held, ChildHolds, Main, Moves, ReaderOnly, gate, threads, thread
  <1>19. ASSUME NEW s \in Stream, Look(s)
        PROVE  RecordInv'
    BY <1>19, StreamFacts DEF GInv, Look, Types, RecordInv, MainInv, Over, Held, ChildHolds, Main, Moves, ReaderOnly, gate, threads, thread
  <1>20. ASSUME NEW s \in Stream, WriteChunk(s)
        PROVE  RecordInv'
    BY <1>20, StreamFacts DEF GInv, WriteChunk, Types, RecordInv, MainInv, Over, Held, ChildHolds, Main, Moves, ReaderOnly, gate, threads, thread
  <1>21. ASSUME NEW s \in Stream, Write(s)
        PROVE  RecordInv'
    BY <1>21, StreamFacts DEF GInv, Write, Types, RecordInv, MainInv, Over, Held, ChildHolds, Main, Moves, ReaderOnly, gate, threads, thread
  <1>22. ASSUME LeaveChild
        PROVE  RecordInv'
    BY <1>22, StreamFacts DEF GInv, LeaveChild, Types, RecordInv, MainInv, Over, Held, ChildHolds, Main, Moves, ReaderOnly, gate, threads, thread
  <1>23. ASSUME Exit
        PROVE  RecordInv'
    BY <1>23, StreamFacts DEF GInv, Exit, Types, RecordInv, MainInv, Over, Held, ChildHolds, Main, Moves, ReaderOnly, gate, threads, thread
  <1>24. ASSUME ChildEnds
        PROVE  RecordInv'
    BY <1>24, StreamFacts DEF GInv, ChildEnds, Types, RecordInv, MainInv, Over, Held, ChildHolds, Main, Moves, ReaderOnly, gate, threads, thread
  <1>25. CASE UNCHANGED vars
    BY <1>25 DEF GInv, Types, RecordInv, MainInv, Over, Held, ChildHolds, vars, gate, threads, thread
  <1> QED
    BY <1>1, <1>2, <1>3, <1>4, <1>5, <1>6, <1>7, <1>8, <1>9, <1>10, <1>11, <1>12, <1>13, <1>14, <1>15, <1>16, <1>17, <1>18, <1>19, <1>20, <1>21, <1>22, <1>23, <1>24, <1>25
       DEF GNext, MainStep, Waits, Reader

LEMMA GInvInit == GInit => GInv
  <1> SUFFICES ASSUME GInit PROVE GInv
    OBVIOUS
  <1>1. Types
    <2>1. 0 \in 0..MaxOutput /\ 0 \in 0..Chunk
      BY Sizes
    <2>7. main \in Mains
      BY StreamFacts DEF GInit
    <2>2. /\ reader \in [Stream -> {"off", "top", "read", "wait", "write", "ended"}]
          /\ sent \in [Stream -> 0..MaxOutput] /\ pipe \in [Stream -> 0..MaxOutput]
      BY <2>1 DEF GInit
    <2>3. hand \in [Stream -> 0..Chunk] /\ room \in [Stream -> Int] /\ written \in Nat
      BY <2>1 DEF GInit
    <2>4. seen \in [Stream -> Nat] /\ kept \in [Stream -> Nat]
      BY DEF GInit
    <2>5. failed \in [Stream -> BOOLEAN] /\ closed \in [Stream -> BOOLEAN]
      BY DEF GInit
    <2>6. /\ leader \in {"none", "running", "dying", "exited", "killed"} /\ code \in {0, 1}
          /\ child \in {"none", "grouped", "escaped", "gone"}
          /\ timedOut \in BOOLEAN /\ terminated \in BOOLEAN
      BY DEF GInit
    <2> QED
      BY <2>2, <2>3, <2>4, <2>5, <2>6, <2>7 DEF Types
  <1>2. LockInv /\ WithinBudget /\ Flow /\ KeptInv /\ Drained
    BY Sizes DEF GInit, LockInv, WithinBudget, Flow, InFlight, KeptInv, Pending, Drained, Stream
  <1>3. MainInv /\ TimeInv /\ RecordInv
    BY StreamFacts DEF GInit, MainInv, TimeInv, RecordInv, Over, Signalling
  <1> QED
    BY <1>1, <1>2, <1>3 DEF GInv

LEMMA GInductive == GSpec => []GInv
  <1>1. GInv /\ [GNext]_vars => GInv'
    BY TypesKept, LockKept, BudgetKept, FlowKept, KeptKept, DrainedKept, MainKept, TimeKept,
       RecordKept DEF GInv
  <1> QED
    BY <1>1, GInvInit, PTL DEF GSpec

-----------------------------------------------------------------------------
(* The guarantees *)

\* Types, the lock, and the accounting of every unit of output.
THEOREM GateTypes == GSpec => []GateTypeOK
  <1>1. GInv => GateTypeOK
    <2> SUFFICES ASSUME GInv PROVE GateTypeOK
      OBVIOUS
    <2>1. ASSUME NEW s \in Stream
          PROVE  seen[s] + pipe[s] <= sent[s]
      <3>1. InFlight(s) \in Nat /\ pipe[s] \in Nat /\ sent[s] \in Nat /\ seen[s] \in Nat
        BY Sizes DEF GInv, Types, InFlight
      <3> QED
        BY <3>1 DEF GInv, Flow
    <2>2. \A s \in Stream : kept[s] <= seen[s]
      BY KeptBelowSeen DEF GInv
    <2>3. \A s \in Stream : reader[s] = "write" <=> lock = s
      BY DEF GInv, LockInv
    <2> QED
      BY <2>1, <2>2, <2>3 DEF GInv, Types, Mains, GateTypeOK
  <1> QED
    BY <1>1, GInductive, PTL

\* The two readers never put more into the evidence than the limit, because
\* each looks at the budget and writes under one lock.
THEOREM EvidenceWithinBudget == GSpec => []WithinBudget
  <1>1. GInv => WithinBudget
    BY DEF GInv
  <1> QED
    BY <1>1, GInductive, PTL

\* The completion record never keeps silent about output it does not hold.
THEOREM RecordTellsLoss == GSpec => []LossIsTold
  <1>1. GInv => LossIsTold
    BY DEF GInv, RecordInv, LossIsTold
  <1> QED
    BY <1>1, GInductive, PTL

\* A recorded exit 0 is the exit of the gate itself, before its timeout.
THEOREM RecordedPassEndedInTime == GSpec => []PassedEndedInTime
  <1>1. GInv => PassedEndedInTime
    BY DEF GInv, RecordInv, PassedEndedInTime
  <1> QED
    BY <1>1, GInductive, PTL

\* Once the completion record is written, no reader writes any more.
THEOREM RecordIsLast == GSpec => NothingAfterRecord
  <1>1. GInv /\ [GNext]_vars => [footer # {} => UNCHANGED <<written, footer>>]_vars
    <2> SUFFICES ASSUME GInv, GNext, footer # {}
                 PROVE  UNCHANGED <<written, footer>>
      OBVIOUS
    <2>1. main \in {"hash", "done"} /\ \A s \in Stream : reader[s] \in {"ended", "off"}
      BY DEF GInv, RecordInv, MainInv, Over
    <2>2. ASSUME NEW s \in Stream, Reader(s)
          PROVE  FALSE
      BY <2>1, <2>2 DEF Reader, CallRead, ReadChunk, ReadEnd, Look, WriteChunk, Moves
    <2>3. CASE MainStep \/ Waits
      BY <2>1, <2>3, StreamFacts
         DEF MainStep, Waits, Launch, LaunchFails, Poll, Term, Kill, Join, Close, Rejoin, Record, Hash,
             Expire, GraceOver, KillUnanswered, WaitExit, Main, threads
    <2>4. CASE Dies \/ LeaveChild \/ Exit \/ ChildEnds \/ \E s \in Stream : Write(s)
      BY <2>4 DEF Dies, LeaveChild, Exit, ChildEnds, Write, threads, thread
    <2> QED
      BY <2>2, <2>3, <2>4 DEF GNext
  <1> QED
    BY <1>1, GInductive, PTL DEF GSpec, NothingAfterRecord
=============================================================================
