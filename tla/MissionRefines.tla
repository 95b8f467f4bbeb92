--------------------------- MODULE MissionRefines ---------------------------
(***************************************************************************)
(* Where one command runs at a time and no write of the document is cut    *)
(* short, the mission loop implements the mission of the protocol: a whole *)
(* command takes effect at the moment it opens state.json to write it, and *)
(* what it has collected by then is what the protocol lets one command do. *)
(***************************************************************************)
EXTENDS MissionProofs

-----------------------------------------------------------------------------
(* What one command may make of the document *)

Done(d) == {ph \in Phase : d.phase[ph] = "done"}

\* Document d is st with some gates of phase ph run.
RunSoFar(st, d, ph) ==
    /\ \A g \in Gate : st.gate[g] = "passed" => d.gate[g] = "passed"
    /\ \A g \in Gate : g \notin GatesIn[ph] => d.gate[g] = st.gate[g]
    /\ OpenLoopbacks(d) = {g \in OpenLoopbacks(st) : d.gate[g] # "passed"}
    /\ Done(d) = Done(st) /\ d.stage = st.stage

\* The gates of phase ph up to place i have a verdict.
Judged(d, ph, i) ==
    \A j \in DOMAIN GatesOf[ph] : j <= i => d.gate[GatesOf[ph][j]] \in {"passed", "failed"}

RunMeets(st, d, ph) ==
    RunSoFar(st, d, ph) /\ \A j \in DOMAIN GatesOf[ph] :
                              d.gate[GatesOf[ph][j]] \in {"passed", "failed"}

FailMeets(st, d, g) ==
    /\ d.gate = [st.gate EXCEPT ![g] = "failed"]
    /\ OpenLoopbacks(d) = OpenLoopbacks(st) \cup {g}
    /\ d.stage \in Stages /\ d.stage <= st.stage /\ Done(d) = Done(st)

AdvanceMeets(st, d) ==
    /\ d.gate = st.gate /\ OpenLoopbacks(d) = OpenLoopbacks(st) /\ Done(d) = Done(st)
    /\ d.stage \in Stages /\ st.stage <= d.stage

CloseMeets(st, d, ph) ==
    /\ Closable(st, ph)
    /\ d.gate = st.gate /\ OpenLoopbacks(d) = OpenLoopbacks(st) /\ d.stage = st.stage
    /\ Done(d) = Done(st) \cup {ph}

Meets(st, d) ==
    \/ st = None /\ d = Fresh
    \/ /\ st \in Documents
       /\ \/ \E ph \in Phase : RunMeets(st, d, ph) \/ CloseMeets(st, d, ph)
          \/ \E g \in Gate : FailMeets(st, d, g)
          \/ AdvanceMeets(st, d)

Looping(s, e) == s = "execute" \/ (s \in Appending /\ e.event \in GateEvents)

\* The gate at hand has not run yet.
Before(s, e) == s = "execute" \/ e.event = "gate-start"

HalfRun(st, s, c, d, t, e) ==
    /\ st \in Documents
    /\ RunSoFar(st, d, c.phase)
    /\ Before(s, e) => d.gate[At(c, t)] # "passed" /\ Judged(d, c.phase, t - 1)
    /\ ~Before(s, e) => Judged(d, c.phase, t)

Effect(st, s, c, d, t, e) ==
    s \in Working \cup {"save"} =>
        IF Looping(s, e) THEN HalfRun(st, s, c, d, t, e) ELSE Meets(st, d)

VInv ==
    /\ \A p \in Process : pc[p] = "saving" => state = Empty
    /\ state = Empty => \E p \in Process : pc[p] = "saving"
    /\ \A p \in Process : Effect(state, pc[p], cmd[p], doc[p], turn[p], entry[p])

-----------------------------------------------------------------------------
(* The loop over the gates of a phase *)

\* The loop of process p, with document d, is over.
LoopOver(p, d) ==
    /\ pc' = [pc EXCEPT ![p] = "save"]
    /\ turn' = [turn EXCEPT ![p] = turn[p]]
    /\ entry' = [entry EXCEPT ![p] = entry[p]]
    /\ \A j \in DOMAIN GatesOf[cmd[p].phase] :
          d.gate[GatesOf[cmd[p].phase][j]] \in {"passed", "failed"}

\* It turns to the gate at place t.
TurnsTo(p, d, t) ==
    /\ pc' = [pc EXCEPT ![p] = "tip"]
    /\ turn' = [turn EXCEPT ![p] = t]
    /\ entry' = [entry EXCEPT ![p] = Opening(GateAt(p, t))]
    /\ d.gate[At(cmd[p], t)] # "passed"
    /\ Judged(d, cmd[p].phase, t - 1)

\* What the loop passes over has a verdict.
LEMMA ContinueJudged ==
    ASSUME NEW p \in Process, MInv, cmd[p].phase \in Phase, NEW d, NEW i \in Nat,
           Judged(d, cmd[p].phase, i), Continue(p, d, i)
    PROVE  LoopOver(p, d) \/ \E t \in DOMAIN GatesOf[cmd[p].phase] : TurnsTo(p, d, t)
  <1> DEFINE ph == cmd[p].phase
             left == ToRun(d, ph, i)
  <1>1. DOMAIN GatesOf[ph] \subseteq Nat
    BY PhaseShape
  <1>2. \A j \in DOMAIN GatesOf[ph] :
           j \notin left => d.gate[GatesOf[ph][j]] \in {"passed", "failed"}
    BY <1>1 DEF ToRun, Judged
  <1>3. left \subseteq DOMAIN GatesOf[ph] /\ left \subseteq Nat
        /\ \A j \in left : d.gate[At(cmd[p], j)] # "passed"
    BY <1>1 DEF ToRun, At
  <1>4. CASE left = {}
    <2>1. /\ pc' = [pc EXCEPT ![p] = "save"] /\ turn' = turn /\ entry' = entry
      BY <1>4 DEF Continue
    <2> QED
      BY <1>2, <1>4, <2>1, Shapes DEF LoopOver
  <1>5. CASE left # {}
    <2>1. /\ pc' = [pc EXCEPT ![p] = "tip"]
          /\ turn' = [turn EXCEPT ![p] = Least(left)]
          /\ entry' = [entry EXCEPT ![p] = Opening(GateAt(p, Least(left)))]
      BY <1>5 DEF Continue, Opening
    <2> HIDE DEF left
    <2>2. Least(left) \in left /\ \A j \in left : Least(left) <= j
      BY <1>3, <1>5, LeastExists
    <2> DEFINE t == Least(left)
    <2> HIDE DEF t
    <2>3. t \in left /\ t \in Nat /\ \A j \in left : t <= j
      BY <1>3, <2>2 DEF t
    <2>4. \A j \in DOMAIN GatesOf[ph] : j <= t - 1 => j \notin left
      BY <1>1, <2>3
    <2>5. Judged(d, ph, t - 1)
      BY <1>2, <2>4 DEF Judged
    <2> QED
      BY <1>3, <2>1, <2>3, <2>5 DEF t, TurnsTo
  <1> QED
    BY <1>4, <1>5

LEMMA RunStarts ==
    ASSUME NEW st \in Documents, Consistent(st), NEW ph \in Phase
    PROVE  RunSoFar(st, Started(st, ph), ph)
  <1>1. /\ \A q \in Phase : Started(st, ph).phase[q] = "done" <=> st.phase[q] = "done"
        /\ Started(st, ph).gate = st.gate /\ Started(st, ph).loopbacks = st.loopbacks
        /\ Started(st, ph).stage = st.stage
    BY StartedShape
  <1>2. OpenLoopbacks(Started(st, ph)) = OpenLoopbacks(st)
    BY <1>1, SameLoopbacks
  <1>3. \A g \in OpenLoopbacks(st) : st.gate[g] = "failed"
    BY DEF Consistent
  <1> QED
    BY <1>1, <1>2, <1>3 DEF RunSoFar, Done

\* A verdict on a gate of the phase that was not passed keeps the run one.
LEMMA RunGoesOn ==
    ASSUME NEW st \in Documents, NEW d \in Documents, NEW ph \in Phase, NEW g \in GatesIn[ph],
           NEW status \in {"passed", "failed"},
           RunSoFar(st, d, ph), d.gate[g] # "passed"
    PROVE  RunSoFar(st, Verdict(d, g, status), ph)
  <1> DEFINE v == Verdict(d, g, status)
  <1>1. g \in Gate
    BY PhaseShape
  <1>2. Rules(d, v, g, status)
    BY <1>1, VerdictRules
  <1>3. OpenLoopbacks(v) = IF status = "passed" THEN OpenLoopbacks(d) \ {g} ELSE OpenLoopbacks(d)
    BY <1>1, VerdictOpen
  <1>4. d.gate \in [Gate -> {"pending", "passed", "failed"}]
    BY DocumentShape
  <1>5. \A h \in OpenLoopbacks(st) : h \in Gate
    BY OpenGates
  <1> HIDE DEF v
  <1>6. \A h \in Gate : v.gate[h] = IF h = g THEN status ELSE d.gate[h]
    BY <1>2, <1>4 DEF Rules
  <1>7. Done(v) = Done(st) /\ v.stage = st.stage
    BY <1>2 DEF Done, Rules, RunSoFar
  <1>8. OpenLoopbacks(v) = {h \in OpenLoopbacks(st) : v.gate[h] # "passed"}
    <2>1. OpenLoopbacks(d) = {h \in OpenLoopbacks(st) : d.gate[h] # "passed"}
      BY DEF RunSoFar
    <2>2. CASE status = "passed"
      BY <1>3, <1>5, <1>6, <2>1, <2>2
    <2>3. CASE status = "failed"
      BY <1>3, <1>5, <1>6, <2>1, <2>3
    <2> QED
      BY <2>2, <2>3
  <1>9. \A h \in Gate : st.gate[h] = "passed" => v.gate[h] = "passed"
    BY <1>6 DEF RunSoFar
  <1>10. \A h \in Gate : h \notin GatesIn[ph] => v.gate[h] = st.gate[h]
    BY <1>6 DEF RunSoFar
  <1> QED
    BY <1>7, <1>8, <1>9, <1>10 DEF RunSoFar, v

-----------------------------------------------------------------------------
(* Every step keeps the effect of a command in step with its document *)

LEMMA EffectStep ==
    ASSUME MInv, SInv, NEW p \in Process, Active(p), VInv,
           NEW s, NEW c, NEW d, NEW t, NEW e, Moves(p, s, c, d, t, e),
           Effect(state', s, c, d, t, e),
           s = "saving" => state' = Empty,
           state' = Empty => s = "saving"
    PROVE  VInv'
  <1>1. /\ pc \in [Process -> Steps]
        /\ cmd \in [Process -> Commands \cup {None}]
        /\ doc \in [Process -> Documents \cup {None}]
        /\ turn \in [Process -> Nat]
        /\ entry \in [Process -> Entry \cup {None}]
    BY DEF MInv, TypeOK, Steps, Carrying, Working, Appending, Entry
  <1>2. /\ pc' = [pc EXCEPT ![p] = s] /\ cmd' = [cmd EXCEPT ![p] = c]
        /\ doc' = [doc EXCEPT ![p] = d] /\ turn' = [turn EXCEPT ![p] = t]
        /\ entry' = [entry EXCEPT ![p] = e]
    BY DEF Moves, Step
  <1>3. /\ pc'[p] = s /\ cmd'[p] = c /\ doc'[p] = d /\ turn'[p] = t /\ entry'[p] = e
    BY <1>1, <1>2
  <1>4. \A q \in Process : q # p => pc'[q] = pc[q] /\ ~Active(q)
    BY <1>1, <1>2 DEF SInv, Alone
  <1>5. \A q \in Process : q # p => pc'[q] \notin Carrying
    BY <1>4 DEF Active, Ended, Carrying, Working, Appending
  <1>6. ASSUME NEW q \in Process
        PROVE  Effect(state', pc'[q], cmd'[q], doc'[q], turn'[q], entry'[q])
    <2>1. CASE q = p
      BY <1>3, <2>1
    <2>2. CASE q # p
      BY <1>5, <2>2 DEF Effect, Carrying
    <2> QED
      BY <2>1, <2>2
  <1>7. \A q \in Process : pc'[q] = "saving" => state' = Empty
    BY <1>3, <1>5 DEF Carrying
  <1>8. state' = Empty => \E q \in Process : pc'[q] = "saving"
    BY <1>3
  <1> QED
    BY <1>6, <1>7, <1>8 DEF VInv

\* Next to a process that is not writing, state.json is whole.
LEMMA WholeState ==
    ASSUME MInv, SInv, VInv, NEW p \in Process, Active(p), pc[p] # "saving"
    PROVE  state # Empty
  BY DEF VInv, SInv, Alone, Active, Ended

LEMMA EffectExit ==
    ASSUME MInv, SInv, VInv, NEW p \in Process, Active(p), NEW s \in Ended, Exit(p),
           pc' = [pc EXCEPT ![p] = s], state' # Empty
    PROVE  VInv'
  <1>1. cmd' = [cmd EXCEPT ![p] = cmd[p]]
    BY Shapes DEF Exit
  <1>2. Moves(p, s, cmd[p], None, 0, None)
    BY <1>1 DEF Moves, Step, Exit
  <1>3. Effect(state', s, cmd[p], None, 0, None)
    BY DEF Effect, Ended, Working, Appending
  <1> QED
    BY <1>2, <1>3, EffectStep DEF Ended

LEMMA EffectRefuse ==
    ASSUME MInv, SInv, VInv, NEW p \in Process,
           NEW from \in {"kickoff", "load", "check", "execute"}, Refuse(p, from)
    PROVE  VInv'
  <1>1. /\ pc[p] = from /\ pc' = [pc EXCEPT ![p] = "refused"] /\ Exit(p) /\ state' = state
    BY DEF Refuse, Goto
  <1>2. Active(p) /\ state # Empty
    BY <1>1, WholeState DEF Active, Ended
  <1> QED
    BY <1>1, <1>2, EffectExit DEF Ended

LEMMA EffectKickoff ==
    ASSUME MInv, SInv, VInv, NEW p \in Process, Kickoff(p)
    PROVE  VInv'
  <1>1. pc[p] = "kickoff" /\ pc' = [pc EXCEPT ![p] = "save"] /\ doc' = [doc EXCEPT ![p] = Fresh]
        /\ state = None /\ state' = state
    BY DEF Kickoff, Goto
  <1>2. Active(p) /\ tip[p] \in Nat /\ state # Empty
    BY <1>1, Facts, WholeState DEF Active, Ended, LocalTyped
  <1>3. Step(p, "save", cmd[p], Fresh, turn[p], entry[p], tip[p])
    BY <1>1, Shapes DEF Step, Kickoff
  <1>4. Moves(p, "save", cmd[p], Fresh, turn[p], entry[p])
    BY <1>2, <1>3 DEF Moves
  <1>5. Effect(state', "save", cmd[p], Fresh, turn[p], entry[p])
    BY <1>1 DEF Effect, Looping, Appending, Meets
  <1> QED
    BY <1>1, <1>2, <1>4, <1>5, EffectStep

LEMMA EffectBegin ==
    ASSUME MInv, SInv, VInv, NEW p \in Process, NEW op, Loads(p, op), NEW d,
           NEW event \in {"loopback", "stage-advance", "phase-close"}, NEW subject,
           Begin(p, d, event, subject),
           UNCHANGED <<state, ledger, approved, cmd, turn, tip>>,
           Meets(state, d)
    PROVE  VInv'
  <1> DEFINE e == [event |-> event, subject |-> subject]
  <1>1. pc' = [pc EXCEPT ![p] = "tip"] /\ doc' = [doc EXCEPT ![p] = d]
        /\ entry' = [entry EXCEPT ![p] = e]
    BY DEF Begin
  <1>2. e.event = event
    OBVIOUS
  <1> HIDE DEF e
  <1>3. pc[p] = "load" /\ Active(p) /\ tip[p] \in Nat /\ state # Empty
    BY LoadFacts DEF Loads, Active, Ended, Readable
  <1>4. Step(p, "tip", cmd[p], d, turn[p], e, tip[p])
    BY <1>1, Shapes DEF Step
  <1>5. Moves(p, "tip", cmd[p], d, turn[p], e)
    BY <1>3, <1>4 DEF Moves
  <1>6. Effect(state', "tip", cmd[p], d, turn[p], e)
    BY <1>2 DEF Effect, Looping, GateEvents
  <1> QED
    BY <1>3, <1>5, <1>6, EffectStep

LEMMA EffectCommand ==
    ASSUME MInv, SInv, VInv, NEW p \in Process, Fail(p) \/ Advance(p) \/ ClosePhase(p)
    PROVE  VInv'
  <1>1. CASE Fail(p)
    <2> DEFINE g == cmd[p].gate
               to == Target(cmd[p])
               d == Failed(state, g, to)
    <2>1. /\ Loads(p, "fail") /\ Begin(p, d, "loopback", g) /\ to <= state.stage
          /\ UNCHANGED <<state, ledger, approved, cmd, turn, tip>>
      BY <1>1 DEF Fail
    <2>2. g \in Gate /\ to \in Stages /\ state \in Documents
      BY <2>1, LoadFacts, CommandShape
    <2>3. /\ d.gate = [state.gate EXCEPT ![g] = "failed"] /\ d.phase = state.phase
          /\ d.stage = to /\ OpenLoopbacks(d) = OpenLoopbacks(state) \cup {g}
      BY <2>2, FailedShape, FailedOpen
    <2> HIDE DEF d, to
    <2>4. FailMeets(state, d, g)
      BY <2>1, <2>2, <2>3 DEF FailMeets, Done
    <2>5. Meets(state, d)
      BY <2>2, <2>4 DEF Meets
    <2> QED
      BY <2>1, <2>5, EffectBegin
  <1>2. CASE Advance(p)
    <2> DEFINE to == cmd[p].to
               d == Advanced(state, to)
    <2>1. /\ Loads(p, "advance") /\ Begin(p, d, "stage-advance", None) /\ to >= state.stage
          /\ UNCHANGED <<state, ledger, approved, cmd, turn, tip>>
      BY <1>2 DEF Advance
    <2>2. to \in Stages /\ state \in Documents
      BY <2>1, LoadFacts, CommandShape
    <2>3. /\ d.gate = state.gate /\ d.phase = state.phase /\ d.stage = to
          /\ OpenLoopbacks(d) = OpenLoopbacks(state)
      BY <2>2, AdvancedShape, SameLoopbacks
    <2>4. state.stage \in Stages
      BY <2>2, DocumentShape
    <2> HIDE DEF d, to
    <2>5. AdvanceMeets(state, d)
      BY <2>1, <2>2, <2>3, <2>4 DEF AdvanceMeets, Done, Stages
    <2>6. Meets(state, d)
      BY <2>2, <2>5 DEF Meets
    <2> QED
      BY <2>1, <2>6, EffectBegin
  <1>3. CASE ClosePhase(p)
    <2> DEFINE ph == cmd[p].phase
               d == Closed(state, ph)
    <2>1. /\ Loads(p, "close") /\ Begin(p, d, "phase-close", ph) /\ Closable(state, ph)
          /\ UNCHANGED <<state, ledger, approved, cmd, turn, tip>>
      BY <1>3 DEF ClosePhase
    <2>2. ph \in Phase /\ state \in Documents
      BY <2>1, LoadFacts, CommandShape
    <2>3. /\ d.gate = state.gate /\ d.phase = [state.phase EXCEPT ![ph] = "done"]
          /\ d.stage = state.stage /\ OpenLoopbacks(d) = OpenLoopbacks(state)
      BY <2>2, ClosedShape, SameLoopbacks
    <2>4. state.phase \in [Phase -> {"pending", "in_progress", "done"}]
      BY <2>2, DocumentShape
    <2> HIDE DEF d
    <2>5. Done(d) = Done(state) \cup {ph}
      BY <2>2, <2>3, <2>4 DEF Done
    <2>6. CloseMeets(state, d, ph)
      BY <2>1, <2>3, <2>5 DEF CloseMeets
    <2>7. Meets(state, d)
      BY <2>2, <2>6 DEF Meets
    <2> QED
      BY <2>1, <2>7, EffectBegin
  <1> QED
    BY <1>1, <1>2, <1>3

\* A command that goes on from the gates up to place i.
LEMMA EffectContinue ==
    ASSUME MInv, SInv, VInv, NEW p \in Process, Active(p), NEW d, NEW f, NEW i \in Nat,
           cmd[p].phase \in Phase, state \in Documents,
           RunSoFar(state, d, cmd[p].phase), d.gate = f.gate, Judged(f, cmd[p].phase, i),
           Continue(p, f, i),
           doc' = [doc EXCEPT ![p] = d], cmd' = cmd, tip' = tip, state' = state, state # Empty
    PROVE  VInv'
  <1> DEFINE ph == cmd[p].phase
  <1>1. cmd' = [cmd EXCEPT ![p] = cmd[p]] /\ tip' = [tip EXCEPT ![p] = tip[p]] /\ tip[p] \in Nat
    BY Shapes, Facts DEF LocalTyped
  <1>2. CASE LoopOver(p, f)
    <2>1. Moves(p, "save", cmd[p], d, turn[p], entry[p])
      BY <1>1, <1>2 DEF Moves, Step, LoopOver
    <2>2. RunMeets(state, d, ph)
      BY <1>2 DEF RunMeets, LoopOver
    <2>3. Meets(state, d)
      BY <2>2 DEF Meets
    <2>4. Effect(state', "save", cmd[p], d, turn[p], entry[p])
      BY <2>3 DEF Effect, Looping, Appending
    <2> QED
      BY <2>1, <2>4, EffectStep
  <1>3. ASSUME NEW t \in DOMAIN GatesOf[ph], TurnsTo(p, f, t)
        PROVE  VInv'
    <2> DEFINE e == Opening(GateAt(p, t))
    <2>1. Moves(p, "tip", cmd[p], d, t, e)
      BY <1>1, <1>3 DEF Moves, Step, TurnsTo
    <2>2. e.event = "gate-start"
      BY DEF Opening
    <2> HIDE DEF e
    <2>3. HalfRun(state, "tip", cmd[p], d, t, e)
      BY <1>3, <2>2 DEF HalfRun, Before, Judged, TurnsTo
    <2>4. Effect(state', "tip", cmd[p], d, t, e)
      BY <2>2, <2>3 DEF Effect, Looping, Appending, GateEvents
    <2> QED
      BY <2>1, <2>4, EffectStep
  <1> QED
    BY <1>2, <1>3, ContinueJudged

LEMMA EffectRunGates ==
    ASSUME MInv, SInv, VInv, NEW p \in Process, RunGates(p)
    PROVE  VInv'
  <1> DEFINE ph == cmd[p].phase
             d == Started(state, ph)
  <1>1. /\ Loads(p, "run") /\ Continue(p, state, 0) /\ doc' = [doc EXCEPT ![p] = d]
        /\ cmd' = cmd /\ tip' = tip /\ state' = state
    BY DEF RunGates
  <1>2. ph \in Phase /\ state \in Documents /\ Consistent(state)
    BY <1>1, LoadFacts, CommandShape
  <1>3. d.gate = state.gate /\ RunSoFar(state, d, ph)
    BY <1>2, StartedShape, RunStarts
  <1>4. Active(p) /\ state # Empty
    BY <1>1 DEF Loads, Readable, Active, Ended
  <1>5. Judged(state, ph, 0)
    <2>1. \A j \in DOMAIN GatesOf[ph] : j >= 1
      <3>1. GatesOf[ph] \in Seq(GatesIn[ph])
        BY <1>2, MissionAssumption
      <3> QED
        BY <3>1
    <2>2. DOMAIN GatesOf[ph] \subseteq Nat
      BY <1>2, PhaseShape
    <2> QED
      BY <2>1, <2>2 DEF Judged
  <1> HIDE DEF d
  <1> QED
    BY <1>1, <1>2, <1>3, <1>4, <1>5, EffectContinue

LEMMA EffectWait ==
    ASSUME MInv, SInv, VInv, NEW p \in Process, ReadTip(p) \/ CheckTip(p)
    PROVE  VInv'
  <1>1. ASSUME pc[p] \in Appending, NEW s \in Appending, NEW n \in Nat,
               pc' = [pc EXCEPT ![p] = s], tip' = [tip EXCEPT ![p] = n],
               UNCHANGED <<state, ledger, cmd, doc, turn, entry>>
        PROVE  VInv'
    <2>1. Active(p) /\ state # Empty
      BY <1>1, WholeState DEF Active, Ended, Appending
    <2>2. Moves(p, s, cmd[p], doc[p], turn[p], entry[p])
      BY <1>1, Shapes DEF Moves, Step
    <2>3. Effect(state, pc[p], cmd[p], doc[p], turn[p], entry[p])
      BY DEF VInv
    <2>4. Effect(state', s, cmd[p], doc[p], turn[p], entry[p])
      BY <1>1, <2>3 DEF Effect, Looping, HalfRun, Before, Working, Appending
    <2> QED
      BY <1>1, <2>1, <2>2, <2>4, EffectStep DEF Appending
  <1>2. CASE ReadTip(p)
    <2>1. Len(ledger) \in Nat
      BY Facts DEF Ledgers
    <2> QED
      BY <1>1, <1>2, <2>1 DEF ReadTip, Goto, Appending
  <1>3. CASE Refuse(p, "check")
    BY <1>3, EffectRefuse
  <1>4. CASE Goto(p, "check", "append") /\ UNCHANGED <<state, ledger, approved, local>>
    <2>1. tip[p] \in Nat /\ tip' = [tip EXCEPT ![p] = tip[p]]
      BY <1>4, Facts, Shapes DEF LocalTyped, local, memory
    <2> QED
      BY <1>1, <1>4, <2>1 DEF Goto, Appending, local, memory
  <1> QED
    BY <1>2, <1>3, <1>4 DEF CheckTip

LEMMA EffectAppend ==
    ASSUME MInv, SInv, VInv, NEW p \in Process, AppendEntry(p)
    PROVE  VInv'
  <1>1. /\ pc[p] = "append" /\ state' = state /\ cmd' = cmd /\ doc' = doc /\ tip' = tip
        /\ tip[p] \in Nat /\ turn[p] \in Nat
        /\ entry[p].event \in GateEvents => AtGate(cmd[p], turn[p])
    BY AppendFacts DEF AppendEntry
  <1>2. Active(p) /\ state # Empty
    BY <1>1, WholeState DEF Active, Ended
  <1>3. /\ cmd' = [cmd EXCEPT ![p] = cmd[p]] /\ doc' = [doc EXCEPT ![p] = doc[p]]
        /\ tip' = [tip EXCEPT ![p] = tip[p]]
    BY <1>1, Shapes
  <1>4. Effect(state, "append", cmd[p], doc[p], turn[p], entry[p])
    BY <1>1 DEF VInv
  <1>5. /\ entry[p].event \in GateEvents =>
              HalfRun(state, "append", cmd[p], doc[p], turn[p], entry[p])
        /\ entry[p].event \notin GateEvents => Meets(state, doc[p])
    BY <1>4 DEF Effect, Looping, Working, Appending
  <1>6. CASE /\ entry[p].event = "gate-start"
             /\ pc' = [pc EXCEPT ![p] = "execute"] /\ UNCHANGED <<turn, entry>>
    <2>1. Moves(p, "execute", cmd[p], doc[p], turn[p], entry[p])
      BY <1>1, <1>3, <1>6, Shapes DEF Moves, Step
    <2>2. Effect(state', "execute", cmd[p], doc[p], turn[p], entry[p])
      BY <1>1, <1>5, <1>6 DEF Effect, Looping, HalfRun, Before, GateEvents
    <2> QED
      BY <1>1, <1>2, <2>1, <2>2, EffectStep
  <1>7. CASE entry[p].event \in {"gate-passed", "gate-failed"} /\ Continue(p, doc[p], turn[p])
    <2>1. cmd[p].phase \in Phase
      BY <1>1, <1>7 DEF AtGate, GateEvents
    <2>2. /\ state \in Documents /\ RunSoFar(state, doc[p], cmd[p].phase)
          /\ Judged(doc[p], cmd[p].phase, turn[p])
      BY <1>5, <1>7 DEF HalfRun, Before, GateEvents
    <2> QED
      BY <1>1, <1>2, <1>3, <1>7, <2>1, <2>2, EffectContinue
  <1>8. CASE /\ entry[p].event \notin {"gate-start", "gate-passed", "gate-failed"}
             /\ pc' = [pc EXCEPT ![p] = "save"] /\ UNCHANGED <<turn, entry>>
    <2>1. Moves(p, "save", cmd[p], doc[p], turn[p], entry[p])
      BY <1>1, <1>3, <1>8, Shapes DEF Moves, Step
    <2>2. Effect(state', "save", cmd[p], doc[p], turn[p], entry[p])
      BY <1>1, <1>5, <1>8 DEF Effect, Looping, Appending, GateEvents
    <2> QED
      BY <1>1, <1>2, <2>1, <2>2, EffectStep
  <1> QED
    BY <1>6, <1>7, <1>8 DEF AppendEntry

LEMMA EffectExecute ==
    ASSUME MInv, SInv, VInv, NEW p \in Process, NEW passed \in BOOLEAN, ExecuteGate(p, passed)
    PROVE  VInv'
  <1> DEFINE g == GateAt(p, turn[p])
             ph == cmd[p].phase
  <1>1. PICK status \in {"passed", "failed"} :
              /\ pc[p] = "execute" /\ pc' = [pc EXCEPT ![p] = "tip"]
              /\ doc' = [doc EXCEPT ![p] = Verdict(doc[p], g, status)]
              /\ entry' = [entry EXCEPT ![p] = Closing(g, status)]
              /\ UNCHANGED <<state, ledger, approved, cmd, turn, tip>>
    BY ExecuteShape
  <1> DEFINE v == Verdict(doc[p], g, status)
             e == Closing(g, status)
  <1>2. /\ Sound(ledger, "execute", cmd[p], doc[p], turn[p], entry[p])
        /\ tip[p] \in Nat /\ turn[p] \in Nat /\ Active(p) /\ state # Empty
    BY <1>1, Facts, WholeState DEF LocalTyped, Active, Ended
  <1>3. Moves(p, "tip", cmd[p], v, turn[p], e)
    BY <1>1, <1>2, Shapes DEF Moves, Step
  <1>4. doc[p] \in Documents /\ AtGate(cmd[p], turn[p])
    BY <1>2 DEF Sound, Carrying, Working
  <1>5. /\ ph \in Phase /\ turn[p] \in DOMAIN GatesOf[ph] /\ g \in GatesIn[ph] /\ g \in Gate
        /\ g = GatesOf[ph][turn[p]] /\ At(cmd[p], turn[p]) = g
    BY <1>4, GateShape DEF AtGate, At, GateAt
  <1> HIDE DEF g
  <1>6. HalfRun(state, "execute", cmd[p], doc[p], turn[p], entry[p])
    BY <1>1 DEF VInv, Effect, Looping, Working
  <1>7. /\ state \in Documents /\ RunSoFar(state, doc[p], ph)
        /\ doc[p].gate[g] # "passed" /\ Judged(doc[p], ph, turn[p] - 1)
    BY <1>5, <1>6 DEF HalfRun, Before
  <1>8. Rules(doc[p], v, g, status) /\ RunSoFar(state, v, ph)
    BY <1>4, <1>5, <1>7, VerdictRules, RunGoesOn
  <1>9. doc[p].gate \in [Gate -> {"pending", "passed", "failed"}]
    BY <1>4, DocumentShape
  <1>10. e.event \in {"gate-passed", "gate-failed"}
    BY DEF Closing
  <1> HIDE DEF v, e
  <1>11. \A h \in Gate : v.gate[h] = IF h = g THEN status ELSE doc[p].gate[h]
    BY <1>5, <1>8, <1>9 DEF Rules
  <1>12. Judged(v, ph, turn[p])
    <2> SUFFICES ASSUME NEW j \in DOMAIN GatesOf[ph], j <= turn[p]
                 PROVE  v.gate[GatesOf[ph][j]] \in {"passed", "failed"}
      BY DEF Judged
    <2>1. j \in Nat /\ GatesOf[ph][j] \in Gate
      BY <1>5, PhaseShape
    <2>2. CASE j = turn[p]
      BY <1>1, <1>5, <1>11, <2>2
    <2>3. CASE j # turn[p]
      <3>1. j <= turn[p] - 1
        BY <1>2, <2>1, <2>3
      <3>2. doc[p].gate[GatesOf[ph][j]] \in {"passed", "failed"}
        BY <1>7, <3>1 DEF Judged
      <3> QED
        BY <1>1, <1>11, <2>1, <3>2
    <2> QED
      BY <2>2, <2>3
  <1>13. HalfRun(state, "tip", cmd[p], v, turn[p], e)
    BY <1>7, <1>8, <1>10, <1>12 DEF HalfRun, Before
  <1>14. Effect(state', "tip", cmd[p], v, turn[p], e)
    BY <1>1, <1>10, <1>13 DEF Effect, Looping, Appending, GateEvents
  <1> QED
    BY <1>1, <1>2, <1>3, <1>14, EffectStep

LEMMA EffectSave ==
    ASSUME MInv, SInv, VInv, NEW p \in Process, SaveOpen(p) \/ SaveWrite(p)
    PROVE  VInv'
  <1>1. CASE SaveOpen(p)
    <2>1. /\ pc[p] = "save" /\ pc' = [pc EXCEPT ![p] = "saving"] /\ state' = Empty
          /\ UNCHANGED <<ledger, approved, cmd, doc, turn, entry, tip>>
      BY <1>1 DEF SaveOpen, Goto, local, memory
    <2>2. Active(p) /\ tip[p] \in Nat
      BY <2>1, Facts DEF LocalTyped, Active, Ended
    <2>3. Moves(p, "saving", cmd[p], doc[p], turn[p], entry[p])
      BY <2>1, <2>2, Shapes DEF Moves, Step
    <2>4. Effect(state', "saving", cmd[p], doc[p], turn[p], entry[p])
      BY DEF Effect, Working, Appending
    <2> QED
      BY <2>1, <2>2, <2>3, <2>4, EffectStep
  <1>2. CASE SaveWrite(p)
    <2>1. /\ pc[p] = "saving" /\ pc' = [pc EXCEPT ![p] = "done"] /\ Exit(p)
          /\ (state' = doc[p] \/ (state # Empty /\ state' = Garbled))
      BY <1>2 DEF SaveWrite, Goto
    <2>2. Active(p) /\ state = Empty /\ doc[p] \in Documents
      BY <2>1, SaveFacts DEF Active, Ended, VInv
    <2>3. state' # Empty
      BY <2>1, <2>2, NullsAssumption
    <2> QED
      BY <2>1, <2>2, <2>3, EffectExit DEF Ended
  <1> QED
    BY <1>1, <1>2

LEMMA EffectDie ==
    ASSUME MInv, SInv, VInv, "tear" \notin Faults, NEW p \in Process, Die(p)
    PROVE  /\ VInv'
           /\ pc[p] # "saving" /\ state' = state
  <1>1. /\ Active(p) /\ pc[p] # "saving" /\ pc' = [pc EXCEPT ![p] = "dead"] /\ Exit(p)
        /\ state' = state
    BY DEF Die
  <1>2. state # Empty
    BY <1>1, WholeState
  <1> QED
    BY <1>1, <1>2, EffectExit DEF Ended

LEMMA EffectNext ==
    ASSUME AtOnce = 1, "tear" \notin Faults, MInv, SInv, VInv, [Next]_vars
    PROVE  VInv'
  <1>0. pc \in [Process -> Steps]
    BY DEF MInv, TypeOK, Steps, Carrying, Working, Appending
  <1>1. CASE Drift \/ vars' = vars
    <2>1. /\ pc' = pc /\ cmd' = cmd /\ doc' = doc /\ turn' = turn /\ entry' = entry
          /\ state' = state
      BY <1>1 DEF Drift, vars, local, memory
    <2> QED
      BY <2>1 DEF VInv
  <1>2. ASSUME NEW p \in Process, NEW c \in Commands, Start(p, c)
        PROVE  VInv'
    <2>1. PICK s \in {"kickoff", "load"} : pc' = [pc EXCEPT ![p] = s]
      BY <1>2 DEF Start, Goto
    <2>2. state' = state
      BY <1>2 DEF Start
    <2>3. pc'[p] = s /\ \A q \in Process : q # p => pc'[q] = pc[q]
      BY <1>0, <2>1
    <2>4. \A q \in Process : pc[q] \in Ended \cup {"idle"}
      BY <1>2, StartsAlone DEF Active
    <2>5. \A q \in Process : pc'[q] \notin Carrying /\ pc[q] # "saving"
      BY <2>3, <2>4 DEF Ended, Carrying, Working, Appending
    <2>6. \A q \in Process :
             Effect(state', pc'[q], cmd'[q], doc'[q], turn'[q], entry'[q])
      BY <2>5 DEF Effect, Carrying
    <2>7. state # Empty
      BY <2>5 DEF VInv
    <2> QED
      BY <2>2, <2>5, <2>6, <2>7 DEF VInv, Carrying
  <1>3. ASSUME NEW p \in Process, Acts(p)
        PROVE  VInv'
    <2>1. CASE Kickoff(p) \/ KickoffRefuse(p) \/ LoadRefuse(p)
      BY <2>1, EffectKickoff, EffectRefuse DEF KickoffRefuse, LoadRefuse
    <2>2. CASE RunGates(p) \/ Fail(p) \/ Advance(p) \/ ClosePhase(p)
      BY <2>2, EffectRunGates, EffectCommand
    <2>3. CASE FailRefuse(p) \/ AdvanceRefuse(p) \/ CloseRefuse(p) \/ CustodyLost(p)
      BY <2>3, EffectRefuse DEF FailRefuse, AdvanceRefuse, CloseRefuse, CustodyLost
    <2>4. CASE ReadTip(p) \/ CheckTip(p) \/ AppendEntry(p)
      BY <2>4, EffectWait, EffectAppend
    <2>5. CASE \E passed \in BOOLEAN : ExecuteGate(p, passed)
      BY <2>5, EffectExecute
    <2>6. CASE SaveOpen(p) \/ SaveWrite(p) \/ Die(p)
      BY <2>6, EffectSave, EffectDie
    <2> QED
      BY <1>3, <2>1, <2>2, <2>3, <2>4, <2>5, <2>6 DEF Acts
  <1> QED
    BY <1>1, <1>2, <1>3, NextShape

-----------------------------------------------------------------------------
(* The mission of the protocol *)

\* The state of the protocol's mission that a document stands for.
VerdictOf(v) == IF v = None THEN None ELSE v.gate
FailuresOf(v) == IF v = None THEN {} ELSE OpenLoopbacks(v)
ClosedOf(v) == IF v = None THEN {} ELSE {ph \in Phase : v.phase[ph] = "done"}
StageOf(v) == IF v = None THEN 2 ELSE v.stage

\* A run of phase ph with these results turns verdicts v and failures f into w and h.
RunResult(v, f, w, h, ph, result) ==
    /\ \A g \in GatesIn[ph] : v[g] = "passed" => result[g] = "passed"
    /\ w = [g \in Gate |-> IF g \in GatesIn[ph] THEN result[g] ELSE v[g]]
    /\ h = {g \in f : w[g] # "passed"}

\* One step of the protocol from document st to document d.
Protocols(st, d) ==
    \/ /\ VerdictOf(st) = None
       /\ VerdictOf(d) = [g \in Gate |-> "pending"]
       /\ FailuresOf(d) = FailuresOf(st) /\ ClosedOf(d) = ClosedOf(st) /\ StageOf(d) = StageOf(st)
    \/ /\ VerdictOf(st) # None
       /\ StageOf(d) \in StageOf(st)..7
       /\ VerdictOf(d) = VerdictOf(st) /\ FailuresOf(d) = FailuresOf(st)
       /\ ClosedOf(d) = ClosedOf(st)
    \/ \E ph \in Phase :
          /\ VerdictOf(st) # None
          /\ \E result \in [GatesIn[ph] -> {"passed", "failed"}] :
                RunResult(VerdictOf(st), FailuresOf(st), VerdictOf(d), FailuresOf(d), ph, result)
          /\ ClosedOf(d) = ClosedOf(st) /\ StageOf(d) = StageOf(st)
    \/ \E ph \in Phase :
          /\ VerdictOf(st) # None
          /\ \A g \in GatesIn[ph] : VerdictOf(st)[g] = "passed" /\ g \notin FailuresOf(st)
          /\ ClosedOf(d) = ClosedOf(st) \cup {ph}
          /\ VerdictOf(d) = VerdictOf(st) /\ FailuresOf(d) = FailuresOf(st)
          /\ StageOf(d) = StageOf(st)
    \/ \E g \in Gate :
          /\ VerdictOf(st) # None
          /\ VerdictOf(d) = [VerdictOf(st) EXCEPT ![g] = "failed"]
          /\ FailuresOf(d) = FailuresOf(st) \cup {g}
          /\ StageOf(d) \in 0..StageOf(st)
          /\ ClosedOf(d) = ClosedOf(st)

\* What a command makes of the document is one step of the protocol.
LEMMA MeetsProtocol ==
    ASSUME NEW st, NEW d \in Documents, Meets(st, d)
    PROVE  Protocols(st, d)
  <1>1. d # None /\ d.gate \in [Gate -> {"pending", "passed", "failed"}]
    BY DocumentShape, NullsAssumption
  <1>2. /\ VerdictOf(d) = d.gate /\ FailuresOf(d) = OpenLoopbacks(d)
        /\ ClosedOf(d) = Done(d) /\ StageOf(d) = d.stage
    BY <1>1 DEF VerdictOf, FailuresOf, ClosedOf, StageOf, Done
  <1>3. CASE st = None /\ d = Fresh
    <2>1. VerdictOf(st) = None /\ FailuresOf(st) = {} /\ ClosedOf(st) = {} /\ StageOf(st) = 2
      BY <1>3 DEF VerdictOf, FailuresOf, ClosedOf, StageOf
    <2>2. d.gate = [g \in Gate |-> "pending"]
      BY <1>3 DEF Fresh
    <2>3. OpenLoopbacks(d) = {} /\ d.stage = 2 /\ Done(d) = {}
      BY <1>3, FreshShape DEF Done
    <2> QED
      BY <1>2, <2>1, <2>2, <2>3 DEF Protocols
  <1>4. CASE st \in Documents
    <2>1. st # None /\ st.gate \in [Gate -> {"pending", "passed", "failed"}]
          /\ st.gate # None /\ st.stage \in Stages
      BY <1>4, DocumentShape, NullsAssumption
    <2>2. /\ VerdictOf(st) = st.gate /\ FailuresOf(st) = OpenLoopbacks(st)
          /\ ClosedOf(st) = Done(st) /\ StageOf(st) = st.stage
      BY <2>1 DEF VerdictOf, FailuresOf, ClosedOf, StageOf, Done
    <2>3. ASSUME NEW ph \in Phase, RunMeets(st, d, ph)
          PROVE  Protocols(st, d)
      <3> DEFINE result == [g \in GatesIn[ph] |-> d.gate[g]]
      <3>1. \A g \in GatesIn[ph] : g \in Gate /\ d.gate[g] \in {"passed", "failed"}
        <4>1. \A g \in GatesIn[ph] : g \in Gate /\ \E j \in DOMAIN GatesOf[ph] : g = GatesOf[ph][j]
          BY PhaseShape DEF GatesIn
        <4> QED
          BY <2>3, <4>1 DEF RunMeets
      <3>2. result \in [GatesIn[ph] -> {"passed", "failed"}]
        BY <3>1
      <3>3. \A g \in GatesIn[ph] : st.gate[g] = "passed" => result[g] = "passed"
        BY <2>3, <3>1 DEF RunMeets, RunSoFar
      <3>4. d.gate = [g \in Gate |-> IF g \in GatesIn[ph] THEN result[g] ELSE st.gate[g]]
        BY <1>1, <2>3 DEF RunMeets, RunSoFar
      <3> HIDE DEF result
      <3>5. /\ OpenLoopbacks(d) = {g \in OpenLoopbacks(st) : d.gate[g] # "passed"}
            /\ Done(d) = Done(st) /\ d.stage = st.stage
        BY <2>3 DEF RunMeets, RunSoFar
      <3>6. RunResult(st.gate, OpenLoopbacks(st), d.gate, OpenLoopbacks(d), ph, result)
        BY <3>3, <3>4, <3>5 DEF RunResult
      <3> QED
        BY <1>2, <2>1, <2>2, <3>2, <3>5, <3>6 DEF Protocols
    <2>4. ASSUME NEW ph \in Phase, CloseMeets(st, d, ph)
          PROVE  Protocols(st, d)
      BY <1>2, <2>1, <2>2, <2>4 DEF CloseMeets, Closable, Protocols
    <2>5. ASSUME NEW g \in Gate, FailMeets(st, d, g)
          PROVE  Protocols(st, d)
      <3>1. d.stage \in 0..st.stage
        BY <2>1, <2>5 DEF FailMeets, Stages
      <3> QED
        BY <1>2, <2>1, <2>2, <2>5, <3>1 DEF FailMeets, Protocols
    <2>6. CASE AdvanceMeets(st, d)
      <3>1. d.stage \in st.stage..7
        BY <2>1, <2>6 DEF AdvanceMeets, Stages
      <3> QED
        BY <1>2, <2>1, <2>2, <2>6, <3>1 DEF AdvanceMeets, Protocols
    <2>7. st # None
      BY <2>1
    <2> QED
      BY <2>3, <2>4, <2>5, <2>6, <2>7 DEF Meets
  <1> QED
    BY <1>3, <1>4 DEF Meets

\* Each step of the mission loop is a step of the protocol, or none.
LEMMA ViewStep ==
    ASSUME AtOnce = 1, "tear" \notin Faults, MInv, SInv, VInv, Next
    PROVE  Protocols(View, View') \/ View' = View
  <1>0. pc \in [Process -> Steps]
    BY DEF MInv, TypeOK, Steps, Carrying, Working, Appending
  <1>1. ASSUME state' = state, state # Empty
        PROVE  View' = View
    BY <1>1 DEF View
  <1>2. CASE Drift
    <2>1. state' = state /\ pc' = pc /\ doc' = doc
      BY <1>2 DEF Drift, local, memory
    <2> QED
      BY <2>1 DEF View
  <1>3. ASSUME NEW p \in Process, NEW c \in Commands, Start(p, c)
        PROVE  View' = View
    <2>1. \A q \in Process : pc[q] # "saving"
      BY <1>3, StartsAlone DEF Active, Ended
    <2>2. state # Empty /\ state' = state
      BY <1>3, <2>1 DEF VInv, Start
    <2> QED
      BY <1>1, <2>2
  <1>4. ASSUME NEW p \in Process, SaveOpen(p)
        PROVE  Protocols(View, View')
    <2>1. /\ pc[p] = "save" /\ pc' = [pc EXCEPT ![p] = "saving"] /\ state' = Empty /\ doc' = doc
      BY <1>4 DEF SaveOpen, Goto, local, memory
    <2>2. Active(p) /\ state # Empty
      BY <2>1, WholeState DEF Active, Ended
    <2>3. \A q \in Process : q # p => pc[q] # "saving"
      BY <2>2 DEF SInv, Alone, Active, Ended
    <2>4. pc'[p] = "saving" /\ \A q \in Process : pc'[q] = "saving" => q = p
      BY <1>0, <2>1, <2>3
    <2>5. (CHOOSE q \in Process : pc'[q] = "saving") = p
      BY <2>4
    <2>6. View = state /\ View' = doc[p]
      BY <2>1, <2>2, <2>5 DEF View
    <2>7. Effect(state, "save", cmd[p], doc[p], turn[p], entry[p]) /\ doc[p] \in Documents
      BY <2>1, SaveFacts DEF VInv
    <2>8. Meets(state, doc[p])
      BY <2>7 DEF Effect, Looping, Appending
    <2> QED
      BY <2>6, <2>7, <2>8, MeetsProtocol
  <1>5. ASSUME NEW p \in Process, SaveWrite(p)
        PROVE  View' = View
    <2>1. /\ pc[p] = "saving" /\ (state' = doc[p] \/ (state # Empty /\ state' = Garbled))
      BY <1>5 DEF SaveWrite, Goto
    <2>2. Active(p) /\ state = Empty /\ doc[p] \in Documents
      BY <2>1, SaveFacts DEF Active, Ended, VInv
    <2>3. \A q \in Process : pc[q] = "saving" => q = p
      BY <2>2 DEF SInv, Alone, Active, Ended
    <2>4. (CHOOSE q \in Process : pc[q] = "saving") = p
      BY <2>1, <2>3
    <2>5. View = doc[p]
      BY <2>2, <2>4 DEF View
    <2>6. state' = doc[p] /\ state' # Empty
      BY <2>1, <2>2, NullsAssumption
    <2> QED
      BY <2>5, <2>6 DEF View
  <1>6. ASSUME NEW p \in Process, Die(p)
        PROVE  View' = View
    <2>1. Active(p) /\ pc[p] # "saving" /\ state' = state
      BY <1>6, EffectDie DEF Die
    <2> QED
      BY <1>1, <2>1, WholeState
  <1>7. ASSUME NEW p \in Process, Acts(p), ~SaveOpen(p), ~SaveWrite(p), ~Die(p)
        PROVE  View' = View
    <2>1. \A from : Refuse(p, from) => state' = state /\ pc[p] = from
      BY DEF Refuse, Goto
    <2>2. state' = state
      BY <1>7, <2>1 DEF Acts, Kickoff, KickoffRefuse, LoadRefuse, RunGates, Fail, FailRefuse,
            Advance, AdvanceRefuse, ClosePhase, CloseRefuse, ReadTip, CheckTip, AppendEntry,
            ExecuteGate, CustodyLost
    <2>3. pc[p] # "saving"
      BY <1>7, <2>1 DEF Acts, Kickoff, KickoffRefuse, LoadRefuse, RunGates, Fail, FailRefuse,
            Advance, AdvanceRefuse, ClosePhase, CloseRefuse, ReadTip, CheckTip, AppendEntry,
            ExecuteGate, CustodyLost, Goto, Loads
    <2>4. Active(p)
      BY <1>7, ActsShape
    <2> QED
      BY <1>1, <2>2, <2>3, <2>4, WholeState
  <1> QED
    BY <1>2, <1>3, <1>4, <1>5, <1>6, <1>7, NextShape

\* The variables of the protocol are functions of the view.
LEMMA ProtocolView ==
    ASSUME Protocols(View, View') \/ View' = View
    PROVE  [Protocol!Next]_<<VerdictOf(View), FailuresOf(View), ClosedOf(View), StageOf(View)>>
  <1>1. CASE View' = View
    BY <1>1 DEF VerdictOf, FailuresOf, ClosedOf, StageOf
  <1>2. CASE Protocols(View, View')
    BY <1>2 DEF Protocols, RunResult, Protocol!Next, Protocol!Kickoff, Protocol!Advance,
          Protocol!Run, Protocol!Close, Protocol!Fail, VerdictOf, FailuresOf, ClosedOf, StageOf
  <1> QED
    BY <1>1, <1>2

\* Where one command runs at a time and a kill never falls between the
\* truncation and the writing of state.json, the loop implements the mission
\* of the protocol: a failed gate stays on record until a run passes it, a
\* phase closes only over passed gates without open loopbacks, and the stage
\* goes back only together with a failure.
THEOREM SerialProtocol ==
    ASSUME AtOnce = 1, "tear" \notin Faults
    PROVE  Spec => FollowsProtocol
  <1>1. Init => SInv /\ VInv
    BY NullsAssumption
       DEF Init, SInv, Alone, Active, ChainIntact, Chaining, VInv, Effect, Working, Appending
  <1>2. MInv /\ SInv /\ VInv /\ [Next]_vars => SInv' /\ VInv'
    BY SerialStep, EffectNext
  <1>3. Init => Protocol!Init
    BY NullsAssumption DEF Init, Protocol!Init, View
  <1>4. MInv /\ SInv /\ VInv /\ [Next]_vars
           => [Protocol!Next]_<<VerdictOf(View), FailuresOf(View), ClosedOf(View), StageOf(View)>>
    <2> SUFFICES ASSUME MInv, SInv, VInv, [Next]_vars
                 PROVE  [Protocol!Next]_<<VerdictOf(View), FailuresOf(View), ClosedOf(View),
                                          StageOf(View)>>
      OBVIOUS
    <2>1. CASE Next
      BY <2>1, ViewStep, ProtocolView
    <2>2. CASE vars' = vars
      <3>1. View' = View
        BY <2>2 DEF vars, local, memory, View
      <3> QED
        BY <3>1, ProtocolView
    <2> QED
      BY <2>1, <2>2
  <1> QED
    BY <1>1, <1>2, <1>3, <1>4, MissionSound, PTL
       DEF Spec, FollowsProtocol, Protocol!Spec, VerdictOf, FailuresOf, ClosedOf, StageOf

-----------------------------------------------------------------------------
(* The repo is the memory *)

NoTail == state # Garbled

\* A writer that is alone finds the file it has truncated, and leaves no tail.
LEMMA NeverGarbled ==
    ASSUME MInv, SInv, VInv, [Next]_vars, NoTail
    PROVE  NoTail'
  <1>1. ASSUME NEW p \in Process, SaveWrite(p)
        PROVE  state' # Garbled
    <2>1. pc[p] = "saving" /\ (state' = doc[p] \/ state # Empty)
      BY <1>1 DEF SaveWrite, Goto
    <2>2. state = Empty /\ doc[p] \in Documents
      BY <2>1, SaveFacts DEF VInv
    <2> QED
      BY <2>1, <2>2, NullsAssumption
  <1>2. ASSUME NEW p \in Process, SaveOpen(p)
        PROVE  state' # Garbled
    BY <1>2, NullsAssumption DEF SaveOpen
  <1>3. ASSUME NEW p \in Process, Acts(p), ~SaveOpen(p), ~SaveWrite(p)
        PROVE  state' = state
    BY <1>3 DEF Acts, Kickoff, KickoffRefuse, LoadRefuse, RunGates, Fail, FailRefuse, Advance,
           AdvanceRefuse, ClosePhase, CloseRefuse, ReadTip, CheckTip, AppendEntry, ExecuteGate,
           CustodyLost, Die, Refuse
  <1>4. ASSUME NEW p \in Process, NEW c \in Commands, Start(p, c)
        PROVE  state' = state
    BY <1>4 DEF Start
  <1>5. ASSUME Drift \/ vars' = vars
        PROVE  state' = state
    BY <1>5 DEF Drift, vars
  <1>6. state # Garbled
    BY DEF NoTail
  <1>7. state' # Garbled
    BY <1>1, <1>2, <1>3, <1>4, <1>5, <1>6, NextShape
  <1> QED
    BY <1>7 DEF NoTail

\* "The repo is the memory" holds as long as one command runs at a time and
\* none is killed between truncating state.json and writing it: at any other
\* moment a session can resume from the tree. MissionTorn shows that kill.
THEOREM SerialMemory ==
    ASSUME AtOnce = 1, "tear" \notin Faults
    PROVE  Spec => []RepoIsTheMemory
  <1>1. Init => SInv /\ VInv /\ NoTail
    BY NullsAssumption
       DEF NoTail, Init, SInv, Alone, Active, ChainIntact, Chaining, VInv, Effect, Working, Appending
  <1>2. MInv /\ SInv /\ VInv /\ NoTail /\ [Next]_vars => SInv' /\ VInv' /\ NoTail'
    BY SerialStep, EffectNext, NeverGarbled
  <1>3. VInv /\ NoTail => RepoIsTheMemory
    <2> SUFFICES ASSUME VInv, NoTail, state # None,
                        \A p \in Process : pc[p] # "saving"
                 PROVE  state # Empty
      BY DEF NoTail, RepoIsTheMemory, Readable
    <2> QED
      BY DEF VInv
  <1> QED
    BY <1>1, <1>2, <1>3, MissionSound, PTL DEF Spec
=============================================================================
