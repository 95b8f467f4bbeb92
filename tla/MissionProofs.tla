--------------------------- MODULE MissionProofs ----------------------------
(***************************************************************************)
(* What the mission loop keeps, for any phases, gates and routes: however  *)
(* many commands overlap and die, nothing is called passed without a       *)
(* passing run in the ledger, and the document stays of one piece; where   *)
(* they run one after the other, the chain of the ledger is intact and its *)
(* last word stands.                                                       *)
(***************************************************************************)
EXTENDS Mission, SequenceTheorems, FiniteSetTheorems, WellFoundedInduction, TLAPS

-----------------------------------------------------------------------------
(* Positions *)

\* A set of positions has a least one.
LEMMA LeastExists ==
    ASSUME NEW S, S \subseteq Nat, S # {}
    PROVE  Least(S) \in S /\ \A j \in S : Least(S) <= j
  <1> DEFINE R == {ss \in Nat \X Nat : ss[1] < ss[2]}
  <1>1. IsWellFoundedOn(R, Nat)
    BY NatLessThanWellFounded DEF OpToRel
  <1>2. \A x, y \in Nat : x < y => <<x, y>> \in R
    OBVIOUS
  <1> HIDE DEF R
  <1>3. PICK x \in S : \A y \in S : ~(<<y, x>> \in R)
    BY <1>1, WFMin
  <1>4. \A y \in S : ~(y < x)
    BY <1>2, <1>3
  <1>5. \A y \in S : x <= y
    BY <1>4
  <1> QED
    BY <1>5 DEF Least

LEMMA PhaseShape ==
    /\ Len(Phases) \in Nat /\ Len(Phases) >= 1 /\ DOMAIN Phases = 1..Len(Phases)
    /\ \A i \in DOMAIN Phases : Phases[i] \in Phase
    /\ \A ph \in Phase : /\ DOMAIN GatesOf[ph] \subseteq Nat
                         /\ \A i \in DOMAIN GatesOf[ph] : GatesOf[ph][i] \in GatesIn[ph]
                         /\ GatesIn[ph] \subseteq Gate
                         /\ \A g \in GatesIn[ph] : g \in Gate
  <1>1. Phases \in Seq(Phase) /\ Phases # <<>>
    BY MissionAssumption
  <1>2. Len(Phases) \in Nat /\ Len(Phases) >= 1 /\ DOMAIN Phases = 1..Len(Phases)
    BY <1>1
  <1>3. ASSUME NEW ph \in Phase
        PROVE  /\ DOMAIN GatesOf[ph] \subseteq Nat
               /\ \A i \in DOMAIN GatesOf[ph] : GatesOf[ph][i] \in GatesIn[ph]
               /\ GatesIn[ph] \subseteq Gate
    <2>1. GatesOf[ph] \in Seq(GatesIn[ph])
      BY MissionAssumption
    <2>2. DOMAIN GatesOf[ph] = 1 .. Len(GatesOf[ph])
      BY <2>1
    <2>3. GatesIn[ph] \subseteq Gate
      BY DEF Gate
    <2> QED
      BY <2>1, <2>2, <2>3
  <1> QED
    BY <1>1, <1>2, <1>3

LEMMA FirstOpenTyped ==
    ASSUME NEW status
    PROVE  FirstOpen(status) \in Phase \cup {None}
  <1> DEFINE open == {i \in DOMAIN Phases : status[Phases[i]] # "done"}
  <1>1. CASE open = {}
    BY <1>1 DEF FirstOpen
  <1>2. CASE open # {}
    <2>1. open \subseteq Nat
      BY PhaseShape
    <2>2. Least(open) \in open
      BY <1>2, <2>1, LeastExists
    <2>3. Least(open) \in DOMAIN Phases
      BY <2>2
    <2>4. FirstOpen(status) = Phases[Least(open)]
      BY <1>2 DEF FirstOpen
    <2> QED
      BY <2>3, <2>4, PhaseShape
  <1> QED
    BY <1>1, <1>2

-----------------------------------------------------------------------------
(* The document *)

Loopback == [gate : Gate, resolved : BOOLEAN]

LEMMA DocumentShape ==
    ASSUME NEW d \in Documents
    PROVE  /\ d.phase \in [Phase -> {"pending", "in_progress", "done"}]
           /\ d.gate \in [Gate -> {"pending", "passed", "failed"}]
           /\ d.loopbacks \in Seq(Loopback)
           /\ d.stage \in Stages /\ d.cycle \in Nat \ {0} /\ d.active \in Phase \cup {None}
  BY DEF Documents, Loopback

Opened(g) == [gate |-> g, resolved |-> FALSE]

LEMMA FailedShape ==
    ASSUME NEW d \in Documents, NEW g \in Gate, NEW to \in Stages
    PROVE  /\ Failed(d, g, to) \in Documents
           /\ Failed(d, g, to).phase = d.phase /\ Failed(d, g, to).active = d.active
           /\ Failed(d, g, to).gate = [d.gate EXCEPT ![g] = "failed"]
           /\ Failed(d, g, to).loopbacks = Append(d.loopbacks, Opened(g))
           /\ Failed(d, g, to).stage = to
  <1>1. [d.gate EXCEPT ![g] = "failed"] \in [Gate -> {"pending", "passed", "failed"}]
    BY DocumentShape
  <1>2. Opened(g) \in Loopback
    BY DEF Loopback, Opened
  <1>3. Append(d.loopbacks, Opened(g)) \in Seq(Loopback)
    BY <1>2, DocumentShape
  <1>4. Failed(d, g, to) = [d EXCEPT !.gate = [d.gate EXCEPT ![g] = "failed"],
                                     !.loopbacks = Append(d.loopbacks, Opened(g)), !.stage = to]
    BY DEF Failed, Opened, Documents
  <1> QED
    BY <1>1, <1>3, <1>4 DEF Documents, Loopback

LEMMA FailedLoopbacks ==
    ASSUME NEW d \in Documents, NEW g \in Gate, NEW to \in Stages
    PROVE  Failed(d, g, to).loopbacks = Append(d.loopbacks, Opened(g))
  BY DEF Failed, Documents, Opened

LEMMA AdvancedShape ==
    ASSUME NEW d \in Documents, NEW to \in Stages
    PROVE  /\ Advanced(d, to) \in Documents
           /\ Advanced(d, to).phase = d.phase /\ Advanced(d, to).active = d.active
           /\ Advanced(d, to).gate = d.gate /\ Advanced(d, to).loopbacks = d.loopbacks
           /\ Advanced(d, to).stage = to
  <1> DEFINE c == IF to = 0 THEN d.cycle + 1 ELSE d.cycle
  <1>1. c \in Nat \ {0}
    BY DocumentShape
  <1>2. Advanced(d, to) = [d EXCEPT !.stage = to, !.cycle = c]
    BY DEF Advanced
  <1> HIDE DEF c
  <1> QED
    BY <1>1, <1>2 DEF Documents

LEMMA ClosedShape ==
    ASSUME NEW d \in Documents, NEW ph \in Phase
    PROVE  /\ Closed(d, ph) \in Documents
           /\ Closed(d, ph).phase = [d.phase EXCEPT ![ph] = "done"]
           /\ Closed(d, ph).active = FirstOpen(Closed(d, ph).phase)
           /\ Closed(d, ph).gate = d.gate /\ Closed(d, ph).loopbacks = d.loopbacks
           /\ Closed(d, ph).stage = d.stage
  <1> DEFINE status == [d.phase EXCEPT ![ph] = "done"]
  <1>1. status \in [Phase -> {"pending", "in_progress", "done"}]
    BY DocumentShape
  <1>2. FirstOpen(status) \in Phase \cup {None}
    BY FirstOpenTyped
  <1> HIDE DEF status
  <1>3. Closed(d, ph) = [d EXCEPT !.phase = status, !.active = FirstOpen(status)]
    BY DEF Closed, status
  <1> QED
    BY <1>1, <1>2, <1>3 DEF Documents, status

LEMMA StartedShape ==
    ASSUME NEW d \in Documents, NEW ph \in Phase
    PROVE  /\ Started(d, ph) \in Documents
           /\ \A q \in Phase : Started(d, ph).phase[q] = "done" <=> d.phase[q] = "done"
           /\ Started(d, ph).active = d.active
           /\ Started(d, ph).gate = d.gate /\ Started(d, ph).loopbacks = d.loopbacks
           /\ Started(d, ph).stage = d.stage
  BY DEF Started, Documents

Unresolved(l) == ~l.resolved

\* Document e holds the loopbacks of d, those of a passed gate resolved.
Resolves(d, e, g, status) ==
    /\ DOMAIN e.loopbacks = DOMAIN d.loopbacks
    /\ \A i \in DOMAIN d.loopbacks :
          /\ e.loopbacks[i].gate = d.loopbacks[i].gate
          /\ Unresolved(e.loopbacks[i]) <=>
                Unresolved(d.loopbacks[i]) /\ ~(status = "passed" /\ d.loopbacks[i].gate = g)

LEMMA VerdictShape ==
    ASSUME NEW d \in Documents, NEW g \in Gate, NEW status \in {"passed", "failed"}
    PROVE  /\ Verdict(d, g, status) \in Documents
           /\ Verdict(d, g, status).phase = d.phase /\ Verdict(d, g, status).active = d.active
           /\ Verdict(d, g, status).stage = d.stage
           /\ Resolves(d, Verdict(d, g, status), g, status)
  <1> DEFINE l == [i \in DOMAIN d.loopbacks |->
                      IF status = "passed" /\ d.loopbacks[i].gate = g
                      THEN [d.loopbacks[i] EXCEPT !.resolved = TRUE] ELSE d.loopbacks[i]]
  <1>1. d.loopbacks \in Seq(Loopback)
    BY DocumentShape
  <1>2. DOMAIN d.loopbacks = 1 .. Len(d.loopbacks) /\ Len(d.loopbacks) \in Nat
        /\ \A i \in DOMAIN d.loopbacks : d.loopbacks[i] \in Loopback
    BY <1>1
  <1>3. \A i \in DOMAIN d.loopbacks :
            /\ l[i] \in Loopback /\ l[i].gate = d.loopbacks[i].gate
            /\ Unresolved(l[i]) <=>
                  Unresolved(d.loopbacks[i]) /\ ~(status = "passed" /\ d.loopbacks[i].gate = g)
    BY <1>2 DEF Loopback, Unresolved
  <1>4. l \in Seq(Loopback)
    <2>1. l \in [1 .. Len(d.loopbacks) -> Loopback]
      BY <1>2, <1>3
    <2> HIDE DEF l
    <2> QED
      BY <1>2, <2>1
  <1>5. [d.gate EXCEPT ![g] = status] \in [Gate -> {"pending", "passed", "failed"}]
    BY DocumentShape
  <1>6. Verdict(d, g, status) = [d EXCEPT !.gate = [d.gate EXCEPT ![g] = status], !.loopbacks = l]
    BY DEF Verdict, Documents
  <1>7. DOMAIN l = DOMAIN d.loopbacks
    OBVIOUS
  <1> HIDE DEF l
  <1>8. /\ Verdict(d, g, status) \in Documents
        /\ Verdict(d, g, status).phase = d.phase /\ Verdict(d, g, status).active = d.active
        /\ Verdict(d, g, status).stage = d.stage
        /\ Verdict(d, g, status).gate = [d.gate EXCEPT ![g] = status]
        /\ Verdict(d, g, status).loopbacks = l
    BY <1>4, <1>5, <1>6 DEF Documents, Loopback
  <1>9. Resolves(d, Verdict(d, g, status), g, status)
    BY <1>3, <1>7, <1>8 DEF Resolves
  <1> QED
    BY <1>8, <1>9

LEMMA OpenShape ==
    ASSUME NEW d, NEW g
    PROVE  g \in OpenLoopbacks(d) <=>
               \E i \in DOMAIN d.loopbacks : Unresolved(d.loopbacks[i]) /\ d.loopbacks[i].gate = g
  BY DEF OpenLoopbacks, Unresolved

LEMMA OpenGates ==
    ASSUME NEW d \in Documents
    PROVE  \A g \in OpenLoopbacks(d) : g \in Gate
  <1>1. d.loopbacks \in Seq(Loopback)
    BY DocumentShape
  <1>2. \A i \in DOMAIN d.loopbacks : d.loopbacks[i] \in Loopback
    BY <1>1
  <1>3. \A i \in DOMAIN d.loopbacks : d.loopbacks[i].gate \in Gate
    BY <1>2 DEF Loopback
  <1> QED
    BY <1>3, OpenShape

LEMMA SameLoopbacks ==
    ASSUME NEW d, NEW e, e.loopbacks = d.loopbacks
    PROVE  OpenLoopbacks(e) = OpenLoopbacks(d)
  BY DEF OpenLoopbacks

LEMMA FailedOpen ==
    ASSUME NEW d \in Documents, NEW g \in Gate, NEW to \in Stages
    PROVE  OpenLoopbacks(Failed(d, g, to)) = OpenLoopbacks(d) \cup {g}
  <1> DEFINE e == Failed(d, g, to)
             r == Opened(g)
             n == Len(d.loopbacks)
  <1>1. d.loopbacks \in Seq(Loopback) /\ r \in Loopback
    BY DocumentShape DEF Loopback, Opened
  <1>2. e.loopbacks = Append(d.loopbacks, r)
    BY FailedLoopbacks
  <1>3. r.gate = g /\ Unresolved(r)
    BY DEF Opened, Unresolved
  <1> HIDE DEF r, e
  <1>4. /\ n \in Nat /\ DOMAIN d.loopbacks = 1..n /\ DOMAIN e.loopbacks = 1 .. n + 1
        /\ \A i \in 1..n : e.loopbacks[i] = d.loopbacks[i]
        /\ e.loopbacks[n + 1] = r
    BY <1>1, <1>2
  <1>5. ASSUME NEW h
        PROVE  h \in OpenLoopbacks(e) <=> h \in OpenLoopbacks(d) \/ h = g
    <2>1. ASSUME h \in OpenLoopbacks(e)
          PROVE  h \in OpenLoopbacks(d) \/ h = g
      <3>1. PICK i \in DOMAIN e.loopbacks : Unresolved(e.loopbacks[i]) /\ e.loopbacks[i].gate = h
        BY <2>1, OpenShape
      <3>2. CASE i = n + 1
        BY <1>3, <1>4, <3>1, <3>2
      <3>3. CASE i \in 1..n
        BY <1>4, <3>1, <3>3, OpenShape
      <3> QED
        BY <1>4, <3>1, <3>2, <3>3
    <2>2. ASSUME h \in OpenLoopbacks(d)
          PROVE  h \in OpenLoopbacks(e)
      <3>1. PICK i \in DOMAIN d.loopbacks : Unresolved(d.loopbacks[i]) /\ d.loopbacks[i].gate = h
        BY <2>2, OpenShape
      <3>2. i \in DOMAIN e.loopbacks /\ e.loopbacks[i] = d.loopbacks[i]
        BY <1>4, <3>1
      <3> QED
        BY <3>1, <3>2, OpenShape
    <2>3. g \in OpenLoopbacks(e)
      <3>1. n + 1 \in DOMAIN e.loopbacks
        BY <1>4
      <3> QED
        BY <1>3, <1>4, <3>1, OpenShape
    <2> QED
      BY <2>1, <2>2, <2>3
  <1> QED
    BY <1>5 DEF e

LEMMA VerdictOpen ==
    ASSUME NEW d \in Documents, NEW g \in Gate, NEW status \in {"passed", "failed"}
    PROVE  OpenLoopbacks(Verdict(d, g, status)) =
               IF status = "passed" THEN OpenLoopbacks(d) \ {g} ELSE OpenLoopbacks(d)
  <1> DEFINE e == Verdict(d, g, status)
  <1>1. Resolves(d, e, g, status)
    BY VerdictShape
  <1> HIDE DEF e
  <1>2. \A h : h \in OpenLoopbacks(e) <=>
                  h \in OpenLoopbacks(d) /\ ~(status = "passed" /\ h = g)
    BY <1>1, OpenShape DEF Resolves
  <1> QED
    BY <1>2 DEF e

LEMMA SameFirstOpen ==
    ASSUME NEW s, NEW t, \A ph \in Phase : s[ph] = "done" <=> t[ph] = "done"
    PROVE  FirstOpen(s) = FirstOpen(t)
  <1>1. \A i \in DOMAIN Phases : Phases[i] \in Phase
    BY PhaseShape
  <1>2. {i \in DOMAIN Phases : s[Phases[i]] # "done"} = {i \in DOMAIN Phases : t[Phases[i]] # "done"}
    BY <1>1
  <1> QED
    BY <1>2 DEF FirstOpen

LEMMA FreshShape ==
    /\ Fresh \in Documents
    /\ Fresh.active = FirstOpen(Fresh.phase)
    /\ OpenLoopbacks(Fresh) = {}
    /\ \A g \in Gate : Fresh.gate[g] = "pending"
    /\ \A ph \in Phase : Fresh.phase[ph] = "pending"
    /\ Fresh.stage = 2
  <1>1. 1 \in DOMAIN Phases /\ Phases[1] \in Phase
    BY PhaseShape
  <1>2. <<>> \in Seq(Loopback) /\ DOMAIN <<>> = {}
    OBVIOUS
  <1> DEFINE ps == [ph \in Phase |-> "pending"]
             gs == [g \in Gate |-> "pending"]
  <1>3. /\ ps \in [Phase -> {"pending", "in_progress", "done"}]
        /\ gs \in [Gate -> {"pending", "passed", "failed"}]
        /\ \A g \in Gate : gs[g] = "pending"
        /\ \A ph \in Phase : ps[ph] = "pending"
    OBVIOUS
  <1>4. Fresh = [phase |-> ps, gate |-> gs, loopbacks |-> <<>>, stage |-> 2, cycle |-> 1,
                 active |-> Phases[1]]
    BY DEF Fresh
  <1> HIDE DEF ps, gs
  <1>5. /\ Fresh.phase = ps /\ Fresh.gate = gs /\ Fresh.loopbacks = <<>>
        /\ Fresh.active = Phases[1] /\ Fresh.stage = 2
    BY <1>4
  <1>6. Fresh \in Documents
    BY <1>1, <1>2, <1>3, <1>4 DEF Documents, Stages, Loopback
  <1>7. FirstOpen(ps) = Phases[1]
    <2> DEFINE open == {i \in DOMAIN Phases : ps[Phases[i]] # "done"}
    <2>1. open = 1..Len(Phases) /\ Len(Phases) >= 1 /\ Len(Phases) \in Nat
      BY <1>3, PhaseShape
    <2>2. FirstOpen(ps) = IF open = {} THEN None ELSE Phases[Least(open)]
      BY DEF FirstOpen
    <2> HIDE DEF open
    <2>3. open # {} /\ open \subseteq Nat /\ 1 \in open
      BY <2>1
    <2>4. Least(open) \in open /\ Least(open) <= 1
      BY <2>3, LeastExists
    <2>5. Least(open) = 1
      BY <2>1, <2>4
    <2> QED
      BY <2>2, <2>3, <2>5
  <1>8. OpenLoopbacks(Fresh) = {}
    BY <1>2, <1>5, OpenShape
  <1> QED
    BY <1>3, <1>5, <1>6, <1>7, <1>8
-----------------------------------------------------------------------------
(* The inductive invariant: what a process carries from step to step *)

Entry == [event : Events, subject : Subjects]

GateEvents == {"gate-start", "gate-passed", "gate-failed"}

Appending == {"tip", "check", "append"}
Working == Appending \cup {"execute"}
Carrying == Working \cup {"save", "saving"}
Steps == Ended \cup {"idle", "kickoff", "load"} \cup Carrying

\* A passing run of gate g stands in ledger l.
Stands(l, g) ==
    \E i \in DOMAIN l : l[i].event = "gate-passed" /\ l[i].subject = g

\* Ledger m holds every passing run of ledger l.
Keeps(l, m) == \A g \in Gate : Stands(l, g) => Stands(m, g)

DoneStands(l, d) ==
    \A ph \in Phase : d.phase[ph] = "done" => \A g \in GatesIn[ph] : Stands(l, g)

PassedStands(l, d) == \A g \in Gate : d.gate[g] = "passed" => Stands(l, g)

Consistent(d) ==
    /\ d.active = FirstOpen(d.phase)
    /\ \A g \in OpenLoopbacks(d) : d.gate[g] = "failed"

\* The verdict a process has passed and is about to append.
Announces(s, e, g) == s \in Appending /\ e.event = "gate-passed" /\ e.subject = g

\* The gate loop of a command is at one of the gates of its phase.
AtGate(c, t) == c.phase \in Phase /\ t \in DOMAIN GatesOf[c.phase]

\* What holds of a process at step s with command c, document d, gate t and
\* entry e, next to ledger l.
Sound(l, s, c, d, t, e) ==
    /\ s # "idle" => c \in Commands
    /\ s \in Carrying =>
          /\ d \in Documents /\ Consistent(d) /\ DoneStands(l, d)
          /\ \A g \in Gate : d.gate[g] = "passed" => Stands(l, g) \/ Announces(s, e, g)
    /\ s \in Working => e \in Entry
    /\ s \in Appending /\ e.event \in GateEvents => AtGate(c, t)
    /\ s = "execute" => AtGate(c, t)

SoundState(l, d) ==
    d \notin {None, Empty, Garbled} =>
        Consistent(d) /\ PassedStands(l, d) /\ DoneStands(l, d)

MInv ==
    /\ TypeOK
    /\ SoundState(ledger, state)
    /\ \A p \in Process : Sound(ledger, pc[p], cmd[p], doc[p], turn[p], entry[p])

\* Process p goes to step s with command c, document d, gate t, entry e and
\* tip n.
Step(p, s, c, d, t, e, n) ==
    /\ pc' = [pc EXCEPT ![p] = s]
    /\ cmd' = [cmd EXCEPT ![p] = c]
    /\ doc' = [doc EXCEPT ![p] = d]
    /\ turn' = [turn EXCEPT ![p] = t]
    /\ entry' = [entry EXCEPT ![p] = e]
    /\ tip' = [tip EXCEPT ![p] = n]

LocalTyped(s, c, d, t, e, n) ==
    /\ s \in Steps /\ c \in Commands \cup {None} /\ d \in Documents \cup {None}
    /\ t \in Nat /\ e \in Entry \cup {None} /\ n \in Nat

Ledgers == Seq([event : Events, subject : Subjects, prev : Nat])

LEMMA SoundMonotone ==
    ASSUME NEW l, NEW m, Keeps(l, m), NEW s, NEW c, NEW d, NEW t, NEW e,
           Sound(l, s, c, d, t, e)
    PROVE  Sound(m, s, c, d, t, e)
  <1>1. \A ph \in Phase : \A g \in GatesIn[ph] : g \in Gate
    BY PhaseShape
  <1>2. DoneStands(l, d) => DoneStands(m, d)
    BY <1>1 DEF DoneStands, Keeps
  <1> QED
    BY <1>2 DEF Sound, Keeps

LEMMA SoundStateMonotone ==
    ASSUME NEW l, NEW m, Keeps(l, m), NEW d, SoundState(l, d)
    PROVE  SoundState(m, d)
  <1>1. \A ph \in Phase : \A g \in GatesIn[ph] : g \in Gate
    BY PhaseShape
  <1> QED
    BY <1>1 DEF SoundState, DoneStands, PassedStands, Keeps

LEMMA StepKeeps ==
    ASSUME MInv, NEW p \in Process,
           NEW s, NEW c, NEW d, NEW t, NEW e, NEW n,
           Step(p, s, c, d, t, e, n), LocalTyped(s, c, d, t, e, n),
           state' \in Documents \cup {None, Empty, Garbled},
           ledger' \in Ledgers, approved' \in BOOLEAN,
           Keeps(ledger, ledger'),
           SoundState(ledger', state'), Sound(ledger', s, c, d, t, e)
    PROVE  MInv'
  <1>1. /\ pc \in [Process -> Steps]
        /\ cmd \in [Process -> Commands \cup {None}]
        /\ doc \in [Process -> Documents \cup {None}]
        /\ turn \in [Process -> Nat]
        /\ entry \in [Process -> Entry \cup {None}]
        /\ tip \in [Process -> Nat]
    BY DEF MInv, TypeOK, Steps, Carrying, Working, Appending, Entry
  <1>2. pc' \in [Process -> Steps] /\ tip' \in [Process -> Nat] /\ turn' \in [Process -> Nat]
    BY <1>1 DEF Step, LocalTyped
  <1>3. cmd' \in [Process -> Commands \cup {None}]
    BY <1>1 DEF Step, LocalTyped
  <1>4. doc' \in [Process -> Documents \cup {None}]
    BY <1>1 DEF Step, LocalTyped
  <1>5. entry' \in [Process -> Entry \cup {None}]
    BY <1>1 DEF Step, LocalTyped
  <1>6. TypeOK'
    BY <1>2, <1>3, <1>4, <1>5 DEF TypeOK, Steps, Carrying, Working, Appending, Entry, Ledgers
  <1>7. ASSUME NEW q \in Process
        PROVE  Sound(ledger', pc'[q], cmd'[q], doc'[q], turn'[q], entry'[q])
    <2>1. CASE q = p
      <3>1. /\ pc'[q] = s /\ cmd'[q] = c /\ doc'[q] = d /\ turn'[q] = t /\ entry'[q] = e
        BY <1>1, <2>1 DEF Step
      <3> QED
        BY <3>1
    <2>2. CASE q # p
      <3>1. /\ pc'[q] = pc[q] /\ cmd'[q] = cmd[q] /\ doc'[q] = doc[q]
            /\ turn'[q] = turn[q] /\ entry'[q] = entry[q]
        BY <1>1, <2>2 DEF Step
      <3>2. Sound(ledger, pc[q], cmd[q], doc[q], turn[q], entry[q])
        BY DEF MInv
      <3>3. Sound(ledger', pc[q], cmd[q], doc[q], turn[q], entry[q])
        BY <3>2, SoundMonotone
      <3> QED
        BY <3>1, <3>3
    <2> QED
      BY <2>1, <2>2
  <1> QED
    BY <1>6, <1>7 DEF MInv
-----------------------------------------------------------------------------
(* Commands, entries and the ledger *)

LEMMA CommandShape ==
    ASSUME NEW c \in Commands
    PROVE  /\ c.op \in {"run", "close"} => c.phase \in Phase
           /\ c.op = "fail" => c.gate \in Gate /\ Target(c) \in Stages
           /\ c.op = "advance" => c.to \in Stages
  <1>1. Routes \subseteq Stages \cup {DefaultRoute} /\ Family \in [Gate -> 0..6]
    BY MissionAssumption
  <1>2. CASE c \in [op : {"kickoff"}]
    BY <1>2
  <1>3. CASE c \in [op : {"run", "close"}, phase : Phase]
    BY <1>3
  <1>4. CASE c \in [op : {"fail"}, gate : Gate, route : Routes]
    <2>1. c.gate \in Gate /\ c.route \in Routes /\ c.op = "fail"
      BY <1>4
    <2>2. Family[c.gate] \in 0..6
      BY <1>1, <2>1
    <2>3. ROUTE[Family[c.gate]] \in Stages
      BY <2>2 DEF ROUTE, Stages
    <2> QED
      BY <1>1, <2>1, <2>3 DEF Target
  <1>5. CASE c \in [op : {"advance"}, to : Routes \ {DefaultRoute}]
    BY <1>1, <1>5
  <1> QED
    BY <1>2, <1>3, <1>4, <1>5 DEF Commands

LEMMA KeepsItself == \A l : Keeps(l, l)
  BY DEF Keeps

LEMMA AppendKeeps ==
    ASSUME NEW l \in Ledgers, NEW r \in [event : Events, subject : Subjects, prev : Nat]
    PROVE  /\ Append(l, r) \in Ledgers
           /\ Keeps(l, Append(l, r))
           /\ r.event = "gate-passed" => Stands(Append(l, r), r.subject)
  <1> DEFINE m == Append(l, r)
             R == [event : Events, subject : Subjects, prev : Nat]
  <1>1. l \in Seq(R)
    BY DEF Ledgers
  <1> HIDE DEF R
  <1>2. r \in R
    BY DEF R
  <1>3. /\ m \in Seq(R) /\ Len(l) \in Nat
        /\ DOMAIN l = 1 .. Len(l) /\ DOMAIN m = 1 .. Len(l) + 1
        /\ \A i \in 1 .. Len(l) : m[i] = l[i]
        /\ m[Len(l) + 1] = r
    BY <1>1, <1>2
  <1>4. Len(l) + 1 \in DOMAIN m /\ DOMAIN l \subseteq DOMAIN m
    BY <1>3
  <1> HIDE DEF m
  <1>5. Keeps(l, m)
    BY <1>3, <1>4 DEF Keeps, Stands
  <1>6. r.event = "gate-passed" => Stands(m, r.subject)
    BY <1>3, <1>4 DEF Stands
  <1> QED
    BY <1>3, <1>5, <1>6 DEF Ledgers, m, R

\* What an action may take for granted about the process that takes it.
LEMMA Facts ==
    ASSUME MInv, NEW p \in Process
    PROVE  /\ LocalTyped(pc[p], cmd[p], doc[p], turn[p], entry[p], tip[p])
           /\ Sound(ledger, pc[p], cmd[p], doc[p], turn[p], entry[p])
           /\ state \in Documents \cup {None, Empty, Garbled}
           /\ ledger \in Ledgers /\ approved \in BOOLEAN
           /\ SoundState(ledger, state)
           /\ pc[p] # "idle" => cmd[p] \in Commands
  <1>1. /\ pc \in [Process -> Steps]
        /\ cmd \in [Process -> Commands \cup {None}]
        /\ doc \in [Process -> Documents \cup {None}]
        /\ turn \in [Process -> Nat]
        /\ entry \in [Process -> Entry \cup {None}]
        /\ tip \in [Process -> Nat]
        /\ state \in Documents \cup {None, Empty, Garbled}
        /\ ledger \in Ledgers /\ approved \in BOOLEAN
    BY DEF MInv, TypeOK, Steps, Carrying, Working, Appending, Entry, Ledgers
  <1>2. Sound(ledger, pc[p], cmd[p], doc[p], turn[p], entry[p]) /\ SoundState(ledger, state)
    BY DEF MInv
  <1>3. LocalTyped(pc[p], cmd[p], doc[p], turn[p], entry[p], tip[p])
    BY <1>1 DEF LocalTyped
  <1> QED
    BY <1>1, <1>2, <1>3 DEF Sound

LEMMA Shapes ==
    ASSUME MInv, NEW p \in Process
    PROVE  /\ \A s : Goto(p, pc[p], s) => pc' = [pc EXCEPT ![p] = s]
           /\ pc' = pc => pc' = [pc EXCEPT ![p] = pc[p]]
           /\ cmd' = cmd => cmd' = [cmd EXCEPT ![p] = cmd[p]]
           /\ doc' = doc => doc' = [doc EXCEPT ![p] = doc[p]]
           /\ turn' = turn => turn' = [turn EXCEPT ![p] = turn[p]]
           /\ entry' = entry => entry' = [entry EXCEPT ![p] = entry[p]]
           /\ tip' = tip => tip' = [tip EXCEPT ![p] = tip[p]]
  <1>1. pc = [q \in Process |-> pc[q]] /\ cmd = [q \in Process |-> cmd[q]]
        /\ doc = [q \in Process |-> doc[q]] /\ turn = [q \in Process |-> turn[q]]
        /\ entry = [q \in Process |-> entry[q]] /\ tip = [q \in Process |-> tip[q]]
    BY DEF MInv, TypeOK
  <1> QED
    BY <1>1 DEF Goto

-----------------------------------------------------------------------------
(* Every step keeps the invariant *)

LEMMA ExitStep ==
    ASSUME MInv, NEW p \in Process, NEW s \in Ended, Exit(p),
           pc' = [pc EXCEPT ![p] = s], pc[p] # "idle", ledger' = ledger,
           approved' = approved, state' \in Documents \cup {None, Empty, Garbled},
           SoundState(ledger, state')
    PROVE  MInv'
  <1>1. cmd' = [cmd EXCEPT ![p] = cmd[p]]
    BY Shapes DEF Exit
  <1>2. Step(p, s, cmd[p], None, 0, None, 0)
    BY <1>1 DEF Step, Exit
  <1>3. cmd[p] \in Commands /\ ledger \in Ledgers /\ approved \in BOOLEAN
    BY Facts
  <1>4. LocalTyped(s, cmd[p], None, 0, None, 0)
    BY <1>3 DEF LocalTyped, Steps
  <1>5. Sound(ledger, s, cmd[p], None, 0, None)
    BY <1>3 DEF Sound, Ended, Carrying, Working, Appending
  <1> QED
    BY <1>2, <1>3, <1>4, <1>5, KeepsItself, StepKeeps

LEMMA RefuseKeeps ==
    ASSUME MInv, NEW p \in Process, NEW from, from # "idle", Refuse(p, from)
    PROVE  MInv'
  <1>1. pc[p] # "idle" /\ pc' = [pc EXCEPT ![p] = "refused"] /\ Exit(p)
    BY DEF Refuse, Goto
  <1>2. state' = state /\ ledger' = ledger /\ approved' = approved
    BY DEF Refuse
  <1>3. state \in Documents \cup {None, Empty, Garbled} /\ SoundState(ledger, state)
    BY Facts
  <1> QED
    BY <1>1, <1>2, <1>3, ExitStep DEF Ended

LEMMA DieKeeps ==
    ASSUME MInv, NEW p \in Process, Die(p)
    PROVE  MInv'
  <1>1. pc[p] # "idle" /\ pc' = [pc EXCEPT ![p] = "dead"] /\ Exit(p)
    BY DEF Die, Active
  <1>2. state' = state /\ ledger' = ledger /\ approved' = approved
    BY DEF Die
  <1>3. state \in Documents \cup {None, Empty, Garbled} /\ SoundState(ledger, state)
    BY Facts
  <1> QED
    BY <1>1, <1>2, <1>3, ExitStep DEF Ended

LEMMA StartKeeps ==
    ASSUME MInv, NEW p \in Process, NEW c \in Commands, Start(p, c)
    PROVE  MInv'
  <1>1. PICK s \in {"kickoff", "load"} : pc' = [pc EXCEPT ![p] = s]
    BY DEF Start, Goto
  <1>2. Step(p, s, c, doc[p], turn[p], entry[p], tip[p])
    BY <1>1, Shapes DEF Step, Start
  <1>3. /\ state' = state /\ ledger' = ledger /\ approved' = approved
        /\ LocalTyped(pc[p], cmd[p], doc[p], turn[p], entry[p], tip[p])
        /\ state \in Documents \cup {None, Empty, Garbled} /\ SoundState(ledger, state)
        /\ ledger \in Ledgers /\ approved \in BOOLEAN
    BY Facts DEF Start
  <1>4. LocalTyped(s, c, doc[p], turn[p], entry[p], tip[p])
    BY <1>3 DEF LocalTyped, Steps
  <1>5. Sound(ledger, s, c, doc[p], turn[p], entry[p])
    BY DEF Sound, Carrying, Working, Appending
  <1> QED
    BY <1>2, <1>3, <1>4, <1>5, KeepsItself, StepKeeps

LEMMA DriftKeeps ==
    ASSUME MInv, Drift
    PROVE  MInv'
  BY DEF MInv, Drift, TypeOK, local, memory
LEMMA GateShape ==
    ASSUME NEW p, cmd[p].phase \in Phase, NEW t \in DOMAIN GatesOf[cmd[p].phase]
    PROVE  /\ t \in Nat /\ GateAt(p, t) \in Gate /\ GateAt(p, t) \in GatesIn[cmd[p].phase]
           /\ AtGate(cmd[p], t)
  BY PhaseShape DEF GateAt, AtGate

\* The entry that opens the run of gate g.
Opening(g) == [event |-> "gate-start", subject |-> g]

LEMMA ContinueShape ==
    ASSUME MInv, NEW p \in Process, cmd[p].phase \in Phase, NEW d, NEW i,
           Continue(p, d, i)
    PROVE  \/ /\ pc' = [pc EXCEPT ![p] = "save"]
              /\ turn' = [turn EXCEPT ![p] = turn[p]]
              /\ entry' = [entry EXCEPT ![p] = entry[p]]
           \/ \E t \in ToRun(d, cmd[p].phase, i) :
                 /\ t \in DOMAIN GatesOf[cmd[p].phase]
                 /\ pc' = [pc EXCEPT ![p] = "tip"]
                 /\ turn' = [turn EXCEPT ![p] = t]
                 /\ entry' = [entry EXCEPT ![p] = Opening(GateAt(p, t))]
  <1> DEFINE left == ToRun(d, cmd[p].phase, i)
  <1>1. CASE left = {}
    BY <1>1, Shapes DEF Continue
  <1>2. CASE left # {}
    <2>1. left \subseteq DOMAIN GatesOf[cmd[p].phase] /\ left \subseteq Nat
      BY PhaseShape DEF ToRun
    <2>2. Least(left) \in left
      BY <1>2, <2>1, LeastExists
    <2>3. /\ pc' = [pc EXCEPT ![p] = "tip"]
          /\ turn' = [turn EXCEPT ![p] = Least(left)]
          /\ entry' = [entry EXCEPT ![p] = Opening(GateAt(p, Least(left)))]
      BY <1>2 DEF Continue, Opening
    <2> QED
      BY <2>1, <2>2, <2>3
  <1> QED
    BY <1>1, <1>2

\* What a process that goes to write needs to know of its document.
LEMMA ToSave ==
    ASSUME MInv, NEW p \in Process, NEW s \in {"save", "saving"}, NEW d \in Documents,
           NEW t \in Nat, NEW e \in Entry \cup {None}, NEW n \in Nat,
           Step(p, s, cmd[p], d, t, e, n), cmd[p] \in Commands,
           state' \in Documents \cup {None, Empty, Garbled},
           ledger' \in Ledgers, approved' \in BOOLEAN, Keeps(ledger, ledger'),
           SoundState(ledger', state'),
           Consistent(d), DoneStands(ledger', d), PassedStands(ledger', d)
    PROVE  MInv'
  <1>1. LocalTyped(s, cmd[p], d, t, e, n)
    BY DEF LocalTyped, Steps, Carrying
  <1>2. Sound(ledger', s, cmd[p], d, t, e)
    BY DEF Sound, Carrying, Working, Appending, PassedStands
  <1> QED
    BY <1>1, <1>2, StepKeeps

\* What a process that goes to run the gate at t needs to know.
LEMMA ToGate ==
    ASSUME MInv, NEW p \in Process, NEW d \in Documents, cmd[p] \in Commands,
           cmd[p].phase \in Phase, NEW t \in DOMAIN GatesOf[cmd[p].phase], NEW n \in Nat,
           Step(p, "tip", cmd[p], d, t, Opening(GateAt(p, t)), n),
           state' \in Documents \cup {None, Empty, Garbled},
           ledger' \in Ledgers, approved' \in BOOLEAN, Keeps(ledger, ledger'),
           SoundState(ledger', state'),
           Consistent(d), DoneStands(ledger', d), PassedStands(ledger', d)
    PROVE  MInv'
  <1>1. t \in Nat /\ GateAt(p, t) \in Gate /\ AtGate(cmd[p], t)
    BY GateShape
  <1>2. Opening(GateAt(p, t)) \in Entry
    BY <1>1 DEF Opening, Entry, Events, Subjects
  <1>3. LocalTyped("tip", cmd[p], d, t, Opening(GateAt(p, t)), n)
    BY <1>1, <1>2 DEF LocalTyped, Steps, Carrying, Working, Appending
  <1>4. Sound(ledger', "tip", cmd[p], d, t, Opening(GateAt(p, t)))
    BY <1>1, <1>2 DEF Sound, Carrying, Working, Appending, PassedStands
  <1> QED
    BY <1>3, <1>4, StepKeeps

\* What a command that loads the document finds.
LEMMA LoadFacts ==
    ASSUME MInv, NEW p \in Process, NEW op, Loads(p, op)
    PROVE  /\ state \in Documents /\ Consistent(state)
           /\ PassedStands(ledger, state) /\ DoneStands(ledger, state)
           /\ cmd[p] \in Commands /\ cmd[p].op = op
           /\ pc[p] = "load" /\ approved \in BOOLEAN /\ ledger \in Ledgers
           /\ turn[p] \in Nat /\ tip[p] \in Nat /\ entry[p] \in Entry \cup {None}
           /\ state \in Documents \cup {None, Empty, Garbled}
           /\ SoundState(ledger, state)
  <1>1. pc[p] = "load" /\ cmd[p].op = op /\ state \notin {None, Empty, Garbled}
    BY DEF Loads, Readable
  <1> QED
    BY <1>1, Facts DEF SoundState, LocalTyped

LEMMA KickoffKeeps ==
    ASSUME MInv, NEW p \in Process, Kickoff(p)
    PROVE  MInv'
  <1>1. pc[p] = "kickoff" /\ pc' = [pc EXCEPT ![p] = "save"] /\ doc' = [doc EXCEPT ![p] = Fresh]
        /\ state' = state /\ ledger' = ledger /\ approved' = approved
    BY DEF Kickoff, Goto
  <1>2. Step(p, "save", cmd[p], Fresh, turn[p], entry[p], tip[p])
    BY <1>1, Shapes DEF Step, Kickoff
  <1>3. cmd[p] \in Commands /\ turn[p] \in Nat /\ entry[p] \in Entry \cup {None} /\ tip[p] \in Nat
        /\ state \in Documents \cup {None, Empty, Garbled} /\ SoundState(ledger, state)
        /\ ledger \in Ledgers /\ approved \in BOOLEAN
    BY <1>1, Facts DEF LocalTyped
  <1>4. /\ Fresh \in Documents /\ Consistent(Fresh)
        /\ DoneStands(ledger, Fresh) /\ PassedStands(ledger, Fresh)
    BY FreshShape DEF Consistent, DoneStands, PassedStands
  <1> QED
    BY <1>1, <1>2, <1>3, <1>4, KeepsItself, ToSave

LEMMA RunGatesKeeps ==
    ASSUME MInv, NEW p \in Process, RunGates(p)
    PROVE  MInv'
  <1> DEFINE ph == cmd[p].phase
             d == Started(state, ph)
  <1>1. /\ Loads(p, "run") /\ Continue(p, state, 0) /\ doc' = [doc EXCEPT ![p] = d]
        /\ cmd' = cmd /\ tip' = tip /\ state' = state /\ ledger' = ledger /\ approved' = approved
    BY DEF RunGates
  <1>2. ph \in Phase
    BY <1>1, LoadFacts, CommandShape
  <1>3. /\ d \in Documents
        /\ \A q \in Phase : d.phase[q] = "done" <=> state.phase[q] = "done"
        /\ d.active = state.active /\ d.gate = state.gate /\ d.loopbacks = state.loopbacks
    BY <1>1, <1>2, LoadFacts, StartedShape
  <1>4. cmd' = [cmd EXCEPT ![p] = cmd[p]] /\ tip' = [tip EXCEPT ![p] = tip[p]]
    BY <1>1, Shapes
  <1> HIDE DEF d
  <1>5. Consistent(d) /\ DoneStands(ledger, d) /\ PassedStands(ledger, d)
    <2>1. Consistent(state) /\ DoneStands(ledger, state) /\ PassedStands(ledger, state)
      BY <1>1, LoadFacts
    <2>2. FirstOpen(d.phase) = FirstOpen(state.phase) /\ OpenLoopbacks(d) = OpenLoopbacks(state)
      BY <1>3, SameFirstOpen, SameLoopbacks
    <2> QED
      BY <1>3, <2>1, <2>2 DEF Consistent, DoneStands, PassedStands
  <1>6. CASE /\ pc' = [pc EXCEPT ![p] = "save"]
             /\ turn' = [turn EXCEPT ![p] = turn[p]] /\ entry' = [entry EXCEPT ![p] = entry[p]]
    <2>1. Step(p, "save", cmd[p], d, turn[p], entry[p], tip[p])
      BY <1>1, <1>4, <1>6 DEF Step
    <2> QED
      BY <1>1, <1>3, <1>5, <2>1, LoadFacts, KeepsItself, ToSave
  <1>7. ASSUME NEW t \in DOMAIN GatesOf[ph],
               pc' = [pc EXCEPT ![p] = "tip"], turn' = [turn EXCEPT ![p] = t],
               entry' = [entry EXCEPT ![p] = Opening(GateAt(p, t))]
        PROVE  MInv'
    <2>1. Step(p, "tip", cmd[p], d, t, Opening(GateAt(p, t)), tip[p])
      BY <1>1, <1>4, <1>7 DEF Step
    <2> QED
      BY <1>1, <1>2, <1>3, <1>5, <2>1, LoadFacts, KeepsItself, ToGate
  <1> QED
    BY <1>1, <1>2, <1>6, <1>7, ContinueShape
\* A command that goes to append one entry of its own and then to save.
LEMMA BeginKeeps ==
    ASSUME MInv, NEW p \in Process, NEW op, Loads(p, op), NEW d \in Documents,
           NEW event \in {"loopback", "stage-advance", "phase-close"}, NEW subject \in Subjects,
           Begin(p, d, event, subject),
           UNCHANGED <<state, ledger, approved, cmd, turn, tip>>,
           Consistent(d), DoneStands(ledger, d), PassedStands(ledger, d)
    PROVE  MInv'
  <1> DEFINE e == [event |-> event, subject |-> subject]
  <1>1. /\ e \in Entry /\ e.event = event
    BY DEF Entry, Events
  <1>2. pc' = [pc EXCEPT ![p] = "tip"] /\ doc' = [doc EXCEPT ![p] = d]
        /\ entry' = [entry EXCEPT ![p] = e]
    BY DEF Begin
  <1> HIDE DEF e
  <1>3. Step(p, "tip", cmd[p], d, turn[p], e, tip[p])
    BY <1>2, Shapes DEF Step
  <1>4. LocalTyped("tip", cmd[p], d, turn[p], e, tip[p])
    BY <1>1, LoadFacts DEF LocalTyped, Steps, Carrying, Working, Appending
  <1>5. cmd[p] \in Commands
    BY LoadFacts
  <1>6. Sound(ledger, "tip", cmd[p], d, turn[p], e)
    BY <1>1, <1>5 DEF Sound, Carrying, Working, Appending, PassedStands, GateEvents
  <1> QED
    BY <1>3, <1>4, <1>6, LoadFacts, KeepsItself, StepKeeps

LEMMA FailKeeps ==
    ASSUME MInv, NEW p \in Process, Fail(p)
    PROVE  MInv'
  <1> DEFINE g == cmd[p].gate
             d == Failed(state, g, Target(cmd[p]))
  <1>1. /\ Loads(p, "fail") /\ Begin(p, d, "loopback", g)
        /\ UNCHANGED <<state, ledger, approved, cmd, turn, tip>>
    BY DEF Fail
  <1>2. g \in Gate /\ Target(cmd[p]) \in Stages
    BY <1>1, LoadFacts, CommandShape
  <1>3. /\ state \in Documents /\ Consistent(state)
        /\ PassedStands(ledger, state) /\ DoneStands(ledger, state)
    BY <1>1, LoadFacts
  <1>4. /\ d \in Documents /\ d.phase = state.phase /\ d.active = state.active
        /\ d.gate = [state.gate EXCEPT ![g] = "failed"]
        /\ OpenLoopbacks(d) = OpenLoopbacks(state) \cup {g}
    BY <1>2, <1>3, FailedShape, FailedOpen
  <1>5. state.gate \in [Gate -> {"pending", "passed", "failed"}]
    BY <1>3, DocumentShape
  <1> HIDE DEF d
  <1>6. \A h \in Gate : d.gate[h] = IF h = g THEN "failed" ELSE state.gate[h]
    BY <1>4, <1>5
  <1>7. PassedStands(ledger, d) /\ DoneStands(ledger, d)
    BY <1>3, <1>4, <1>6 DEF PassedStands, DoneStands
  <1>8. Consistent(d)
    <2>1. \A h \in OpenLoopbacks(state) : state.gate[h] = "failed"
      BY <1>3 DEF Consistent
    <2>2. \A h \in OpenLoopbacks(d) : h \in Gate
      BY <1>4, OpenGates
    <2>3. \A h \in OpenLoopbacks(d) : d.gate[h] = "failed"
      BY <1>4, <1>6, <2>1, <2>2
    <2> QED
      BY <1>3, <1>4, <2>3 DEF Consistent
  <1>9. g \in Subjects
    BY <1>2 DEF Subjects
  <1> QED
    BY <1>1, <1>4, <1>7, <1>8, <1>9, BeginKeeps

LEMMA AdvanceKeeps ==
    ASSUME MInv, NEW p \in Process, Advance(p)
    PROVE  MInv'
  <1> DEFINE d == Advanced(state, cmd[p].to)
  <1>1. /\ Loads(p, "advance") /\ Begin(p, d, "stage-advance", None)
        /\ UNCHANGED <<state, ledger, approved, cmd, turn, tip>>
    BY DEF Advance
  <1>2. cmd[p].to \in Stages
    BY <1>1, LoadFacts, CommandShape
  <1>3. /\ state \in Documents /\ Consistent(state)
        /\ PassedStands(ledger, state) /\ DoneStands(ledger, state)
    BY <1>1, LoadFacts
  <1>4. /\ d \in Documents /\ d.phase = state.phase /\ d.active = state.active
        /\ d.gate = state.gate /\ OpenLoopbacks(d) = OpenLoopbacks(state)
    BY <1>2, <1>3, AdvancedShape, SameLoopbacks
  <1> HIDE DEF d
  <1>5. Consistent(d) /\ PassedStands(ledger, d) /\ DoneStands(ledger, d)
    BY <1>3, <1>4 DEF Consistent, PassedStands, DoneStands
  <1>6. None \in Subjects
    BY DEF Subjects
  <1> QED
    BY <1>1, <1>4, <1>5, <1>6, BeginKeeps

LEMMA ClosePhaseKeeps ==
    ASSUME MInv, NEW p \in Process, ClosePhase(p)
    PROVE  MInv'
  <1> DEFINE ph == cmd[p].phase
             d == Closed(state, ph)
  <1>1. /\ Loads(p, "close") /\ Closable(state, ph) /\ Begin(p, d, "phase-close", ph)
        /\ UNCHANGED <<state, ledger, approved, cmd, turn, tip>>
    BY DEF ClosePhase
  <1>2. ph \in Phase /\ ph \in Subjects
    BY <1>1, LoadFacts, CommandShape DEF Subjects
  <1>3. /\ state \in Documents /\ Consistent(state)
        /\ PassedStands(ledger, state) /\ DoneStands(ledger, state)
    BY <1>1, LoadFacts
  <1>4. /\ d \in Documents /\ d.phase = [state.phase EXCEPT ![ph] = "done"]
        /\ d.active = FirstOpen(d.phase)
        /\ d.gate = state.gate /\ OpenLoopbacks(d) = OpenLoopbacks(state)
    BY <1>2, <1>3, ClosedShape, SameLoopbacks
  <1>5. state.phase \in [Phase -> {"pending", "in_progress", "done"}]
    BY <1>3, DocumentShape
  <1> HIDE DEF d
  <1>6. Consistent(d) /\ PassedStands(ledger, d)
    BY <1>3, <1>4 DEF Consistent, PassedStands
  <1>7. DoneStands(ledger, d)
    <2>1. \A g \in GatesIn[ph] : g \in Gate /\ state.gate[g] = "passed"
      BY <1>1, <1>2, PhaseShape DEF Closable
    <2>2. \A q \in Phase : q # ph => d.phase[q] = state.phase[q]
      BY <1>4, <1>5
    <2> QED
      BY <1>3, <2>1, <2>2 DEF DoneStands, PassedStands
  <1> QED
    BY <1>1, <1>2, <1>4, <1>6, <1>7, BeginKeeps
\* A step inside an append that leaves document, ledger and entry alone.
LEMMA WaitKeeps ==
    ASSUME MInv, NEW p \in Process, pc[p] \in Appending, NEW s \in Appending, NEW n \in Nat,
           pc' = [pc EXCEPT ![p] = s], tip' = [tip EXCEPT ![p] = n],
           UNCHANGED <<state, ledger, approved, cmd, doc, turn, entry>>
    PROVE  MInv'
  <1>1. Step(p, s, cmd[p], doc[p], turn[p], entry[p], n)
    BY Shapes DEF Step
  <1>2. /\ LocalTyped(pc[p], cmd[p], doc[p], turn[p], entry[p], tip[p])
        /\ Sound(ledger, pc[p], cmd[p], doc[p], turn[p], entry[p])
        /\ state \in Documents \cup {None, Empty, Garbled} /\ SoundState(ledger, state)
        /\ ledger \in Ledgers /\ approved \in BOOLEAN
    BY Facts
  <1>3. LocalTyped(s, cmd[p], doc[p], turn[p], entry[p], n)
    BY <1>2 DEF LocalTyped, Steps, Carrying, Working
  <1>4. Sound(ledger, s, cmd[p], doc[p], turn[p], entry[p])
    BY <1>2 DEF Sound, Carrying, Working, Appending, Announces
  <1> QED
    BY <1>1, <1>2, <1>3, <1>4, KeepsItself, StepKeeps

LEMMA ReadTipKeeps ==
    ASSUME MInv, NEW p \in Process, ReadTip(p)
    PROVE  MInv'
  <1>1. ledger \in Ledgers
    BY Facts
  <1>2. Len(ledger) \in Nat
    BY <1>1 DEF Ledgers
  <1> QED
    BY <1>2, WaitKeeps DEF ReadTip, Goto, Appending

LEMMA CheckTipKeeps ==
    ASSUME MInv, NEW p \in Process, CheckTip(p)
    PROVE  MInv'
  <1>1. CASE Refuse(p, "check")
    BY <1>1, RefuseKeeps
  <1>2. CASE Goto(p, "check", "append") /\ UNCHANGED <<state, ledger, approved, local>>
    <2>1. tip[p] \in Nat /\ tip' = [tip EXCEPT ![p] = tip[p]]
      BY <1>2, Facts, Shapes DEF LocalTyped, local, memory
    <2> QED
      BY <1>2, <2>1, WaitKeeps DEF Goto, Appending, local, memory
  <1> QED
    BY <1>1, <1>2 DEF CheckTip

\* What an append may take for granted.
LEMMA AppendFacts ==
    ASSUME MInv, NEW p \in Process, AppendEntry(p)
    PROVE  /\ ledger' \in Ledgers /\ Keeps(ledger, ledger')
           /\ SoundState(ledger', state) /\ state \in Documents \cup {None, Empty, Garbled}
           /\ approved \in BOOLEAN /\ cmd[p] \in Commands
           /\ doc[p] \in Documents /\ Consistent(doc[p])
           /\ DoneStands(ledger', doc[p]) /\ PassedStands(ledger', doc[p])
           /\ entry[p] \in Entry /\ tip[p] \in Nat /\ turn[p] \in Nat
           /\ entry[p].event \in GateEvents => AtGate(cmd[p], turn[p])
  <1> DEFINE r == Chained(p)
  <1>1. pc[p] = "append" /\ ledger' = Append(ledger, r)
    BY DEF AppendEntry
  <1>2. /\ Sound(ledger, "append", cmd[p], doc[p], turn[p], entry[p])
        /\ LocalTyped("append", cmd[p], doc[p], turn[p], entry[p], tip[p])
        /\ ledger \in Ledgers /\ approved \in BOOLEAN
        /\ SoundState(ledger, state) /\ state \in Documents \cup {None, Empty, Garbled}
    BY <1>1, Facts
  <1>3. /\ cmd[p] \in Commands /\ doc[p] \in Documents /\ Consistent(doc[p])
        /\ DoneStands(ledger, doc[p])
        /\ \A g \in Gate : doc[p].gate[g] = "passed" =>
              Stands(ledger, g) \/ Announces("append", entry[p], g)
        /\ entry[p] \in Entry
        /\ entry[p].event \in GateEvents => AtGate(cmd[p], turn[p])
    BY <1>2 DEF Sound, Carrying, Working, Appending
  <1>4. tip[p] \in Nat /\ turn[p] \in Nat
    BY <1>2 DEF LocalTyped
  <1>5. /\ r \in [event : Events, subject : Subjects, prev : Nat]
        /\ r.event = entry[p].event /\ r.subject = entry[p].subject
    BY <1>3, <1>4 DEF Entry, Chained
  <1> HIDE DEF r
  <1>6. /\ ledger' \in Ledgers /\ Keeps(ledger, ledger')
        /\ r.event = "gate-passed" => Stands(ledger', r.subject)
    BY <1>1, <1>2, <1>5, AppendKeeps
  <1>7. SoundState(ledger', state)
    BY <1>2, <1>6, SoundStateMonotone
  <1>8. PassedStands(ledger', doc[p])
    BY <1>3, <1>5, <1>6 DEF PassedStands, Keeps, Announces
  <1>9. DoneStands(ledger', doc[p])
    <2>1. \A ph \in Phase : \A g \in GatesIn[ph] : g \in Gate
      BY PhaseShape
    <2> QED
      BY <1>3, <1>6, <2>1 DEF DoneStands, Keeps
  <1> QED
    BY <1>2, <1>3, <1>4, <1>6, <1>7, <1>8, <1>9

LEMMA AppendEntryKeeps ==
    ASSUME MInv, NEW p \in Process, AppendEntry(p)
    PROVE  MInv'
  <1>1. /\ state' = state /\ approved' = approved /\ cmd' = cmd /\ doc' = doc /\ tip' = tip
        /\ ledger' \in Ledgers /\ Keeps(ledger, ledger')
        /\ SoundState(ledger', state) /\ state \in Documents \cup {None, Empty, Garbled}
        /\ approved \in BOOLEAN /\ cmd[p] \in Commands
        /\ doc[p] \in Documents /\ Consistent(doc[p])
        /\ DoneStands(ledger', doc[p]) /\ PassedStands(ledger', doc[p])
        /\ entry[p] \in Entry /\ tip[p] \in Nat /\ turn[p] \in Nat
        /\ entry[p].event \in GateEvents => AtGate(cmd[p], turn[p])
    BY AppendFacts DEF AppendEntry
  <1>2. /\ cmd' = [cmd EXCEPT ![p] = cmd[p]] /\ doc' = [doc EXCEPT ![p] = doc[p]]
        /\ tip' = [tip EXCEPT ![p] = tip[p]]
    BY <1>1, Shapes
  <1>3. ASSUME pc' = [pc EXCEPT ![p] = "save"],
               turn' = [turn EXCEPT ![p] = turn[p]], entry' = [entry EXCEPT ![p] = entry[p]]
        PROVE  MInv'
    <2>1. Step(p, "save", cmd[p], doc[p], turn[p], entry[p], tip[p])
      BY <1>2, <1>3 DEF Step
    <2> QED
      BY <1>1, <2>1, ToSave
  <1>4. CASE /\ entry[p].event = "gate-start"
             /\ pc' = [pc EXCEPT ![p] = "execute"] /\ UNCHANGED <<turn, entry>>
    <2>1. Step(p, "execute", cmd[p], doc[p], turn[p], entry[p], tip[p])
      BY <1>2, <1>4, Shapes DEF Step
    <2>2. LocalTyped("execute", cmd[p], doc[p], turn[p], entry[p], tip[p])
      BY <1>1 DEF LocalTyped, Steps, Carrying, Working
    <2>3. Sound(ledger', "execute", cmd[p], doc[p], turn[p], entry[p])
      BY <1>1, <1>4 DEF Sound, Carrying, Working, Appending, PassedStands, GateEvents
    <2> QED
      BY <1>1, <2>1, <2>2, <2>3, StepKeeps
  <1>5. CASE entry[p].event \in {"gate-passed", "gate-failed"} /\ Continue(p, doc[p], turn[p])
    <2>1. cmd[p].phase \in Phase
      BY <1>1, <1>5 DEF AtGate, GateEvents
    <2>2. ASSUME NEW t \in DOMAIN GatesOf[cmd[p].phase],
                 pc' = [pc EXCEPT ![p] = "tip"], turn' = [turn EXCEPT ![p] = t],
                 entry' = [entry EXCEPT ![p] = Opening(GateAt(p, t))]
          PROVE  MInv'
      <3>1. Step(p, "tip", cmd[p], doc[p], t, Opening(GateAt(p, t)), tip[p])
        BY <1>2, <2>2 DEF Step
      <3> QED
        BY <1>1, <2>1, <3>1, ToGate
    <2> QED
      BY <1>3, <1>5, <2>1, <2>2, ContinueShape
  <1>6. CASE /\ entry[p].event \notin {"gate-start", "gate-passed", "gate-failed"}
             /\ pc' = [pc EXCEPT ![p] = "save"] /\ UNCHANGED <<turn, entry>>
    BY <1>3, <1>6, Shapes
  <1> QED
    BY <1>4, <1>5, <1>6 DEF AppendEntry

\* The entry that closes a run of gate g.
Closing(g, status) ==
    [event |-> IF status = "passed" THEN "gate-passed" ELSE "gate-failed", subject |-> g]

LEMMA ExecuteShape ==
    ASSUME NEW p, NEW passed \in BOOLEAN, ExecuteGate(p, passed)
    PROVE  \E status \in {"passed", "failed"} :
              /\ pc[p] = "execute" /\ pc' = [pc EXCEPT ![p] = "tip"]
              /\ doc' = [doc EXCEPT ![p] = Verdict(doc[p], GateAt(p, turn[p]), status)]
              /\ entry' = [entry EXCEPT ![p] = Closing(GateAt(p, turn[p]), status)]
              /\ UNCHANGED <<state, ledger, approved, cmd, turn, tip>>
  <1>1. CASE passed
    <2>1. /\ pc[p] = "execute" /\ pc' = [pc EXCEPT ![p] = "tip"]
          /\ doc' = [doc EXCEPT ![p] = Verdict(doc[p], GateAt(p, turn[p]), "passed")]
          /\ entry' = [entry EXCEPT ![p] = Closing(GateAt(p, turn[p]), "passed")]
          /\ UNCHANGED <<state, ledger, approved, cmd, turn, tip>>
      BY <1>1 DEF ExecuteGate, Goto, Closing
    <2> QED
      BY <2>1
  <1>2. CASE ~passed
    <2>1. /\ pc[p] = "execute" /\ pc' = [pc EXCEPT ![p] = "tip"]
          /\ doc' = [doc EXCEPT ![p] = Verdict(doc[p], GateAt(p, turn[p]), "failed")]
          /\ entry' = [entry EXCEPT ![p] = Closing(GateAt(p, turn[p]), "failed")]
          /\ UNCHANGED <<state, ledger, approved, cmd, turn, tip>>
      BY <1>2 DEF ExecuteGate, Goto, Closing
    <2> QED
      BY <2>1
  <1> QED
    BY <1>1, <1>2
\* Document v is d with one verdict changed.
Rules(d, v, g, status) ==
    /\ v \in Documents /\ v.phase = d.phase /\ v.stage = d.stage
    /\ v.gate = [d.gate EXCEPT ![g] = status]

LEMMA VerdictRules ==
    ASSUME NEW d \in Documents, NEW g \in Gate, NEW status \in {"passed", "failed"}
    PROVE  Rules(d, Verdict(d, g, status), g, status)
  <1>1. Verdict(d, g, status).gate = [d.gate EXCEPT ![g] = status]
    BY DEF Verdict, Documents
  <1> QED
    BY <1>1, VerdictShape DEF Rules

LEMMA VerdictConsistent ==
    ASSUME NEW d \in Documents, Consistent(d), NEW g \in Gate, NEW status \in {"passed", "failed"}
    PROVE  Consistent(Verdict(d, g, status))
  <1> DEFINE v == Verdict(d, g, status)
  <1>1. /\ v \in Documents /\ v.phase = d.phase /\ v.active = d.active
    BY VerdictShape
  <1>2. OpenLoopbacks(v) = IF status = "passed" THEN OpenLoopbacks(d) \ {g} ELSE OpenLoopbacks(d)
    BY VerdictOpen
  <1>3. d.gate \in [Gate -> {"pending", "passed", "failed"}]
    BY DocumentShape
  <1>4. \A h \in OpenLoopbacks(d) : h \in Gate /\ d.gate[h] = "failed"
    BY OpenGates DEF Consistent
  <1>5. v.gate = [d.gate EXCEPT ![g] = status]
    BY DEF Verdict, Documents
  <1> HIDE DEF v
  <1>6. \A h \in Gate : v.gate[h] = IF h = g THEN status ELSE d.gate[h]
    BY <1>3, <1>5
  <1>7. \A h \in OpenLoopbacks(v) : v.gate[h] = "failed"
    <2>1. CASE status = "passed"
      BY <1>2, <1>4, <1>6, <2>1
    <2>2. CASE status = "failed"
      BY <1>2, <1>4, <1>6, <2>2
    <2> QED
      BY <2>1, <2>2
  <1> QED
    BY <1>1, <1>7 DEF Consistent, v

LEMMA ExecuteGateKeeps ==
    ASSUME MInv, NEW p \in Process, NEW passed \in BOOLEAN, ExecuteGate(p, passed)
    PROVE  MInv'
  <1> DEFINE g == GateAt(p, turn[p])
  <1>1. PICK status \in {"passed", "failed"} :
              /\ pc[p] = "execute" /\ pc' = [pc EXCEPT ![p] = "tip"]
              /\ doc' = [doc EXCEPT ![p] = Verdict(doc[p], g, status)]
              /\ entry' = [entry EXCEPT ![p] = Closing(g, status)]
              /\ UNCHANGED <<state, ledger, approved, cmd, turn, tip>>
    BY ExecuteShape
  <1> DEFINE v == Verdict(doc[p], g, status)
             e == Closing(g, status)
  <1>2. Step(p, "tip", cmd[p], v, turn[p], e, tip[p])
    BY <1>1, Shapes DEF Step
  <1>3. /\ Sound(ledger, "execute", cmd[p], doc[p], turn[p], entry[p])
        /\ LocalTyped("execute", cmd[p], doc[p], turn[p], entry[p], tip[p])
        /\ state \in Documents \cup {None, Empty, Garbled} /\ SoundState(ledger, state)
        /\ ledger \in Ledgers /\ approved \in BOOLEAN
    BY <1>1, Facts
  <1>4. /\ cmd[p] \in Commands /\ doc[p] \in Documents /\ Consistent(doc[p])
        /\ DoneStands(ledger, doc[p]) /\ PassedStands(ledger, doc[p])
        /\ AtGate(cmd[p], turn[p])
    BY <1>3 DEF Sound, Carrying, Working, Appending, Announces, PassedStands
  <1>5. g \in Gate
    BY <1>4, GateShape DEF AtGate
  <1> HIDE DEF g
  <1>6. /\ e \in Entry /\ e.subject = g
        /\ e.event = IF status = "passed" THEN "gate-passed" ELSE "gate-failed"
    BY <1>5 DEF Closing, Entry, Events, Subjects
  <1>7. v \in Documents /\ v.phase = doc[p].phase /\ v.gate = [doc[p].gate EXCEPT ![g] = status]
    <2>1. Rules(doc[p], v, g, status)
      BY <1>4, <1>5, VerdictRules
    <2> QED
      BY <2>1 DEF Rules
  <1>8. Consistent(v)
    BY <1>4, <1>5, VerdictConsistent
  <1>9. doc[p].gate \in [Gate -> {"pending", "passed", "failed"}]
    BY <1>4, DocumentShape
  <1> HIDE DEF v, e
  <1>10. LocalTyped("tip", cmd[p], v, turn[p], e, tip[p])
    BY <1>3, <1>6, <1>7 DEF LocalTyped, Steps, Carrying, Working, Appending
  <1>11. \A h \in Gate : v.gate[h] = "passed" => Stands(ledger, h) \/ Announces("tip", e, h)
    <2>1. ASSUME NEW h \in Gate, v.gate[h] = "passed"
          PROVE  Stands(ledger, h) \/ Announces("tip", e, h)
      <3>1. CASE h = g
        <4>1. status = "passed"
          BY <1>5, <1>7, <1>9, <2>1, <3>1
        <4> QED
          BY <1>6, <3>1, <4>1 DEF Announces, Appending
      <3>2. CASE h # g
        BY <1>4, <1>7, <1>9, <2>1, <3>2 DEF PassedStands
      <3> QED
        BY <3>1, <3>2
    <2> QED
      BY <2>1
  <1>12. DoneStands(ledger, v)
    BY <1>4, <1>7 DEF DoneStands
  <1>13. Sound(ledger, "tip", cmd[p], v, turn[p], e)
    BY <1>4, <1>6, <1>7, <1>8, <1>11, <1>12 DEF Sound, Carrying, Working, Appending
  <1> QED
    BY <1>1, <1>2, <1>3, <1>10, <1>13, KeepsItself, StepKeeps

LEMMA SaveFacts ==
    ASSUME MInv, NEW p \in Process, pc[p] \in {"save", "saving"}
    PROVE  /\ cmd[p] \in Commands /\ doc[p] \in Documents /\ Consistent(doc[p])
           /\ DoneStands(ledger, doc[p]) /\ PassedStands(ledger, doc[p])
           /\ LocalTyped(pc[p], cmd[p], doc[p], turn[p], entry[p], tip[p])
           /\ ledger \in Ledgers /\ approved \in BOOLEAN
  BY Facts DEF Sound, Carrying, Working, Appending, Announces, PassedStands

LEMMA SaveOpenKeeps ==
    ASSUME MInv, NEW p \in Process, SaveOpen(p)
    PROVE  MInv'
  <1>1. /\ pc[p] = "save" /\ pc' = [pc EXCEPT ![p] = "saving"] /\ state' = Empty
        /\ UNCHANGED <<ledger, approved, cmd, doc, turn, entry, tip>>
    BY DEF SaveOpen, Goto, local, memory
  <1>2. Step(p, "saving", cmd[p], doc[p], turn[p], entry[p], tip[p])
    BY <1>1, Shapes DEF Step
  <1>3. turn[p] \in Nat /\ entry[p] \in Entry \cup {None} /\ tip[p] \in Nat
    BY <1>1, SaveFacts DEF LocalTyped
  <1>4. SoundState(ledger, Empty)
    BY DEF SoundState
  <1> QED
    BY <1>1, <1>2, <1>3, <1>4, SaveFacts, KeepsItself, ToSave

LEMMA SaveWriteKeeps ==
    ASSUME MInv, NEW p \in Process, SaveWrite(p)
    PROVE  MInv'
  <1>1. /\ pc[p] = "saving" /\ pc' = [pc EXCEPT ![p] = "done"] /\ Exit(p)
        /\ ledger' = ledger /\ approved' = approved /\ state' \in {doc[p], Garbled}
    BY DEF SaveWrite, Goto
  <1>2. state' \in Documents \cup {None, Empty, Garbled} /\ SoundState(ledger, state')
    BY <1>1, SaveFacts DEF SoundState
  <1> QED
    BY <1>1, <1>2, ExitStep DEF Ended

LEMMA InitSound == Init => MInv
  <1>1. ASSUME Init
        PROVE  MInv
    <2>1. TypeOK
      BY <1>1 DEF Init, TypeOK
    <2>2. SoundState(ledger, state)
      BY <1>1 DEF Init, SoundState
    <2>3. \A p \in Process : Sound(ledger, pc[p], cmd[p], doc[p], turn[p], entry[p])
      BY <1>1 DEF Init, Sound, Carrying, Working, Appending
    <2> QED
      BY <2>1, <2>2, <2>3 DEF MInv
  <1> QED
    BY <1>1

LEMMA NextSound == MInv /\ [Next]_vars => MInv'
  <1> SUFFICES ASSUME MInv, [Next]_vars
               PROVE  MInv'
    OBVIOUS
  <1>1. CASE Drift
    BY <1>1, DriftKeeps
  <1>2. CASE vars' = vars
    BY <1>2 DEF vars, local, memory, MInv, TypeOK
  <1>3. ASSUME NEW p \in Process, NEW c \in Commands, Start(p, c)
        PROVE  MInv'
    BY <1>3, StartKeeps
  <1>4. ASSUME NEW p \in Process,
               Kickoff(p) \/ KickoffRefuse(p) \/ LoadRefuse(p)
        PROVE  MInv'
    BY <1>4, KickoffKeeps, RefuseKeeps DEF KickoffRefuse, LoadRefuse
  <1>5. ASSUME NEW p \in Process,
               RunGates(p) \/ Fail(p) \/ FailRefuse(p) \/ Advance(p) \/ AdvanceRefuse(p)
               \/ ClosePhase(p) \/ CloseRefuse(p)
        PROVE  MInv'
    BY <1>5, RunGatesKeeps, FailKeeps, AdvanceKeeps, ClosePhaseKeeps, RefuseKeeps
       DEF FailRefuse, AdvanceRefuse, CloseRefuse
  <1>6. ASSUME NEW p \in Process, ReadTip(p) \/ CheckTip(p) \/ AppendEntry(p)
        PROVE  MInv'
    BY <1>6, ReadTipKeeps, CheckTipKeeps, AppendEntryKeeps
  <1>7. ASSUME NEW p \in Process, NEW passed \in BOOLEAN, ExecuteGate(p, passed)
        PROVE  MInv'
    BY <1>7, ExecuteGateKeeps
  <1>8. ASSUME NEW p \in Process, CustodyLost(p) \/ SaveOpen(p) \/ SaveWrite(p) \/ Die(p)
        PROVE  MInv'
    BY <1>8, RefuseKeeps, SaveOpenKeeps, SaveWriteKeeps, DieKeeps DEF CustodyLost
  <1> QED
    BY <1>1, <1>2, <1>3, <1>4, <1>5, <1>6, <1>7, <1>8 DEF Next

\* Sound always: however many commands run at the same time, and whichever
\* of them die, what each of them is about to write is of one piece and backed
\* by the ledger, and so is state.json.
THEOREM MissionSound == Spec => []MInv
  BY InitSound, NextSound, PTL DEF Spec

\* Every variable of the mission loop keeps its type.
THEOREM MissionTyped == Spec => []TypeOK
  <1>1. MInv => TypeOK
    BY DEF MInv
  <1> QED
    BY <1>1, MissionSound, PTL

\* "Nothing crosses a gate on claims alone", for any gates, phases and number
\* of overlapping or killed commands: what state.json calls passed or done has
\* a passing run in ledger.jsonl, because ledger_append precedes save.
THEOREM NothingOnClaims == Spec => []PassedHasEvidence
  <1>1. MInv => PassedHasEvidence
    BY DEF MInv, SoundState, PassedStands, DoneStands, Stands, PassedHasEvidence, Readable,
           Logged
  <1> QED
    BY <1>1, MissionSound, PTL

\* However commands overlap or die, the active phase of state.json is its
\* first one not done, and the gate of an open loopback is failed.
THEOREM OneDocument == Spec => []DocumentConsistent
  <1>1. MInv => DocumentConsistent
    BY DEF MInv, SoundState, Consistent, DocumentConsistent, Readable
  <1> QED
    BY <1>1, MissionSound, PTL
-----------------------------------------------------------------------------
(* One command at a time *)

\* Any step of a process but its start.
Acts(p) ==
    \/ Kickoff(p) \/ KickoffRefuse(p) \/ LoadRefuse(p)
    \/ RunGates(p) \/ Fail(p) \/ FailRefuse(p)
    \/ Advance(p) \/ AdvanceRefuse(p) \/ ClosePhase(p) \/ CloseRefuse(p)
    \/ ReadTip(p) \/ CheckTip(p) \/ AppendEntry(p)
    \/ \E passed \in BOOLEAN : ExecuteGate(p, passed)
    \/ CustodyLost(p)
    \/ SaveOpen(p) \/ SaveWrite(p)
    \/ Die(p)

Alone == \A p, q \in Process : Active(p) /\ Active(q) => p = q

\* A process that is about to append has read the tip of the ledger as it is.
Chaining(p) == pc[p] \in {"check", "append"} => tip[p] = Len(ledger)

SInv == Alone /\ ChainIntact /\ \A p \in Process : Chaining(p)

LEMMA ContinueMoves ==
    ASSUME NEW p, NEW d, NEW i, Continue(p, d, i)
    PROVE  \E s \in {"save", "tip"} : pc' = [pc EXCEPT ![p] = s]
  BY DEF Continue

\* A process that acts was active, and none but a step of the append that read
\* the tip leaves it about to append.
LEMMA ActsShape ==
    ASSUME MInv, NEW p \in Process, Acts(p)
    PROVE  /\ Active(p)
           /\ \E s \in Steps :
                 /\ pc' = [pc EXCEPT ![p] = s]
                 /\ \/ s \notin {"check", "append"}
                    \/ s = "check" /\ ReadTip(p)
                    \/ s = "append" /\ tip' = tip /\ ledger' = ledger /\ pc[p] = "check"
           /\ AppendEntry(p) \/ ledger' = ledger
  <1>1. \A from \in {"kickoff", "load", "check", "execute"} :
           Refuse(p, from) => /\ pc[p] = from /\ pc' = [pc EXCEPT ![p] = "refused"]
                              /\ ledger' = ledger
    BY DEF Refuse, Goto
  <1>2. CASE Kickoff(p) \/ KickoffRefuse(p) \/ LoadRefuse(p)
    BY <1>1, <1>2 DEF Kickoff, KickoffRefuse, LoadRefuse, Goto, Active, Ended, Steps, Carrying
  <1>3. CASE RunGates(p)
    <2>1. pc[p] = "load" /\ ledger' = ledger /\ Continue(p, state, 0)
      BY <1>3 DEF RunGates, Loads
    <2>2. PICK s \in {"save", "tip"} : pc' = [pc EXCEPT ![p] = s]
      BY <2>1, ContinueMoves
    <2> QED
      BY <2>1, <2>2 DEF Active, Ended, Steps, Carrying, Working, Appending
  <1>4. CASE Fail(p) \/ Advance(p) \/ ClosePhase(p)
    BY <1>4 DEF Fail, Advance, ClosePhase, Loads, Begin, Active, Ended, Steps, Carrying, Working,
                Appending
  <1>5. CASE FailRefuse(p) \/ AdvanceRefuse(p) \/ CloseRefuse(p) \/ CustodyLost(p)
    BY <1>1, <1>5 DEF FailRefuse, AdvanceRefuse, CloseRefuse, CustodyLost, Active, Ended, Steps
  <1>6. CASE ReadTip(p)
    BY <1>6 DEF ReadTip, Goto, Active, Ended, Steps, Carrying, Working, Appending
  <1>7. CASE CheckTip(p)
    BY <1>1, <1>7 DEF CheckTip, Goto, local, memory, Active, Ended, Steps, Carrying, Working,
                      Appending
  <1>8. CASE AppendEntry(p)
    <2>1. pc[p] = "append"
      BY <1>8 DEF AppendEntry
    <2>2. PICK s \in {"save", "tip", "execute"} : pc' = [pc EXCEPT ![p] = s]
      BY <1>8, ContinueMoves DEF AppendEntry
    <2> QED
      BY <1>8, <2>1, <2>2 DEF Active, Ended, Steps, Carrying, Working, Appending
  <1>9. ASSUME NEW passed \in BOOLEAN, ExecuteGate(p, passed)
        PROVE  /\ pc[p] = "execute" /\ pc' = [pc EXCEPT ![p] = "tip"] /\ ledger' = ledger
    BY <1>9 DEF ExecuteGate, Goto
  <1>10. CASE \E passed \in BOOLEAN : ExecuteGate(p, passed)
    BY <1>9, <1>10 DEF Active, Ended, Steps, Carrying, Working, Appending
  <1>11. CASE SaveOpen(p) \/ SaveWrite(p) \/ Die(p)
    BY <1>11 DEF SaveOpen, SaveWrite, Die, Goto, Active, Ended, Steps, Carrying
  <1> QED
    BY <1>2, <1>3, <1>4, <1>5, <1>6, <1>7, <1>8, <1>10, <1>11 DEF Acts

LEMMA NextShape ==
    ASSUME Next
    PROVE  \/ Drift
           \/ \E p \in Process : (\E c \in Commands : Start(p, c)) \/ Acts(p)
  BY DEF Next, Acts

\* Where one command runs at a time, the one that starts finds no other.
LEMMA StartsAlone ==
    ASSUME AtOnce = 1, NEW p \in Process, NEW c \in Commands, Start(p, c)
    PROVE  \A q \in Process : ~Active(q)
  <1> DEFINE S == {q \in Process : Active(q)}
  <1>1. IsFiniteSet(S)
    BY MissionAssumption, FS_Subset
  <1>2. Cardinality(S) < 1
    BY DEF Start
  <1> HIDE DEF S
  <1>3. Cardinality(S) \in Nat
    BY <1>1, FS_CardinalityType
  <1>4. Cardinality(S) = 0
    BY <1>2, <1>3
  <1>5. S = {}
    BY <1>1, <1>4, FS_EmptySet
  <1> QED
    BY <1>5 DEF S

LEMMA ChainGrows ==
    ASSUME MInv, SInv, NEW p \in Process, AppendEntry(p)
    PROVE  ChainIntact'
  <1> DEFINE r == Chained(p)
             R == [event : Events, subject : Subjects, prev : Nat]
             n == Len(ledger)
  <1>1. ledger' = Append(ledger, r) /\ pc[p] = "append" /\ r.prev = tip[p]
    BY DEF AppendEntry, Chained
  <1>2. tip[p] = n /\ \A i \in DOMAIN ledger : ledger[i].prev = i - 1
    BY <1>1 DEF SInv, Chaining, ChainIntact
  <1>3. ledger \in Seq(R)
    BY DEF MInv, TypeOK
  <1> HIDE DEF r, R
  <1>4. /\ n \in Nat /\ DOMAIN ledger = 1..n /\ DOMAIN ledger' = 1 .. n + 1
        /\ \A i \in 1..n : ledger'[i] = ledger[i]
        /\ ledger'[n + 1] = r
    BY <1>1, <1>3
  <1>5. ASSUME NEW i \in DOMAIN ledger'
        PROVE  ledger'[i].prev = i - 1
    <2>1. CASE i \in 1..n
      BY <1>2, <1>4, <2>1
    <2>2. CASE i = n + 1
      BY <1>1, <1>2, <1>4, <2>2
    <2> QED
      BY <1>4, <2>1, <2>2
  <1> QED
    BY <1>5 DEF ChainIntact

LEMMA SerialStep ==
    ASSUME AtOnce = 1, MInv, SInv, [Next]_vars
    PROVE  SInv'
  <1>0. pc \in [Process -> Steps] /\ tip \in [Process -> Nat]
    BY DEF MInv, TypeOK, Steps, Carrying, Working, Appending
  <1>1. CASE Drift \/ vars' = vars
    <2>1. pc' = pc /\ tip' = tip /\ ledger' = ledger
      BY <1>1 DEF Drift, vars, local, memory
    <2> QED
      BY <2>1 DEF SInv, Alone, Active, ChainIntact, Chaining
  <1>2. ASSUME NEW p \in Process, NEW c \in Commands, Start(p, c)
        PROVE  SInv'
    <2>1. PICK s \in {"kickoff", "load"} : pc' = [pc EXCEPT ![p] = s]
      BY <1>2 DEF Start, Goto
    <2>2. tip' = tip /\ ledger' = ledger
      BY <1>2 DEF Start
    <2>3. \A q \in Process : q # p => pc'[q] = pc[q] /\ ~Active(q)
      BY <1>0, <1>2, <2>1, StartsAlone
    <2>4. pc'[p] = s
      BY <1>0, <2>1
    <2> QED
      BY <2>2, <2>3, <2>4 DEF SInv, Alone, Active, ChainIntact, Chaining
  <1>3. ASSUME NEW p \in Process, Acts(p)
        PROVE  SInv'
    <2>1. PICK s \in Steps :
             /\ pc' = [pc EXCEPT ![p] = s]
             /\ \/ s \notin {"check", "append"}
                \/ s = "check" /\ ReadTip(p)
                \/ s = "append" /\ tip' = tip /\ ledger' = ledger /\ pc[p] = "check"
      BY <1>3, ActsShape
    <2>2. Active(p) /\ (AppendEntry(p) \/ ledger' = ledger)
      BY <1>3, ActsShape
    <2>3. pc'[p] = s /\ \A q \in Process : q # p => pc'[q] = pc[q] /\ ~Active(q)
      BY <1>0, <2>1, <2>2 DEF SInv, Alone
    <2>4. Alone'
      BY <2>3 DEF Alone, Active
    <2>5. ChainIntact'
      BY <2>2, ChainGrows DEF SInv, ChainIntact
    <2>6. ASSUME NEW q \in Process, pc'[q] \in {"check", "append"}
          PROVE  tip'[q] = Len(ledger')
      <3>1. q = p
        BY <2>3, <2>6 DEF Active, Ended
      <3>2. CASE ReadTip(p)
        BY <1>0, <3>1, <3>2 DEF ReadTip
      <3>3. CASE tip' = tip /\ ledger' = ledger /\ pc[p] = "check"
        BY <3>1, <3>3 DEF SInv, Chaining
      <3> QED
        BY <2>1, <2>3, <2>6, <3>1, <3>2, <3>3
    <2> QED
      BY <2>4, <2>5, <2>6 DEF SInv, Chaining
  <1> QED
    BY <1>1, <1>2, <1>3, NextShape

\* Where one command runs at a time, each entry of ledger.jsonl is chained to
\* the one before it, also after commands that died half-way.
THEOREM SerialChain ==
    ASSUME AtOnce = 1
    PROVE  Spec => []ChainIntact
  <1>1. Init => SInv
    BY DEF Init, SInv, Alone, Active, ChainIntact, Chaining
  <1>2. MInv /\ SInv /\ [Next]_vars => SInv'
    BY SerialStep
  <1>3. SInv => ChainIntact
    BY DEF SInv
  <1> QED
    BY <1>1, <1>2, <1>3, MissionSound, PTL DEF Spec
-----------------------------------------------------------------------------
(* The last word of the ledger *)

Verdicts == {"gate-passed", "gate-failed", "loopback"}

Says(l, i, g) == l[i].subject = g /\ l[i].event \in Verdicts

Final(l, g) ==
    l[CHOOSE i \in {j \in DOMAIN l : Says(l, j, g)} :
         \A k \in {j \in DOMAIN l : Says(l, j, g)} : k <= i].event

LEMMA FinalVerdict == \A g : LastVerdict(g) = Final(ledger, g)
  BY DEF LastVerdict, Final, Says, Verdicts

LEMMA GreatestExists ==
    ASSUME NEW n \in Nat, NEW S \in SUBSET (1..n), S # {}
    PROVE  \E i \in S : \A j \in S : j <= i
  <1> DEFINE T == {m \in 0..n : n - m \in S}
  <1>1. \A x \in S : x \in Nat /\ n - x \in 0..n /\ n - (n - x) = x
    OBVIOUS
  <1>2. T \subseteq Nat /\ \A x \in S : n - x \in T
    BY <1>1
  <1>3. \A m \in T : m \in Nat /\ n - m \in S
    OBVIOUS
  <1> HIDE DEF T
  <1>4. T # {}
    BY <1>2
  <1>5. PICK m \in T : \A k \in T : m <= k
    BY <1>2, <1>4, LeastExists
  <1>6. m \in Nat /\ n - m \in S
    BY <1>3
  <1>7. \A j \in S : j \in Nat /\ m <= n - j
    BY <1>1, <1>2, <1>5
  <1>8. \A j \in S : j <= n - m
    BY <1>6, <1>7
  <1> QED
    BY <1>6, <1>8

\* A verdict on g that is appended becomes the last word on it, and any other
\* entry leaves the last word on g as it was.
LEMMA FinalAppend ==
    ASSUME NEW l \in Ledgers, NEW r \in [event : Events, subject : Subjects, prev : Nat], NEW g
    PROVE  /\ r.subject = g /\ r.event \in Verdicts => Final(Append(l, r), g) = r.event
           /\ ~(r.subject = g /\ r.event \in Verdicts) /\ Stands(l, g)
                 => Final(Append(l, r), g) = Final(l, g)
  <1> DEFINE m == Append(l, r)
             R == [event : Events, subject : Subjects, prev : Nat]
             n == Len(l)
             A == {j \in DOMAIN l : Says(l, j, g)}
             B == {j \in DOMAIN m : Says(m, j, g)}
  <1>1. l \in Seq(R) /\ r \in R
    BY DEF Ledgers
  <1> HIDE DEF R
  <1>2. /\ n \in Nat /\ DOMAIN l = 1..n /\ DOMAIN m = 1 .. n + 1
        /\ \A i \in 1..n : m[i] = l[i]
        /\ m[n + 1] = r
    BY <1>1
  <1> HIDE DEF m, n
  <1>3. Final(m, g) = m[CHOOSE i \in B : \A k \in B : k <= i].event
        /\ Final(l, g) = l[CHOOSE i \in A : \A k \in A : k <= i].event
    BY DEF Final
  <1>4. CASE r.subject = g /\ r.event \in Verdicts
    <2>1. n + 1 \in B
      BY <1>2, <1>4 DEF Says
    <2>2. \A k \in B : k <= n + 1 /\ k \in Nat
      BY <1>2
    <2> HIDE DEF B
    <2>3. (CHOOSE i \in B : \A k \in B : k <= i) = n + 1
      <3> DEFINE c == CHOOSE i \in B : \A k \in B : k <= i
      <3>1. c \in B /\ \A k \in B : k <= c
        BY <2>1, <2>2
      <3> HIDE DEF c
      <3>2. c = n + 1
        BY <1>2, <2>1, <2>2, <3>1
      <3> QED
        BY <3>2 DEF c
    <2>4. Final(m, g) = r.event
      BY <1>2, <1>3, <2>3
    <2> QED
      BY <1>4, <2>4 DEF m
  <1>5. CASE ~(r.subject = g /\ r.event \in Verdicts) /\ Stands(l, g)
    <2>1. \A j \in 1..n : Says(m, j, g) <=> Says(l, j, g)
      BY <1>2 DEF Says
    <2>2. ~Says(m, n + 1, g)
      BY <1>2, <1>5 DEF Says
    <2>3. A = B
      BY <1>2, <2>1, <2>2
    <2>4. A # {} /\ A \in SUBSET (1..n)
      BY <1>2, <1>5 DEF Stands, Says, Verdicts
    <2> HIDE DEF A, B
    <2>5. \E i \in A : \A j \in A : j <= i
      BY <1>2, <2>4, GreatestExists
    <2> DEFINE c == CHOOSE i \in A : \A k \in A : k <= i
    <2>6. c \in A
      BY <2>5
    <2>7. Final(l, g) = l[c].event /\ Final(m, g) = m[c].event
      BY <1>3, <2>3
    <2> HIDE DEF c
    <2>8. m[c] = l[c]
      BY <1>2, <2>4, <2>6
    <2> QED
      BY <1>5, <2>7, <2>8 DEF m
  <1> QED
    BY <1>4, <1>5 DEF m
\* The gate at place t of the phase of command c.
At(c, t) == GatesOf[c.phase][t]

\* The ledger's last word on gate g is a passing run.
Holds(l, g) == Final(l, g) = "gate-passed"

\* What a process at step s may not let slip: the last word on each gate its
\* document calls passed; that a verdict it appends is no news to the
\* document; and that the gates it runs are not passed in state.json.
Timely(l, st, s, c, d, t, e) ==
    /\ s \in Carrying =>
          \A g \in Gate : d.gate[g] = "passed" => Holds(l, g) \/ Announces(s, e, g)
    /\ s \in Appending /\ e.event \in {"loopback", "gate-failed"} =>
          \A g \in Gate : e.subject = g => d.gate[g] # "passed"
    /\ s \in Appending /\ e.event \in GateEvents => e.subject = At(c, t)
    /\ s = "execute" \/ (s \in Appending /\ e.event \in GateEvents) =>
          \A g \in Gate : st.gate[g] = "passed" => d.gate[g] = "passed" /\ g # At(c, t)

NoneSaves == \A p \in Process : pc[p] \notin {"save", "saving"}

Latest == NoneSaves /\ Readable =>
              \A g \in Gate : state.gate[g] = "passed" => Holds(ledger, g)

Undead == \A p \in Process : pc[p] # "dead"

LInv ==
    Undead =>
        /\ Latest
        /\ \A p \in Process :
              Timely(ledger, state, pc[p], cmd[p], doc[p], turn[p], entry[p])

\* Process p goes to step s, the tip it keeps aside.
Moves(p, s, c, d, t, e) == \E n \in Nat : Step(p, s, c, d, t, e, n)

LEMMA TimelyStep ==
    ASSUME MInv, SInv, NEW p \in Process, Active(p),
           NEW s, NEW c, NEW d, NEW t, NEW e, Moves(p, s, c, d, t, e),
           Timely(ledger', state', s, c, d, t, e), s # "dead" => Latest'
    PROVE  LInv'
  <1>1. /\ pc \in [Process -> Steps]
        /\ cmd \in [Process -> Commands \cup {None}]
        /\ doc \in [Process -> Documents \cup {None}]
        /\ turn \in [Process -> Nat]
        /\ entry \in [Process -> Entry \cup {None}]
    BY DEF MInv, TypeOK, Steps, Carrying, Working, Appending, Entry
  <1>2. /\ pc' = [pc EXCEPT ![p] = s] /\ cmd' = [cmd EXCEPT ![p] = c]
        /\ doc' = [doc EXCEPT ![p] = d] /\ turn' = [turn EXCEPT ![p] = t]
        /\ entry' = [entry EXCEPT ![p] = e]
    BY DEF Moves, Step
  <1>3. /\ pc'[p] = s /\ cmd'[p] = c /\ doc'[p] = d /\ turn'[p] = t /\ entry'[p] = e
    BY <1>1, <1>2
  <1>4. \A q \in Process : q # p => pc'[q] = pc[q] /\ ~Active(q)
    BY <1>1, <1>2 DEF SInv, Alone
  <1>5. ASSUME NEW q \in Process
        PROVE  Timely(ledger', state', pc'[q], cmd'[q], doc'[q], turn'[q], entry'[q])
    <2>1. CASE q = p
      BY <1>3, <2>1
    <2>2. CASE q # p
      BY <1>4, <2>2 DEF Active, Ended, Timely, Carrying, Working, Appending
    <2> QED
      BY <2>1, <2>2
  <1>6. Undead' => s # "dead"
    BY <1>3 DEF Undead
  <1> QED
    BY <1>5, <1>6 DEF LInv

\* What a process that is the only one may take for granted.
LEMMA TimelyFacts ==
    ASSUME MInv, SInv, LInv, Undead, NEW p \in Process, Active(p)
    PROVE  /\ Timely(ledger, state, pc[p], cmd[p], doc[p], turn[p], entry[p])
           /\ tip[p] \in Nat /\ ledger \in Ledgers
           /\ pc[p] \notin {"save", "saving"} => NoneSaves
           /\ pc[p] \notin {"save", "saving"} /\ Readable =>
                 \A g \in Gate : state.gate[g] = "passed" => Holds(ledger, g)
  <1>1. \A q \in Process : q # p => ~Active(q)
    BY DEF SInv, Alone
  <1>2. pc[p] \notin {"save", "saving"} => NoneSaves
    BY <1>1 DEF NoneSaves, Active, Ended
  <1>3. tip[p] \in Nat /\ ledger \in Ledgers
    BY Facts DEF LocalTyped
  <1> QED
    BY <1>2, <1>3 DEF LInv, Latest

\* A step that leaves state.json and the ledger alone keeps the last words.
LEMMA LatestStays ==
    ASSUME MInv, SInv, LInv, Undead, NEW p \in Process, Active(p),
           pc[p] \notin {"save", "saving"}, state' = state, ledger' = ledger
    PROVE  Latest'
  <1>1. Readable => \A g \in Gate : state.gate[g] = "passed" => Holds(ledger, g)
    BY TimelyFacts
  <1> QED
    BY <1>1 DEF Latest, Readable

LEMMA TimelyExit ==
    ASSUME MInv, SInv, LInv, Undead, NEW p \in Process, Active(p), NEW s \in Ended, Exit(p),
           pc' = [pc EXCEPT ![p] = s], s # "dead" => Latest'
    PROVE  LInv'
  <1>1. cmd' = [cmd EXCEPT ![p] = cmd[p]]
    BY Shapes DEF Exit
  <1>2. Moves(p, s, cmd[p], None, 0, None)
    BY <1>1 DEF Moves, Step, Exit
  <1>3. Timely(ledger', state', s, cmd[p], None, 0, None)
    BY DEF Timely, Ended, Carrying, Working, Appending
  <1> QED
    BY <1>2, <1>3, TimelyStep

LEMMA TimelyRefuse ==
    ASSUME MInv, SInv, LInv, Undead, NEW p \in Process,
           NEW from \in {"kickoff", "load", "check", "execute"}, Refuse(p, from)
    PROVE  LInv'
  <1>1. /\ pc[p] = from /\ pc' = [pc EXCEPT ![p] = "refused"] /\ Exit(p)
        /\ state' = state /\ ledger' = ledger
    BY DEF Refuse, Goto
  <1>2. Active(p) /\ pc[p] \notin {"save", "saving"}
    BY <1>1 DEF Active, Ended
  <1>3. Latest'
    BY <1>1, <1>2, LatestStays
  <1> QED
    BY <1>1, <1>2, <1>3, TimelyExit DEF Ended

LEMMA TimelyDie ==
    ASSUME MInv, SInv, LInv, Undead, NEW p \in Process, Die(p)
    PROVE  LInv'
  BY TimelyExit DEF Die, Ended

LEMMA TimelySaveWrite ==
    ASSUME MInv, SInv, LInv, Undead, NEW p \in Process, SaveWrite(p)
    PROVE  LInv'
  <1>1. /\ pc[p] = "saving" /\ pc' = [pc EXCEPT ![p] = "done"] /\ Exit(p)
        /\ ledger' = ledger /\ state' \in {doc[p], Garbled}
    BY DEF SaveWrite, Goto
  <1>2. Active(p)
    BY <1>1 DEF Active, Ended
  <1>3. \A g \in Gate : doc[p].gate[g] = "passed" => Holds(ledger, g)
    BY <1>1, <1>2, TimelyFacts DEF Timely, Carrying, Working, Appending, Announces
  <1>4. Latest'
    BY <1>1, <1>3 DEF Latest, Readable
  <1> QED
    BY <1>1, <1>2, <1>4, TimelyExit DEF Ended
LEMMA TimelyKickoff ==
    ASSUME MInv, SInv, LInv, Undead, NEW p \in Process, Kickoff(p)
    PROVE  LInv'
  <1>1. pc[p] = "kickoff" /\ pc' = [pc EXCEPT ![p] = "save"] /\ doc' = [doc EXCEPT ![p] = Fresh]
        /\ state' = state /\ ledger' = ledger
    BY DEF Kickoff, Goto
  <1>2. Active(p) /\ tip[p] \in Nat
    BY <1>1, Facts DEF Active, Ended, LocalTyped
  <1>3. Step(p, "save", cmd[p], Fresh, turn[p], entry[p], tip[p])
    BY <1>1, Shapes DEF Step, Kickoff
  <1>4. Moves(p, "save", cmd[p], Fresh, turn[p], entry[p])
    BY <1>2, <1>3 DEF Moves
  <1>5. Timely(ledger', state', "save", cmd[p], Fresh, turn[p], entry[p])
    BY FreshShape DEF Timely, Carrying, Working, Appending
  <1>6. Latest'
    BY <1>1, <1>2, LatestStays
  <1> QED
    BY <1>2, <1>4, <1>5, <1>6, TimelyStep

\* A command that begins to append an entry which is no news to its document.
LEMMA TimelyBegin ==
    ASSUME MInv, SInv, LInv, Undead, NEW p \in Process, NEW op, Loads(p, op), NEW d,
           NEW event \in {"loopback", "stage-advance", "phase-close"}, NEW subject,
           Begin(p, d, event, subject),
           UNCHANGED <<state, ledger, approved, cmd, turn, tip>>,
           \A g \in Gate : d.gate[g] = "passed" => state.gate[g] = "passed",
           event = "loopback" => \A g \in Gate : subject = g => d.gate[g] # "passed"
    PROVE  LInv'
  <1> DEFINE e == [event |-> event, subject |-> subject]
  <1>1. pc' = [pc EXCEPT ![p] = "tip"] /\ doc' = [doc EXCEPT ![p] = d]
        /\ entry' = [entry EXCEPT ![p] = e]
    BY DEF Begin
  <1>2. e.event = event /\ e.subject = subject
    OBVIOUS
  <1> HIDE DEF e
  <1>3. pc[p] = "load" /\ Active(p) /\ Readable /\ tip[p] \in Nat
    BY LoadFacts DEF Loads, Active, Ended
  <1>4. Step(p, "tip", cmd[p], d, turn[p], e, tip[p])
    BY <1>1, Shapes DEF Step
  <1>5. Moves(p, "tip", cmd[p], d, turn[p], e)
    BY <1>3, <1>4 DEF Moves
  <1>6. \A g \in Gate : state.gate[g] = "passed" => Holds(ledger, g)
    BY <1>3, TimelyFacts
  <1>7. \A g \in Gate : d.gate[g] = "passed" => Holds(ledger, g)
    BY <1>6
  <1>8. e.event \notin GateEvents
    BY <1>2 DEF GateEvents
  <1>9. Timely(ledger', state', "tip", cmd[p], d, turn[p], e)
    BY <1>2, <1>7, <1>8 DEF Timely, Carrying, Working, Appending
  <1>10. Latest'
    BY <1>3, LatestStays
  <1> QED
    BY <1>3, <1>5, <1>9, <1>10, TimelyStep

LEMMA TimelyCommand ==
    ASSUME MInv, SInv, LInv, Undead, NEW p \in Process, Fail(p) \/ Advance(p) \/ ClosePhase(p)
    PROVE  LInv'
  <1>1. CASE Fail(p)
    <2> DEFINE g == cmd[p].gate
               d == Failed(state, g, Target(cmd[p]))
    <2>1. /\ Loads(p, "fail") /\ Begin(p, d, "loopback", g)
          /\ UNCHANGED <<state, ledger, approved, cmd, turn, tip>>
      BY <1>1 DEF Fail
    <2>2. g \in Gate /\ Target(cmd[p]) \in Stages /\ state \in Documents
      BY <2>1, LoadFacts, CommandShape
    <2>3. d.gate = [state.gate EXCEPT ![g] = "failed"]
      BY <2>2, FailedShape
    <2>4. state.gate \in [Gate -> {"pending", "passed", "failed"}]
      BY <2>2, DocumentShape
    <2> HIDE DEF d
    <2>5. \A h \in Gate : d.gate[h] = "passed" => state.gate[h] = "passed" /\ h # g
      BY <2>2, <2>3, <2>4
    <2> QED
      BY <2>1, <2>5, TimelyBegin
  <1>2. CASE Advance(p)
    <2> DEFINE d == Advanced(state, cmd[p].to)
    <2>1. /\ Loads(p, "advance") /\ Begin(p, d, "stage-advance", None)
          /\ UNCHANGED <<state, ledger, approved, cmd, turn, tip>>
      BY <1>2 DEF Advance
    <2>2. d.gate = state.gate
      BY <2>1, LoadFacts, CommandShape, AdvancedShape
    <2> HIDE DEF d
    <2> QED
      BY <2>1, <2>2, TimelyBegin
  <1>3. CASE ClosePhase(p)
    <2> DEFINE ph == cmd[p].phase
               d == Closed(state, ph)
    <2>1. /\ Loads(p, "close") /\ Begin(p, d, "phase-close", ph)
          /\ UNCHANGED <<state, ledger, approved, cmd, turn, tip>>
      BY <1>3 DEF ClosePhase
    <2>2. d.gate = state.gate
      BY <2>1, LoadFacts DEF Closed, Documents
    <2> HIDE DEF d
    <2> QED
      BY <2>1, <2>2, TimelyBegin
  <1> QED
    BY <1>1, <1>2, <1>3

\* A command that turns to the gate at t, not passed in its document.
LEMMA TimelyGate ==
    ASSUME NEW p, NEW l, NEW st, NEW d, NEW t,
           \A g \in Gate : d.gate[g] = "passed" => Holds(l, g),
           \A g \in Gate : st.gate[g] = "passed" => d.gate[g] = "passed",
           d.gate[GateAt(p, t)] # "passed"
    PROVE  Timely(l, st, "tip", cmd[p], d, t, Opening(GateAt(p, t)))
  <1>1. /\ Opening(GateAt(p, t)).event = "gate-start"
        /\ Opening(GateAt(p, t)).subject = At(cmd[p], t)
        /\ GateAt(p, t) = At(cmd[p], t)
    BY DEF Opening, At, GateAt
  <1> QED
    BY <1>1 DEF Timely, Carrying, Working, Appending

LEMMA TimelyRunGates ==
    ASSUME MInv, SInv, LInv, Undead, NEW p \in Process, RunGates(p)
    PROVE  LInv'
  <1> DEFINE ph == cmd[p].phase
             d == Started(state, ph)
  <1>1. /\ Loads(p, "run") /\ Continue(p, state, 0) /\ doc' = [doc EXCEPT ![p] = d]
        /\ cmd' = cmd /\ tip' = tip /\ state' = state /\ ledger' = ledger
    BY DEF RunGates
  <1>2. ph \in Phase /\ d.gate = state.gate
    BY <1>1, LoadFacts, CommandShape, StartedShape
  <1>3. pc[p] = "load" /\ Active(p) /\ Readable /\ tip[p] \in Nat
    BY <1>1, LoadFacts DEF Loads, Active, Ended
  <1>4. cmd' = [cmd EXCEPT ![p] = cmd[p]] /\ tip' = [tip EXCEPT ![p] = tip[p]]
    BY <1>1, Shapes
  <1> HIDE DEF d
  <1>5. \A g \in Gate : d.gate[g] = "passed" => Holds(ledger, g)
    BY <1>2, <1>3, TimelyFacts
  <1>6. Latest'
    BY <1>1, <1>3, LatestStays
  <1>7. CASE /\ pc' = [pc EXCEPT ![p] = "save"]
             /\ turn' = [turn EXCEPT ![p] = turn[p]] /\ entry' = [entry EXCEPT ![p] = entry[p]]
    <2>1. Moves(p, "save", cmd[p], d, turn[p], entry[p])
      BY <1>1, <1>3, <1>4, <1>7 DEF Moves, Step
    <2>2. Timely(ledger', state', "save", cmd[p], d, turn[p], entry[p])
      BY <1>1, <1>5 DEF Timely, Carrying, Working, Appending
    <2> QED
      BY <1>3, <1>6, <2>1, <2>2, TimelyStep
  <1>8. ASSUME NEW t \in ToRun(state, ph, 0),
               pc' = [pc EXCEPT ![p] = "tip"], turn' = [turn EXCEPT ![p] = t],
               entry' = [entry EXCEPT ![p] = Opening(GateAt(p, t))]
        PROVE  LInv'
    <2>1. Moves(p, "tip", cmd[p], d, t, Opening(GateAt(p, t)))
      BY <1>1, <1>3, <1>4, <1>8 DEF Moves, Step
    <2>2. d.gate[GateAt(p, t)] # "passed"
      BY <1>2, <1>8 DEF ToRun, GateAt
    <2>3. Timely(ledger', state', "tip", cmd[p], d, t, Opening(GateAt(p, t)))
      BY <1>1, <1>2, <1>5, <2>2, TimelyGate
    <2> QED
      BY <1>3, <1>6, <2>1, <2>3, TimelyStep
  <1> QED
    BY <1>1, <1>2, <1>7, <1>8, ContinueShape
LEMMA TimelyWait ==
    ASSUME MInv, SInv, LInv, Undead, NEW p \in Process, ReadTip(p) \/ CheckTip(p)
    PROVE  LInv'
  <1>1. ASSUME pc[p] \in Appending, NEW s \in Appending, NEW n \in Nat,
               pc' = [pc EXCEPT ![p] = s], tip' = [tip EXCEPT ![p] = n],
               UNCHANGED <<state, ledger, cmd, doc, turn, entry>>
        PROVE  LInv'
    <2>1. Active(p) /\ pc[p] \notin {"save", "saving"}
      BY <1>1 DEF Active, Ended, Appending
    <2>2. Moves(p, s, cmd[p], doc[p], turn[p], entry[p])
      BY <1>1, Shapes DEF Moves, Step
    <2>3. Timely(ledger, state, pc[p], cmd[p], doc[p], turn[p], entry[p])
      BY <2>1, TimelyFacts
    <2>4. Timely(ledger', state', s, cmd[p], doc[p], turn[p], entry[p])
      BY <1>1, <2>3 DEF Timely, Carrying, Working, Appending, Announces
    <2> QED
      BY <1>1, <2>1, <2>2, <2>4, LatestStays, TimelyStep
  <1>2. CASE ReadTip(p)
    <2>1. Len(ledger) \in Nat
      BY Facts DEF Ledgers
    <2> QED
      BY <1>1, <1>2, <2>1 DEF ReadTip, Goto, Appending
  <1>3. CASE Refuse(p, "check")
    BY <1>3, TimelyRefuse
  <1>4. CASE Goto(p, "check", "append") /\ UNCHANGED <<state, ledger, approved, local>>
    <2>1. tip[p] \in Nat /\ tip' = [tip EXCEPT ![p] = tip[p]]
      BY <1>4, Facts, Shapes DEF LocalTyped, local, memory
    <2> QED
      BY <1>1, <1>4, <2>1 DEF Goto, Appending, local, memory
  <1> QED
    BY <1>2, <1>3, <1>4 DEF CheckTip

\* An appended entry leaves every last word the documents count on.
LEMMA AppendHolds ==
    ASSUME MInv, SInv, LInv, Undead, NEW p \in Process, AppendEntry(p)
    PROVE  /\ Active(p) /\ pc[p] = "append"
           /\ \A g \in Gate : doc[p].gate[g] = "passed" => Holds(ledger', g)
           /\ entry[p].event \in GateEvents =>
                 /\ \A g \in Gate : state.gate[g] = "passed" =>
                       doc[p].gate[g] = "passed" /\ g # At(cmd[p], turn[p])
                 /\ entry[p].subject = At(cmd[p], turn[p])
                 /\ Readable => \A g \in Gate : state.gate[g] = "passed" => Holds(ledger', g)
  <1> DEFINE r == Chained(p)
  <1>1. pc[p] = "append" /\ ledger' = Append(ledger, r) /\ Active(p)
    BY DEF AppendEntry, Active, Ended
  <1>2. /\ r \in [event : Events, subject : Subjects, prev : Nat]
        /\ r.event = entry[p].event /\ r.subject = entry[p].subject
    BY AppendFacts DEF Entry, Chained
  <1> HIDE DEF r
  <1>3. /\ Sound(ledger, "append", cmd[p], doc[p], turn[p], entry[p])
        /\ ledger \in Ledgers /\ SoundState(ledger, state)
    BY <1>1, Facts
  <1>4. \A g \in Gate : doc[p].gate[g] = "passed" =>
           Stands(ledger, g) \/ Announces("append", entry[p], g)
    BY <1>3 DEF Sound, Carrying, Working, Appending
  <1>5. /\ Timely(ledger, state, "append", cmd[p], doc[p], turn[p], entry[p])
        /\ Readable => \A g \in Gate : state.gate[g] = "passed" => Holds(ledger, g)
    BY <1>1, TimelyFacts
  <1>6. /\ \A g \in Gate : doc[p].gate[g] = "passed" =>
              Holds(ledger, g) \/ Announces("append", entry[p], g)
        /\ entry[p].event \in {"loopback", "gate-failed"} =>
              \A g \in Gate : entry[p].subject = g => doc[p].gate[g] # "passed"
        /\ entry[p].event \in GateEvents =>
              /\ \A g \in Gate : state.gate[g] = "passed" =>
                    doc[p].gate[g] = "passed" /\ g # At(cmd[p], turn[p])
              /\ entry[p].subject = At(cmd[p], turn[p])
    BY <1>5 DEF Timely, Carrying, Working, Appending
  <1>7. ASSUME NEW g \in Gate
        PROVE  /\ r.subject = g /\ r.event \in Verdicts => Final(ledger', g) = r.event
               /\ ~(r.subject = g /\ r.event \in Verdicts) /\ Stands(ledger, g)
                     => Final(ledger', g) = Final(ledger, g)
    BY <1>1, <1>2, <1>3, FinalAppend
  <1>8. ASSUME NEW g \in Gate, doc[p].gate[g] = "passed"
        PROVE  Holds(ledger', g)
    <2>1. CASE Announces("append", entry[p], g)
      BY <1>2, <1>7, <2>1 DEF Announces, Verdicts, Holds
    <2>2. CASE ~Announces("append", entry[p], g)
      <3>1. Stands(ledger, g) /\ Holds(ledger, g)
        BY <1>4, <1>6, <1>8, <2>2
      <3>2. ~(r.subject = g /\ r.event \in Verdicts)
        BY <1>2, <1>6, <1>8, <2>2 DEF Announces, Appending, Verdicts
      <3> QED
        BY <1>7, <3>1, <3>2 DEF Holds
    <2> QED
      BY <2>1, <2>2
  <1>9. ASSUME entry[p].event \in GateEvents, Readable, NEW g \in Gate, state.gate[g] = "passed"
        PROVE  Holds(ledger', g)
    <2>1. Stands(ledger, g) /\ Holds(ledger, g)
      BY <1>3, <1>5, <1>9 DEF SoundState, Readable, PassedStands
    <2>2. r.subject # g
      BY <1>2, <1>6, <1>9
    <2> QED
      BY <1>7, <2>1, <2>2 DEF Holds
  <1> QED
    BY <1>1, <1>6, <1>8, <1>9

LEMMA TimelyAppend ==
    ASSUME MInv, SInv, LInv, Undead, NEW p \in Process, AppendEntry(p)
    PROVE  LInv'
  <1>1. /\ Active(p) /\ pc[p] = "append"
        /\ \A g \in Gate : doc[p].gate[g] = "passed" => Holds(ledger', g)
        /\ entry[p].event \in GateEvents =>
              /\ \A g \in Gate : state.gate[g] = "passed" =>
                    doc[p].gate[g] = "passed" /\ g # At(cmd[p], turn[p])
              /\ entry[p].subject = At(cmd[p], turn[p])
              /\ Readable => \A g \in Gate : state.gate[g] = "passed" => Holds(ledger', g)
    BY AppendHolds
  <1>2. /\ state' = state /\ cmd' = cmd /\ doc' = doc /\ tip' = tip /\ tip[p] \in Nat
        /\ entry[p].event \in GateEvents => AtGate(cmd[p], turn[p])
    BY AppendFacts DEF AppendEntry
  <1>3. /\ cmd' = [cmd EXCEPT ![p] = cmd[p]] /\ doc' = [doc EXCEPT ![p] = doc[p]]
        /\ tip' = [tip EXCEPT ![p] = tip[p]]
    BY <1>2, Shapes
  <1>4. entry[p].event \in GateEvents => Latest'
    BY <1>1, <1>2 DEF Latest, Readable
  <1>5. ASSUME pc' = [pc EXCEPT ![p] = "save"],
               turn' = [turn EXCEPT ![p] = turn[p]], entry' = [entry EXCEPT ![p] = entry[p]]
        PROVE  LInv'
    <2>1. Moves(p, "save", cmd[p], doc[p], turn[p], entry[p])
      BY <1>2, <1>3, <1>5 DEF Moves, Step
    <2>2. Timely(ledger', state', "save", cmd[p], doc[p], turn[p], entry[p])
      BY <1>1 DEF Timely, Carrying, Working, Appending
    <2>3. pc'[p] = "save"
      BY <1>5 DEF MInv, TypeOK
    <2>4. Latest'
      BY <2>3 DEF Latest, NoneSaves
    <2> QED
      BY <1>1, <2>1, <2>2, <2>4, TimelyStep
  <1>6. CASE /\ entry[p].event = "gate-start"
             /\ pc' = [pc EXCEPT ![p] = "execute"] /\ UNCHANGED <<turn, entry>>
    <2>1. Moves(p, "execute", cmd[p], doc[p], turn[p], entry[p])
      BY <1>2, <1>3, <1>6, Shapes DEF Moves, Step
    <2>2. Timely(ledger', state', "execute", cmd[p], doc[p], turn[p], entry[p])
      BY <1>1, <1>2, <1>6 DEF Timely, Carrying, Working, Appending, GateEvents
    <2> QED
      BY <1>1, <1>4, <1>6, <2>1, <2>2, TimelyStep DEF GateEvents
  <1>7. CASE entry[p].event \in {"gate-passed", "gate-failed"} /\ Continue(p, doc[p], turn[p])
    <2>1. cmd[p].phase \in Phase /\ entry[p].event \in GateEvents
      BY <1>2, <1>7 DEF AtGate, GateEvents
    <2>2. ASSUME NEW t \in ToRun(doc[p], cmd[p].phase, turn[p]),
                 pc' = [pc EXCEPT ![p] = "tip"], turn' = [turn EXCEPT ![p] = t],
                 entry' = [entry EXCEPT ![p] = Opening(GateAt(p, t))]
          PROVE  LInv'
      <3>1. Moves(p, "tip", cmd[p], doc[p], t, Opening(GateAt(p, t)))
        BY <1>2, <1>3, <2>2 DEF Moves, Step
      <3>2. doc[p].gate[GateAt(p, t)] # "passed"
        BY <2>2 DEF ToRun, GateAt
      <3>3. Timely(ledger', state', "tip", cmd[p], doc[p], t, Opening(GateAt(p, t)))
        BY <1>1, <1>2, <2>1, <3>2, TimelyGate
      <3> QED
        BY <1>1, <1>4, <2>1, <3>1, <3>3, TimelyStep
    <2> QED
      BY <1>5, <1>7, <2>1, <2>2, ContinueShape
  <1>8. CASE /\ entry[p].event \notin {"gate-start", "gate-passed", "gate-failed"}
             /\ pc' = [pc EXCEPT ![p] = "save"] /\ UNCHANGED <<turn, entry>>
    BY <1>5, <1>8, Shapes
  <1> QED
    BY <1>6, <1>7, <1>8 DEF AppendEntry
LEMMA TimelyExecute ==
    ASSUME MInv, SInv, LInv, Undead, NEW p \in Process, NEW passed \in BOOLEAN,
           ExecuteGate(p, passed)
    PROVE  LInv'
  <1> DEFINE g == GateAt(p, turn[p])
  <1>1. PICK status \in {"passed", "failed"} :
              /\ pc[p] = "execute" /\ pc' = [pc EXCEPT ![p] = "tip"]
              /\ doc' = [doc EXCEPT ![p] = Verdict(doc[p], g, status)]
              /\ entry' = [entry EXCEPT ![p] = Closing(g, status)]
              /\ UNCHANGED <<state, ledger, approved, cmd, turn, tip>>
    BY ExecuteShape
  <1> DEFINE v == Verdict(doc[p], g, status)
             e == Closing(g, status)
  <1>2. /\ Sound(ledger, "execute", cmd[p], doc[p], turn[p], entry[p])
        /\ tip[p] \in Nat /\ Active(p) /\ pc[p] \notin {"save", "saving"}
    BY <1>1, Facts DEF LocalTyped, Active, Ended
  <1>3. Moves(p, "tip", cmd[p], v, turn[p], e)
    BY <1>1, <1>2, Shapes DEF Moves, Step
  <1>4. /\ doc[p] \in Documents /\ AtGate(cmd[p], turn[p])
    BY <1>2 DEF Sound, Carrying, Working
  <1>5. g \in Gate /\ g = At(cmd[p], turn[p])
    BY <1>4, GateShape DEF AtGate, At, GateAt
  <1> HIDE DEF g
  <1>6. Rules(doc[p], v, g, status)
    BY <1>4, <1>5, VerdictRules
  <1>7. e.subject = g /\ e.event = IF status = "passed" THEN "gate-passed" ELSE "gate-failed"
    BY DEF Closing
  <1>8. doc[p].gate \in [Gate -> {"pending", "passed", "failed"}]
    BY <1>4, DocumentShape
  <1> HIDE DEF v, e
  <1>9. /\ v.gate[g] = status
        /\ \A h \in Gate : h # g => v.gate[h] = doc[p].gate[h]
    BY <1>5, <1>6, <1>8 DEF Rules
  <1>10. Timely(ledger, state, "execute", cmd[p], doc[p], turn[p], entry[p])
    BY <1>1, <1>2, TimelyFacts
  <1>11. /\ \A h \in Gate : doc[p].gate[h] = "passed" => Holds(ledger, h)
         /\ \A h \in Gate : state.gate[h] = "passed" => doc[p].gate[h] = "passed" /\ h # g
    BY <1>5, <1>10 DEF Timely, Carrying, Working, Appending, Announces
  <1>12. \A h \in Gate : v.gate[h] = "passed" => Holds(ledger, h) \/ Announces("tip", e, h)
    BY <1>7, <1>9, <1>11 DEF Announces, Appending
  <1>13. e.event = "gate-failed" => v.gate[g] # "passed"
    BY <1>1, <1>7, <1>9
  <1>14. e.event # "loopback" /\ \A h \in Gate : state.gate[h] = "passed" => v.gate[h] = "passed" /\ h # g
    BY <1>7, <1>9, <1>11
  <1>15. Timely(ledger, state, "tip", cmd[p], v, turn[p], e)
    BY <1>5, <1>7, <1>12, <1>13, <1>14 DEF Timely, Carrying, Working, Appending
  <1>16. state' = state /\ ledger' = ledger
    BY <1>1
  <1>17. Latest'
    BY <1>2, <1>16, LatestStays
  <1> QED
    BY <1>2, <1>3, <1>15, <1>16, <1>17, TimelyStep

LEMMA TimelySaveOpen ==
    ASSUME MInv, SInv, LInv, Undead, NEW p \in Process, SaveOpen(p)
    PROVE  LInv'
  <1>1. /\ pc[p] = "save" /\ pc' = [pc EXCEPT ![p] = "saving"] /\ state' = Empty
        /\ UNCHANGED <<ledger, approved, cmd, doc, turn, entry, tip>>
    BY DEF SaveOpen, Goto, local, memory
  <1>2. Active(p) /\ tip[p] \in Nat
    BY <1>1, Facts DEF LocalTyped, Active, Ended
  <1>3. Moves(p, "saving", cmd[p], doc[p], turn[p], entry[p])
    BY <1>1, <1>2, Shapes DEF Moves, Step
  <1>4. Timely(ledger, state, "save", cmd[p], doc[p], turn[p], entry[p])
    BY <1>1, <1>2, TimelyFacts
  <1>5. Timely(ledger', state', "saving", cmd[p], doc[p], turn[p], entry[p])
    BY <1>1, <1>4 DEF Timely, Carrying, Working, Appending, Announces
  <1>6. Latest'
    BY <1>1 DEF Latest, Readable
  <1> QED
    BY <1>2, <1>3, <1>5, <1>6, TimelyStep

LEMMA TimelyActs ==
    ASSUME MInv, SInv, LInv, Undead, NEW p \in Process, Acts(p)
    PROVE  LInv'
  <1>1. CASE Kickoff(p) \/ KickoffRefuse(p) \/ LoadRefuse(p)
    BY <1>1, TimelyKickoff, TimelyRefuse DEF KickoffRefuse, LoadRefuse
  <1>2. CASE RunGates(p) \/ Fail(p) \/ Advance(p) \/ ClosePhase(p)
    BY <1>2, TimelyRunGates, TimelyCommand
  <1>3. CASE FailRefuse(p) \/ AdvanceRefuse(p) \/ CloseRefuse(p) \/ CustodyLost(p)
    BY <1>3, TimelyRefuse DEF FailRefuse, AdvanceRefuse, CloseRefuse, CustodyLost
  <1>4. CASE ReadTip(p) \/ CheckTip(p) \/ AppendEntry(p)
    BY <1>4, TimelyWait, TimelyAppend
  <1>5. CASE \E passed \in BOOLEAN : ExecuteGate(p, passed)
    BY <1>5, TimelyExecute
  <1>6. CASE SaveOpen(p) \/ SaveWrite(p) \/ Die(p)
    BY <1>6, TimelySaveOpen, TimelySaveWrite, TimelyDie
  <1> QED
    BY <1>1, <1>2, <1>3, <1>4, <1>5, <1>6 DEF Acts

LEMMA LatestStep ==
    ASSUME AtOnce = 1, MInv, SInv, LInv, [Next]_vars
    PROVE  LInv'
  <1>0. pc \in [Process -> Steps]
    BY DEF MInv, TypeOK, Steps, Carrying, Working, Appending
  <1>1. CASE Drift \/ vars' = vars
    <2>1. /\ pc' = pc /\ cmd' = cmd /\ doc' = doc /\ turn' = turn /\ entry' = entry
          /\ state' = state /\ ledger' = ledger
      BY <1>1 DEF Drift, vars, local, memory
    <2> QED
      BY <2>1 DEF LInv, Undead, Latest, NoneSaves, Readable
  <1>2. ASSUME NEW p \in Process, NEW c \in Commands, Start(p, c)
        PROVE  LInv'
    <2>1. PICK s \in {"kickoff", "load"} : pc' = [pc EXCEPT ![p] = s]
      BY <1>2 DEF Start, Goto
    <2>2. /\ state' = state /\ ledger' = ledger /\ pc[p] = "idle"
      BY <1>2 DEF Start, Goto
    <2>3. pc'[p] = s /\ \A q \in Process : q # p => pc'[q] = pc[q]
      BY <1>0, <2>1
    <2>4. \A q \in Process : pc[q] \in Ended \cup {"idle"}
      BY <1>2, StartsAlone DEF Active
    <2>5. \A q \in Process : pc'[q] \notin Carrying
      BY <2>3, <2>4 DEF Ended, Carrying, Working, Appending
    <2>6. NoneSaves
      BY <2>4 DEF NoneSaves, Ended
    <2>7. Undead' => Undead
      BY <2>2, <2>3 DEF Undead
    <2>8. Undead' => Latest'
      BY <2>2, <2>6, <2>7 DEF LInv, Latest, Readable
    <2>9. \A q \in Process :
             Timely(ledger', state', pc'[q], cmd'[q], doc'[q], turn'[q], entry'[q])
      BY <2>5 DEF Timely, Carrying, Working
    <2> QED
      BY <2>8, <2>9 DEF LInv
  <1>3. ASSUME NEW p \in Process, Acts(p)
        PROVE  LInv'
    <2>1. CASE Undead
      BY <1>3, <2>1, TimelyActs
    <2>2. CASE ~Undead
      <3>1. PICK q \in Process : pc[q] = "dead"
        BY <2>2 DEF Undead
      <3>2. Active(p) /\ \E s \in Steps : pc' = [pc EXCEPT ![p] = s]
        BY <1>3, ActsShape
      <3>3. pc'[q] = "dead"
        BY <1>0, <3>1, <3>2 DEF Active, Ended
      <3> QED
        BY <3>3 DEF LInv, Undead
    <2> QED
      BY <2>1, <2>2
  <1> QED
    BY <1>1, <1>2, <1>3, NextShape

\* Where one command runs at a time and none was killed, the last word of
\* ledger.jsonl on a gate that state.json calls passed is a passing run: a
\* failure recorded later was never lost, though commands were refused or lost
\* their evidence half-way.
THEOREM SerialLastWord ==
    ASSUME AtOnce = 1
    PROVE  Spec => []PassedIsLatestVerdict
  <1>1. Init => SInv /\ LInv
    BY DEF Init, SInv, Alone, Active, ChainIntact, Chaining, LInv, Latest, Readable, Timely,
           Carrying, Working, Appending
  <1>2. MInv /\ SInv /\ LInv /\ [Next]_vars => SInv' /\ LInv'
    BY SerialStep, LatestStep
  <1>3. MInv /\ SInv /\ LInv => PassedIsLatestVerdict
    <2> SUFFICES ASSUME LInv, Readable, \A p \in Process : ~Active(p) /\ pc[p] # "dead",
                        NEW g \in Gate, state.gate[g] = "passed"
                 PROVE  LastVerdict(g) = "gate-passed"
      BY DEF PassedIsLatestVerdict
    <2>1. Undead /\ NoneSaves
      BY DEF Undead, NoneSaves, Active, Ended
    <2> QED
      BY <2>1, FinalVerdict DEF LInv, Latest, Holds
  <1> QED
    BY <1>1, <1>2, <1>3, MissionSound, PTL DEF Spec
-----------------------------------------------------------------------------
(* What a fail command has recorded *)

\* The fail commands that have ended.
Failures == {p \in Process : pc[p] = "done" /\ cmd[p].op = "fail"}

Recorded == Cardinality(Failures)

Extra(c) == IF c.op = "fail" THEN 1 ELSE 0

\* A document about to be written counts the loopbacks of all ended fail
\* commands, and of its own.
Counts(s, c, d) == s \in Carrying => Recorded + Extra(c) <= Len(d.loopbacks)

RInv ==
    /\ state = None => Recorded = 0
    /\ Readable => Recorded <= Len(state.loopbacks)
    /\ \A p \in Process :
          /\ pc[p] = "kickoff" => cmd[p].op = "kickoff"
          /\ Counts(pc[p], cmd[p], doc[p])

LEMMA RecordedNat == Recorded \in Nat /\ IsFiniteSet(Failures)
  <1>1. Failures \in SUBSET Process
    BY DEF Failures
  <1>2. IsFiniteSet(Failures)
    BY <1>1, MissionAssumption, FS_Subset
  <1> QED
    BY <1>2, FS_CardinalityType DEF Recorded

LEMMA LoopbackCount ==
    ASSUME NEW d \in Documents
    PROVE  /\ Len(d.loopbacks) \in Nat
           /\ \A g \in Gate, to \in Stages :
                 Len(Failed(d, g, to).loopbacks) = Len(d.loopbacks) + 1
           /\ \A g \in Gate, status \in {"passed", "failed"} :
                 Len(Verdict(d, g, status).loopbacks) = Len(d.loopbacks)
  <1>1. d.loopbacks \in Seq(Loopback) /\ Len(d.loopbacks) \in Nat
    BY DocumentShape
  <1>2. ASSUME NEW g \in Gate, NEW to \in Stages
        PROVE  Len(Failed(d, g, to).loopbacks) = Len(d.loopbacks) + 1
    <2>1. Failed(d, g, to).loopbacks = Append(d.loopbacks, Opened(g))
      BY <1>2, FailedLoopbacks
    <2>2. Opened(g) \in Loopback
      BY <1>2 DEF Opened, Loopback
    <2> QED
      BY <1>1, <2>1, <2>2
  <1>3. ASSUME NEW g \in Gate, NEW status \in {"passed", "failed"}
        PROVE  Len(Verdict(d, g, status).loopbacks) = Len(d.loopbacks)
    <2> DEFINE l == Verdict(d, g, status).loopbacks
    <2>1. Verdict(d, g, status) \in Documents /\ Resolves(d, Verdict(d, g, status), g, status)
      BY <1>3, VerdictShape
    <2>2. l \in Seq(Loopback) /\ DOMAIN l = DOMAIN d.loopbacks
      BY <2>1, DocumentShape DEF Resolves
    <2> HIDE DEF l
    <2>3. Len(l) = Len(d.loopbacks)
      BY <1>1, <2>2
    <2> QED
      BY <2>3 DEF l
  <1> QED
    BY <1>1, <1>2, <1>3

\* A step that ends no command leaves the count as it is.
LEMMA RecordStep ==
    ASSUME MInv, SInv, RInv, NEW p \in Process, Active(p),
           NEW s \in Steps \ {"done", "kickoff"}, NEW d,
           pc' = [pc EXCEPT ![p] = s], doc' = [doc EXCEPT ![p] = d], cmd' = cmd,
           state' \in {state, Empty},
           Counts(s, cmd[p], d)
    PROVE  RInv'
  <1>1. pc \in [Process -> Steps] /\ doc \in [Process -> Documents \cup {None}]
    BY DEF MInv, TypeOK, Steps, Carrying, Working, Appending
  <1>2. pc'[p] = s /\ doc'[p] = d /\ \A q \in Process : q # p => pc'[q] = pc[q] /\ ~Active(q)
    BY <1>1 DEF SInv, Alone
  <1>3. Failures' = Failures
    BY <1>2 DEF Failures, Active, Ended
  <1>4. Recorded' = Recorded
    BY <1>3 DEF Recorded
  <1>5. state' = None => Recorded' = 0
    BY <1>4, NullsAssumption DEF RInv
  <1>6. Readable' => Recorded' <= Len(state'.loopbacks)
    BY <1>4 DEF RInv, Readable
  <1>7. ASSUME NEW q \in Process
        PROVE  /\ pc'[q] = "kickoff" => cmd'[q].op = "kickoff"
               /\ Counts(pc[q], cmd[q], doc[q])'
    <2>1. CASE q = p
      BY <1>2, <1>4, <2>1 DEF Counts
    <2>2. CASE q # p
      BY <1>2, <2>2 DEF Counts, Active, Ended, Carrying, Working, Appending
    <2> QED
      BY <2>1, <2>2
  <1> QED
    BY <1>5, <1>6, <1>7 DEF RInv

LEMMA RecordRefuse ==
    ASSUME MInv, SInv, RInv, NEW p \in Process,
           NEW from \in {"kickoff", "load", "check", "execute"}, Refuse(p, from)
    PROVE  RInv'
  <1>1. /\ pc[p] = from /\ pc' = [pc EXCEPT ![p] = "refused"] /\ doc' = [doc EXCEPT ![p] = None]
        /\ cmd' = cmd /\ state' = state
    BY DEF Refuse, Goto, Exit
  <1>2. Counts("refused", cmd[p], None)
    BY DEF Counts, Carrying, Working, Appending
  <1> QED
    BY <1>1, <1>2, RecordStep DEF Active, Ended, Steps

LEMMA RecordDie ==
    ASSUME MInv, SInv, RInv, NEW p \in Process, Die(p)
    PROVE  RInv'
  <1>1. /\ Active(p) /\ pc' = [pc EXCEPT ![p] = "dead"] /\ doc' = [doc EXCEPT ![p] = None]
        /\ cmd' = cmd /\ state' = state
    BY DEF Die, Exit
  <1>2. Counts("dead", cmd[p], None)
    BY DEF Counts, Carrying, Working, Appending
  <1> QED
    BY <1>1, <1>2, RecordStep DEF Ended, Steps

LEMMA RecordKickoff ==
    ASSUME MInv, SInv, RInv, NEW p \in Process, Kickoff(p)
    PROVE  RInv'
  <1>1. /\ pc[p] = "kickoff" /\ pc' = [pc EXCEPT ![p] = "save"]
        /\ doc' = [doc EXCEPT ![p] = Fresh] /\ state = None /\ cmd' = cmd /\ state' = state
    BY DEF Kickoff, Goto
  <1>2. Recorded = 0 /\ Extra(cmd[p]) = 0
    BY <1>1 DEF RInv, Extra
  <1>3. Len(Fresh.loopbacks) = 0
    BY DEF Fresh
  <1>4. Counts("save", cmd[p], Fresh)
    BY <1>2, <1>3 DEF Counts
  <1> QED
    BY <1>1, <1>4, RecordStep DEF Active, Ended, Steps, Carrying

\* A command that loads the document adds to its loopbacks if it is a fail.
LEMMA RecordLoad ==
    ASSUME MInv, SInv, RInv, NEW p \in Process,
           RunGates(p) \/ Fail(p) \/ Advance(p) \/ ClosePhase(p)
    PROVE  RInv'
  <1>1. \A op : Loads(p, op) =>
           /\ pc[p] = "load" /\ cmd[p].op = op /\ state \in Documents /\ cmd[p] \in Commands
           /\ Recorded <= Len(state.loopbacks)
    BY LoadFacts DEF Loads, RInv
  <1>2. Recorded \in Nat /\ (state \in Documents => Len(state.loopbacks) \in Nat)
    BY RecordedNat, LoopbackCount
  <1>3. ASSUME NEW s \in {"tip", "save"}, NEW d,
               pc[p] = "load", pc' = [pc EXCEPT ![p] = s], doc' = [doc EXCEPT ![p] = d],
               cmd' = cmd, state' = state, Recorded + Extra(cmd[p]) <= Len(d.loopbacks)
        PROVE  RInv'
    <2>1. Counts(s, cmd[p], d)
      BY <1>3 DEF Counts
    <2> QED
      BY <1>3, <2>1, RecordStep DEF Active, Ended, Steps, Carrying, Working, Appending
  <1>4. CASE RunGates(p)
    <2>1. /\ Loads(p, "run") /\ Continue(p, state, 0)
          /\ doc' = [doc EXCEPT ![p] = Started(state, cmd[p].phase)]
          /\ cmd' = cmd /\ state' = state
      BY <1>4 DEF RunGates
    <2>2. PICK s \in {"save", "tip"} : pc' = [pc EXCEPT ![p] = s]
      BY <2>1, ContinueMoves
    <2>3. Started(state, cmd[p].phase).loopbacks = state.loopbacks /\ Extra(cmd[p]) = 0
      BY <1>1, <2>1, CommandShape, StartedShape DEF Extra
    <2>4. pc[p] = "load" /\ Recorded + Extra(cmd[p]) <= Len(Started(state, cmd[p].phase).loopbacks)
      BY <1>1, <1>2, <2>1, <2>3
    <2> QED
      BY <1>3, <2>1, <2>2, <2>4
  <1>5. CASE Fail(p)
    <2> DEFINE d == Failed(state, cmd[p].gate, Target(cmd[p]))
    <2>1. /\ Loads(p, "fail") /\ pc' = [pc EXCEPT ![p] = "tip"]
          /\ doc' = [doc EXCEPT ![p] = d] /\ cmd' = cmd /\ state' = state
      BY <1>5 DEF Fail, Begin
    <2>2. Len(d.loopbacks) = Len(state.loopbacks) + 1 /\ Extra(cmd[p]) = 1
      BY <1>1, <2>1, CommandShape, LoopbackCount DEF Extra
    <2> HIDE DEF d
    <2>3. pc[p] = "load" /\ Recorded + Extra(cmd[p]) <= Len(d.loopbacks)
      BY <1>1, <1>2, <2>1, <2>2
    <2> QED
      BY <1>3, <2>1, <2>3
  <1>6. CASE Advance(p)
    <2> DEFINE d == Advanced(state, cmd[p].to)
    <2>1. /\ Loads(p, "advance") /\ pc' = [pc EXCEPT ![p] = "tip"]
          /\ doc' = [doc EXCEPT ![p] = d] /\ cmd' = cmd /\ state' = state
      BY <1>6 DEF Advance, Begin
    <2>2. d.loopbacks = state.loopbacks /\ Extra(cmd[p]) = 0
      BY <1>1, <2>1, CommandShape, AdvancedShape DEF Extra
    <2> HIDE DEF d
    <2>3. pc[p] = "load" /\ Recorded + Extra(cmd[p]) <= Len(d.loopbacks)
      BY <1>1, <1>2, <2>1, <2>2
    <2> QED
      BY <1>3, <2>1, <2>3
  <1>7. CASE ClosePhase(p)
    <2> DEFINE d == Closed(state, cmd[p].phase)
    <2>1. /\ Loads(p, "close") /\ pc' = [pc EXCEPT ![p] = "tip"]
          /\ doc' = [doc EXCEPT ![p] = d] /\ cmd' = cmd /\ state' = state
      BY <1>7 DEF ClosePhase, Begin
    <2>2. d.loopbacks = state.loopbacks /\ Extra(cmd[p]) = 0
      BY <1>1, <2>1, CommandShape, ClosedShape DEF Extra
    <2> HIDE DEF d
    <2>3. pc[p] = "load" /\ Recorded + Extra(cmd[p]) <= Len(d.loopbacks)
      BY <1>1, <1>2, <2>1, <2>2
    <2> QED
      BY <1>3, <2>1, <2>3
  <1> QED
    BY <1>4, <1>5, <1>6, <1>7

\* On the way from loading to writing the count of the document stays.
LEMMA RecordCarry ==
    ASSUME MInv, SInv, RInv, NEW p \in Process,
           \/ ReadTip(p) \/ CheckTip(p) \/ AppendEntry(p)
           \/ \E passed \in BOOLEAN : ExecuteGate(p, passed)
           \/ SaveOpen(p)
    PROVE  RInv'
  <1>1. ASSUME NEW s \in Carrying, NEW d, pc[p] \in Carrying,
               pc' = [pc EXCEPT ![p] = s], doc' = [doc EXCEPT ![p] = d], cmd' = cmd,
               state' \in {state, Empty}, Len(d.loopbacks) = Len(doc[p].loopbacks)
        PROVE  RInv'
    <2>1. Counts(s, cmd[p], d)
      BY <1>1 DEF Counts, RInv
    <2>2. Active(p) /\ s \in Steps \ {"done", "kickoff"}
      BY <1>1 DEF Active, Ended, Steps, Carrying, Working, Appending
    <2> QED
      BY <1>1, <2>1, <2>2, RecordStep
  <1>2. doc' = doc => doc' = [doc EXCEPT ![p] = doc[p]]
    BY Shapes
  <1>3. CASE ReadTip(p)
    BY <1>1, <1>2, <1>3 DEF ReadTip, Goto, Carrying, Working, Appending
  <1>4. CASE CheckTip(p)
    <2>1. CASE Refuse(p, "check")
      BY <2>1, RecordRefuse
    <2>2. CASE Goto(p, "check", "append") /\ UNCHANGED <<state, ledger, approved, local>>
      BY <1>1, <1>2, <2>2 DEF Goto, local, memory, Carrying, Working, Appending
    <2> QED
      BY <1>4, <2>1, <2>2 DEF CheckTip
  <1>5. CASE AppendEntry(p)
    <2>1. pc[p] = "append" /\ UNCHANGED <<state, cmd, doc>>
      BY <1>5 DEF AppendEntry
    <2>2. PICK s \in {"save", "tip", "execute"} : pc' = [pc EXCEPT ![p] = s]
      BY <1>5, ContinueMoves DEF AppendEntry
    <2> QED
      BY <1>1, <1>2, <2>1, <2>2 DEF Carrying, Working, Appending
  <1>6. ASSUME NEW passed \in BOOLEAN, ExecuteGate(p, passed)
        PROVE  RInv'
    <2>1. PICK status \in {"passed", "failed"} :
             /\ pc[p] = "execute" /\ pc' = [pc EXCEPT ![p] = "tip"]
             /\ doc' = [doc EXCEPT ![p] = Verdict(doc[p], GateAt(p, turn[p]), status)]
             /\ UNCHANGED <<state, cmd>>
      BY <1>6, ExecuteShape
    <2>2. doc[p] \in Documents /\ AtGate(cmd[p], turn[p])
      BY <2>1, Facts DEF Sound, Carrying, Working
    <2>3. GateAt(p, turn[p]) \in Gate
      BY <2>2, GateShape DEF AtGate
    <2>4. Len(Verdict(doc[p], GateAt(p, turn[p]), status).loopbacks) = Len(doc[p].loopbacks)
      BY <2>2, <2>3, LoopbackCount
    <2> QED
      BY <1>1, <2>1, <2>4 DEF Carrying, Working, Appending
  <1>7. CASE SaveOpen(p)
    BY <1>1, <1>2, <1>7 DEF SaveOpen, Goto, local, memory, Carrying
  <1> QED
    BY <1>3, <1>4, <1>5, <1>6, <1>7

\* Writing the document ends the command, with its own loopback on record.
LEMMA RecordSave ==
    ASSUME MInv, SInv, RInv, NEW p \in Process, SaveWrite(p)
    PROVE  RInv'
  <1>1. /\ pc[p] = "saving" /\ pc' = [pc EXCEPT ![p] = "done"] /\ cmd' = cmd
        /\ state' \in {doc[p], Garbled}
    BY DEF SaveWrite, Goto, Exit
  <1>2. pc \in [Process -> Steps]
    BY DEF MInv, TypeOK, Steps, Carrying, Working, Appending
  <1>3. doc[p] \in Documents /\ Active(p)
    BY <1>1, SaveFacts DEF Active, Ended
  <1>4. pc'[p] = "done" /\ \A q \in Process : q # p => pc'[q] = pc[q] /\ ~Active(q)
    BY <1>1, <1>2, <1>3 DEF SInv, Alone
  <1>5. Failures' = IF cmd[p].op = "fail" THEN Failures \cup {p} ELSE Failures
    BY <1>1, <1>4 DEF Failures
  <1>6. Recorded' = Recorded + Extra(cmd[p])
    <2>1. p \notin Failures
      BY <1>1 DEF Failures
    <2>2. Cardinality(Failures \cup {p}) = Recorded + 1
      BY <2>1, RecordedNat, FS_AddElement DEF Recorded
    <2> QED
      BY <1>5, <2>2, RecordedNat DEF Recorded, Extra
  <1>7. Recorded + Extra(cmd[p]) <= Len(doc[p].loopbacks)
    BY <1>1 DEF RInv, Counts, Carrying
  <1>8. state' # None
    BY <1>1, <1>3, NullsAssumption
  <1>9. Readable' => Recorded' <= Len(state'.loopbacks)
    BY <1>1, <1>6, <1>7 DEF Readable
  <1>10. \A q \in Process : pc'[q] \notin Carrying \cup {"kickoff"}
    BY <1>4 DEF Active, Ended, Carrying, Working, Appending
  <1> QED
    BY <1>8, <1>9, <1>10 DEF RInv, Counts

LEMMA RecordNext ==
    ASSUME AtOnce = 1, MInv, SInv, RInv, [Next]_vars
    PROVE  RInv'
  <1>0. pc \in [Process -> Steps] /\ cmd \in [Process -> Commands \cup {None}]
    BY DEF MInv, TypeOK, Steps, Carrying, Working, Appending
  <1>1. CASE Drift \/ vars' = vars
    <2>1. pc' = pc /\ cmd' = cmd /\ doc' = doc /\ state' = state
      BY <1>1 DEF Drift, vars, local, memory
    <2> QED
      BY <2>1 DEF RInv, Recorded, Failures, Counts, Readable
  <1>2. ASSUME NEW p \in Process, NEW c \in Commands, Start(p, c)
        PROVE  RInv'
    <2>1. /\ pc[p] = "idle" /\ cmd' = [cmd EXCEPT ![p] = c] /\ state' = state
          /\ pc' = [pc EXCEPT ![p] = IF c.op = "kickoff" THEN "kickoff" ELSE "load"]
      BY <1>2 DEF Start, Goto
    <2>2. cmd'[p] = c /\ pc'[p] \in {"kickoff", "load"}
          /\ (pc'[p] = "kickoff" => c.op = "kickoff")
      BY <1>0, <2>1
    <2>3. \A q \in Process : q # p => pc'[q] = pc[q] /\ cmd'[q] = cmd[q] /\ ~Active(q)
      BY <1>0, <1>2, <2>1, StartsAlone
    <2>4. Failures' = Failures
      BY <2>1, <2>2, <2>3 DEF Failures
    <2>5. \A q \in Process : pc'[q] \notin Carrying
      BY <2>2, <2>3 DEF Active, Ended, Carrying, Working, Appending
    <2>6. \A q \in Process : pc'[q] = "kickoff" => cmd'[q].op = "kickoff"
      BY <2>2, <2>3 DEF Active, Ended
    <2> QED
      BY <2>1, <2>4, <2>5, <2>6 DEF RInv, Recorded, Counts, Readable
  <1>3. ASSUME NEW p \in Process, Acts(p)
        PROVE  RInv'
    <2>1. CASE Kickoff(p) \/ KickoffRefuse(p) \/ LoadRefuse(p)
      BY <2>1, RecordKickoff, RecordRefuse DEF KickoffRefuse, LoadRefuse
    <2>2. CASE RunGates(p) \/ Fail(p) \/ Advance(p) \/ ClosePhase(p)
      BY <2>2, RecordLoad
    <2>3. CASE FailRefuse(p) \/ AdvanceRefuse(p) \/ CloseRefuse(p) \/ CustodyLost(p)
      BY <2>3, RecordRefuse DEF FailRefuse, AdvanceRefuse, CloseRefuse, CustodyLost
    <2>4. CASE \/ ReadTip(p) \/ CheckTip(p) \/ AppendEntry(p)
               \/ \E passed \in BOOLEAN : ExecuteGate(p, passed)
               \/ SaveOpen(p)
      BY <2>4, RecordCarry
    <2>5. CASE SaveWrite(p) \/ Die(p)
      BY <2>5, RecordSave, RecordDie
    <2> QED
      BY <1>3, <2>1, <2>2, <2>3, <2>4, <2>5 DEF Acts
  <1> QED
    BY <1>1, <1>2, <1>3, NextShape

\* "Loopbacks are recorded in state, never swept away" holds as long as one
\* command runs at a time, wherever commands are killed; MissionSwept shows two
\* that overlap and lose one.
THEOREM SerialKeepsLoopbacks ==
    ASSUME AtOnce = 1
    PROVE  Spec => []LoopbacksNeverSwept
  <1>1. Init => SInv /\ RInv
    <2> SUFFICES ASSUME Init
                 PROVE  SInv /\ RInv
      OBVIOUS
    <2>1. SInv
      BY DEF Init, SInv, Alone, Active, ChainIntact, Chaining
    <2>2. Failures = {}
      BY DEF Init, Failures
    <2>3. Recorded = 0
      BY <2>2, FS_EmptySet DEF Recorded
    <2>4. \A p \in Process : pc[p] \notin Carrying \cup {"kickoff"}
      BY DEF Init, Carrying, Working, Appending
    <2>5. ~Readable
      BY DEF Init, Readable
    <2> QED
      BY <2>1, <2>3, <2>4, <2>5 DEF RInv, Counts
  <1>2. MInv /\ SInv /\ RInv /\ [Next]_vars => SInv' /\ RInv'
    BY SerialStep, RecordNext
  <1>3. RInv => LoopbacksNeverSwept
    BY DEF RInv, LoopbacksNeverSwept, Recorded, Failures
  <1> QED
    BY <1>1, <1>2, <1>3, MissionSound, PTL DEF Spec
=============================================================================
