--------------------------- MODULE PublishProofs ----------------------------
(***************************************************************************)
(* What the release builders publish, for any files, any number of tools,  *)
(* commits and releases, while HEAD, tags and files move under them: every *)
(* manifest in an index is that of one whole commit, and a payload is of   *)
(* one commit.  A builder that finds at its end the HEAD it has pinned has *)
(* compared its files with that very commit, unless HEAD left it and came  *)
(* back: the index then may bind the pinned commit to the manifest of      *)
(* another one.                                                            *)
(***************************************************************************)
EXTENDS Publish, IntegrityProofs

-----------------------------------------------------------------------------
(* Sequences, and the lines of the commands *)

IsSeq(s) == s \in Seq({s[i] : i \in DOMAIN s})

LEMMA SeqShape ==
    ASSUME NEW s, IsSeq(s)
    PROVE  Len(s) \in Nat /\ DOMAIN s = 1..Len(s)
  BY DEF IsSeq

LEMMA Grown ==
    ASSUME NEW s, IsSeq(s), NEW e
    PROVE  /\ IsSeq(Append(s, e))
           /\ Len(Append(s, e)) = Len(s) + 1
           /\ DOMAIN Append(s, e) = 1 .. Len(s) + 1
           /\ \A i \in 1..Len(s) : Append(s, e)[i] = s[i]
           /\ Append(s, e)[Len(s) + 1] = e
  <1> DEFINE S == {s[i] : i \in DOMAIN s}
             T == S \cup {e}
             a == Append(s, e)
             A == {a[i] : i \in DOMAIN a}
  <1>1. Len(s) \in Nat /\ DOMAIN s = 1..Len(s)
    BY SeqShape
  <1>2. s \in Seq(T) /\ e \in T
    BY DEF IsSeq
  <1>3. /\ a \in Seq(T) /\ Len(a) = Len(s) + 1
        /\ \A i \in 1 .. Len(s) : a[i] = s[i]
        /\ a[Len(s) + 1] = e
    BY <1>2, AppendProperties
  <1>4. DOMAIN a = 1 .. Len(s) + 1
    BY <1>1, <1>3
  <1>5. \A i \in 1 .. Len(a) : a[i] \in A
    BY <1>3, <1>4
  <1> HIDE DEF A
  <1>6. a \in Seq(A)
    BY <1>3, <1>5
  <1> QED
    BY <1>3, <1>4, <1>6 DEF IsSeq, A

LEMMA ScriptLines ==
    ASSUME NEW o \in DOMAIN Script, NEW l \in DOMAIN Script[o]
    PROVE  /\ o \in {"index", "archive", "payload"} /\ l \in Nat /\ l >= 1
           /\ Script[o][l] # "put" => l + 1 \in DOMAIN Script[o]
           /\ Script[o][l] = "pin" <=> l = 1
           /\ o = "index" =>
                 /\ l \in 1..9
                 /\ Script[o][l] = "take" <=> l = 2
                 /\ Script[o][l] = "prove" <=> l = 3
                 /\ Script[o][l] = "tag" <=> l = 4
                 /\ Script[o][l] = "derive" <=> l = 5
                 /\ Script[o][l] = "list" <=> l = 6
                 /\ Script[o][l] = "compare" <=> l = 7
                 /\ Script[o][l] = "recheck" <=> l = 8
                 /\ Script[o][l] = "put" <=> l = 9
                 /\ Script[o][l] \notin {"gather", "pack", "seal"}
           /\ o = "payload" =>
                 /\ l \in 1..10
                 /\ Script[o][l] = "tag" <=> l = 2
                 /\ Script[o][l] = "take" <=> l = 3
                 /\ Script[o][l] = "prove" <=> l = 4
                 /\ Script[o][l] = "gather" <=> l = 5
                 /\ Script[o][l] = "list" <=> l = 6
                 /\ Script[o][l] = "compare" <=> l = 7
                 /\ Script[o][l] = "seal" <=> l = 8
                 /\ Script[o][l] = "recheck" <=> l = 9
                 /\ Script[o][l] = "put" <=> l = 10
                 /\ Script[o][l] \notin {"derive", "pack"}
  <1>1. DOMAIN Script = {"index", "archive", "payload"}
    BY DEF Script
  <1>2. CASE o = "index"
    <2>1. /\ DOMAIN Script["index"] = 1..9
          /\ Script["index"][1] = "pin" /\ Script["index"][2] = "take" /\ Script["index"][3] = "prove"
          /\ Script["index"][4] = "tag" /\ Script["index"][5] = "derive" /\ Script["index"][6] = "list"
          /\ Script["index"][7] = "compare" /\ Script["index"][8] = "recheck"
          /\ Script["index"][9] = "put"
      BY DEF Script
    <2>2. l \in {1, 2, 3, 4, 5, 6, 7, 8, 9}
      BY <1>2, <2>1
    <2> QED
      BY <1>2, <2>1, <2>2
  <1>3. CASE o = "archive"
    <2>1. /\ DOMAIN Script["archive"] = 1..12
          /\ Script["archive"][1] = "pin" /\ Script["archive"][2] = "take"
          /\ Script["archive"][3] = "prove" /\ Script["archive"][4] = "tag"
          /\ Script["archive"][5] = "list" /\ Script["archive"][6] = "compare"
          /\ Script["archive"][7] = "pack" /\ Script["archive"][8] = "seal"
          /\ Script["archive"][9] = "list" /\ Script["archive"][10] = "compare"
          /\ Script["archive"][11] = "recheck" /\ Script["archive"][12] = "put"
      BY DEF Script
    <2>2. l \in {1, 2, 3, 4, 5, 6, 7, 8, 9, 10, 11, 12}
      BY <1>3, <2>1
    <2> QED
      BY <1>3, <2>1, <2>2
  <1>4. CASE o = "payload"
    <2>1. /\ DOMAIN Script["payload"] = 1..10
          /\ Script["payload"][1] = "pin" /\ Script["payload"][2] = "tag"
          /\ Script["payload"][3] = "take" /\ Script["payload"][4] = "prove"
          /\ Script["payload"][5] = "gather" /\ Script["payload"][6] = "list"
          /\ Script["payload"][7] = "compare" /\ Script["payload"][8] = "seal"
          /\ Script["payload"][9] = "recheck" /\ Script["payload"][10] = "put"
      BY DEF Script
    <2>2. l \in {1, 2, 3, 4, 5, 6, 7, 8, 9, 10}
      BY <1>4, <2>1
    <2> QED
      BY <1>4, <2>1, <2>2
  <1> QED
    BY <1>1, <1>2, <1>3, <1>4

-----------------------------------------------------------------------------
(* The inductive invariant *)

\* Among commits cs, commit c holds manifest m, its signature and its files.
HoldsIn(cs, c, m) ==
    /\ c \in DOMAIN cs
    /\ cs[c].manifest = m /\ cs[c].signature = m
    /\ Ordered(cs[c].files) = Records(m)

\* The manifest an entry names is that of one whole commit, which is the
\* commit it names unless the entry is among the doubted ones ds.
Vouched(cs, ds, content) ==
    /\ \E c \in DOMAIN cs : HoldsIn(cs, c, content.manifest)
    /\ content \in ds \/ HoldsIn(cs, content.commit, content.manifest)

\* An index whose every entry is vouched for.
Sound(cs, ds, x) ==
    /\ x.indexSequence \in Nat /\ IsSeq(x.releases)
    /\ \A e \in RI!EntriesOf(x) : Vouched(cs, ds, e.content)

\* What every launcher accepts of an index over the checkpoint it is built on.
Extends(i) ==
    /\ RI!WellOrdered(i.index.releases)
    /\ RI!ValidateCheckpoint(i.over, i.index, i.index)

Names(x, c, m) == RI!Newest(x).content = [commit |-> c, manifest |-> m]

Coherent(cs, s) ==
    /\ HoldsIn(cs, s.commit, s.manifest)
    /\ s.archive.files = Ordered(cs[s.commit].files)
    /\ Names(s.index, s.commit, s.manifest)

Drafts ==
    /\ DOMAIN line = Tool /\ DOMAIN base = Tool /\ DOMAIN peer = Tool /\ DOMAIN product = Tool
    /\ base = [p \in Tool |-> base[p]]
    /\ returned \subseteq Tool

World ==
    /\ IsSeq(commits) /\ head \in 0 .. Len(commits)
    /\ Len(commits) # 0 => head # 0
    /\ tags \in [Releases -> 0 .. Len(commits)]
    /\ checkpoint # None => Sound(commits, doubted, checkpoint)
    /\ index # None => Sound(commits, doubted, index.index) /\ Extends(index)
    /\ statement # None => Coherent(commits, statement)
    /\ Drafts

\* An index made over commit c and manifest m.
Candidate(cs, ds, new, c, m) ==
    /\ new.index.indexSequence \in Nat /\ IsSeq(new.index.releases) /\ Extends(new)
    /\ \A e \in RI!EntriesOf(new.index) :
          \/ Vouched(cs, ds, e.content)
          \/ e.content = [commit |-> c, manifest |-> m]

\* Commit c agrees with manifest m in its first n comparisons.
Agreeing(cs, c, m, n) ==
    \A i \in 1..n :
        /\ i <= Len(FileOrder) => cs[c].files[FileOrder[i]] = Records(m)[i]
        /\ i = Len(FileOrder) + 1 => cs[c].manifest = m

\* release-index: from the derivation on, the new entry is the pinned commit
\* with the captured manifest; from the comparison on, the commit HEAD named
\* when the tree was listed holds that manifest.  A builder HEAD did not return
\* to has HEAD at the pinned commit only if it listed that commit; after the
\* last look at HEAD the two are one.
IndexDraft(p) ==
    /\ line[p] \in 6..9 => Candidate(commits, doubted, product[p], base[p], stored[p])
    /\ line[p] \in 7..8 /\ p \notin returned /\ head = base[p] => peer[p] = base[p]
    /\ line[p] = 7 => Agreeing(commits, peer[p], stored[p], at[p] - 1)
    /\ line[p] \in 8..9 => HoldsIn(commits, peer[p], stored[p])
    /\ line[p] = 9 /\ p \notin returned => peer[p] = base[p]

\* release-payload: the newest entry of the index is the candidate, and then
\* the statement is made of the archive and the commit that were compared.
PayloadDraft(p) ==
    /\ line[p] \in 6..8 => Names(product[p], base[p], stored[p])
    /\ line[p] \in 9..10 => Coherent(commits, product[p])

Drafted(p) ==
    /\ pc[p] # "publish" => line[p] = 1 /\ base[p] = 0
    /\ p \in returned => pc[p] = "publish" /\ op[p] = "index"
    /\ base[p] \in 0 .. Len(commits) /\ peer[p] \in 0 .. Len(commits)
    /\ pc[p] = "publish" =>
          /\ op[p] \in DOMAIN Script /\ line[p] \in DOMAIN Script[op[p]]
          /\ line[p] > 1 => base[p] # 0
          /\ line[p] >= 7 /\ op[p] = "index" => peer[p] # 0
          /\ op[p] = "index" => IndexDraft(p)
          /\ op[p] = "payload" => PayloadDraft(p)

PInv == IInv /\ World /\ \A p \in Tool : Drafted(p)

-----------------------------------------------------------------------------
(* What grows, and what a builder leaves alone *)

Grow ==
    /\ IsSeq(commits) /\ IsSeq(commits')
    /\ Len(commits) <= Len(commits')
    /\ \A c \in 1..Len(commits) : commits'[c] = commits[c]
    /\ doubted \subseteq doubted'

LEMMA HoldsStays ==
    ASSUME Grow
    PROVE  \A c, m : HoldsIn(commits, c, m) => HoldsIn(commits', c, m)
  <1>1. /\ DOMAIN commits = 1..Len(commits) /\ Len(commits) \in Nat
        /\ DOMAIN commits' = 1..Len(commits') /\ Len(commits') \in Nat
    BY SeqShape DEF Grow
  <1>2. \A c \in DOMAIN commits : c \in DOMAIN commits' /\ commits'[c] = commits[c]
    BY <1>1 DEF Grow
  <1> QED
    BY <1>2 DEF HoldsIn

LEMMA SoundStays ==
    ASSUME Grow
    PROVE  /\ \A x : Sound(commits, doubted, x) => Sound(commits', doubted', x)
           /\ \A s : Coherent(commits, s) => Coherent(commits', s)
           /\ \A x, c, m :
                 Candidate(commits, doubted, x, c, m) => Candidate(commits', doubted', x, c, m)
           /\ \A c, m, n : c \in DOMAIN commits /\ Agreeing(commits, c, m, n) => Agreeing(commits', c, m, n)
  <1>1. \A c, m : HoldsIn(commits, c, m) => HoldsIn(commits', c, m)
    BY HoldsStays
  <1>2. \A c \in DOMAIN commits : commits'[c] = commits[c]
    BY SeqShape DEF Grow
  <1>7. ASSUME NEW x, Vouched(commits, doubted, x)
        PROVE  Vouched(commits', doubted', x)
    <2>1. PICK c \in DOMAIN commits : HoldsIn(commits, c, x.manifest)
      BY <1>7 DEF Vouched
    <2>2. HoldsIn(commits', c, x.manifest) /\ c \in DOMAIN commits'
      BY <1>1, <2>1 DEF HoldsIn
    <2>3. x \in doubted' \/ HoldsIn(commits', x.commit, x.manifest)
      BY <1>1, <1>7 DEF Vouched, Grow
    <2> QED
      BY <2>2, <2>3 DEF Vouched
  <1>3. ASSUME NEW x, Sound(commits, doubted, x)
        PROVE  Sound(commits', doubted', x)
    BY <1>3, <1>7 DEF Sound
  <1>4. ASSUME NEW s, Coherent(commits, s)
        PROVE  Coherent(commits', s)
    <2>1. HoldsIn(commits, s.commit, s.manifest) /\ s.commit \in DOMAIN commits
      BY <1>4 DEF Coherent, HoldsIn
    <2>2. commits'[s.commit] = commits[s.commit]
      BY <1>2, <2>1
    <2> QED
      BY <1>1, <1>4, <2>1, <2>2 DEF Coherent
  <1>5. ASSUME NEW x, NEW c, NEW m, Candidate(commits, doubted, x, c, m)
        PROVE  Candidate(commits', doubted', x, c, m)
    BY <1>5, <1>7 DEF Candidate
  <1>6. ASSUME NEW c, NEW m, NEW n, c \in DOMAIN commits, Agreeing(commits, c, m, n)
        PROVE  Agreeing(commits', c, m, n)
    BY <1>2, <1>6 DEF Agreeing
  <1> QED
    BY <1>3, <1>4, <1>5, <1>6

Alike(q) ==
    /\ Same(q)
    /\ line'[q] = line[q] /\ base'[q] = base[q] /\ peer'[q] = peer[q] /\ product'[q] = product[q]

\* HEAD goes to the commit an index builder has pinned only under notice.
Watched(q) ==
    /\ q \in returned => q \in returned'
    /\ q \in returned' => q \in returned \/ (pc[q] = "publish" /\ op[q] = "index")
    /\ op[q] = "index" => head' = head \/ head' # base[q] \/ q \in returned'

\* The draft of a tool survives every commit, every move of HEAD and every
\* step of another.
LEMMA OthersDraft ==
    ASSUME Grow, NEW q \in Tool, Drafted(q), Alike(q), Watched(q)
    PROVE  Drafted(q)'
  <1>1. Len(commits) \in Nat /\ Len(commits') \in Nat /\ Len(commits) <= Len(commits')
        /\ DOMAIN commits = 1..Len(commits)
    BY SeqShape DEF Grow
  <1>2. /\ base'[q] \in 0 .. Len(commits') /\ peer'[q] \in 0 .. Len(commits')
        /\ pc'[q] # "publish" => line'[q] = 1 /\ base'[q] = 0
        /\ q \in returned' => pc'[q] = "publish" /\ op'[q] = "index"
    BY <1>1 DEF Drafted, Alike, Same, Watched
  <1>3. ASSUME pc'[q] = "publish", op'[q] = "index"
        PROVE  IndexDraft(q)'
    <2>1. IndexDraft(q)
      BY <1>3 DEF Drafted, Alike, Same
    <2>2. line[q] \in 7..9 => peer[q] \in DOMAIN commits
      BY <1>1, <1>3 DEF Drafted, Alike, Same
    <2>3. line'[q] \in 6..9 => Candidate(commits', doubted', product'[q], base'[q], stored'[q])
      BY <2>1, SoundStays DEF IndexDraft, Alike, Same
    <2>4. line'[q] = 7 => Agreeing(commits', peer'[q], stored'[q], at'[q] - 1)
      BY <2>1, <2>2, SoundStays DEF IndexDraft, Alike, Same
    <2>5. line'[q] \in 8..9 => HoldsIn(commits', peer'[q], stored'[q])
      BY <2>1, HoldsStays DEF IndexDraft, Alike, Same
    <2>6. line'[q] \in 7..8 /\ q \notin returned' /\ head' = base'[q] => peer'[q] = base'[q]
      BY <1>3, <2>1 DEF IndexDraft, Alike, Same, Watched
    <2>7. line'[q] = 9 /\ q \notin returned' => peer'[q] = base'[q]
      BY <2>1 DEF IndexDraft, Alike, Watched
    <2> QED
      BY <2>3, <2>4, <2>5, <2>6, <2>7 DEF IndexDraft
  <1>4. ASSUME pc'[q] = "publish", op'[q] = "payload"
        PROVE  PayloadDraft(q)'
    <2>1. PayloadDraft(q)
      BY <1>4 DEF Drafted, Alike, Same
    <2>2. line'[q] \in 6..8 => Names(product'[q], base'[q], stored'[q])
      BY <2>1 DEF PayloadDraft, Alike, Same
    <2>3. line'[q] \in 9..10 => Coherent(commits', product'[q])
      BY <2>1, SoundStays DEF PayloadDraft, Alike
    <2> QED
      BY <2>2, <2>3 DEF PayloadDraft
  <1>5. pc'[q] = "publish" =>
           /\ op'[q] \in DOMAIN Script /\ line'[q] \in DOMAIN Script[op'[q]]
           /\ line'[q] > 1 => base'[q] # 0
           /\ line'[q] >= 7 /\ op'[q] = "index" => peer'[q] # 0
    BY DEF Drafted, Alike, Same
  <1> QED
    BY <1>2, <1>3, <1>4, <1>5 DEF Drafted
-----------------------------------------------------------------------------
(* One step of a builder *)

Touches(f, g, p) == g = f \/ \E v : g = [f EXCEPT ![p] = v]

LEMMA Touched ==
    ASSUME NEW f, NEW g, NEW p \in Tool, DOMAIN f = Tool, Touches(f, g, p)
    PROVE  /\ DOMAIN g = Tool /\ \A q \in Tool \ {p} : g[q] = f[q]
           /\ f = [q \in Tool |-> f[q]] => g = [q \in Tool |-> g[q]]
  BY DEF Touches

\* What the lines of a command may change at its own process.
Advances1(p) ==
    /\ pc[p] = "publish"
    /\ UNCHANGED <<tree, installed, pc, op, first, heldTree, heldSkills, git, returned>>
    /\ Touches(stored, stored', p) /\ Touches(line, line', p) /\ Touches(base, base', p)
    /\ Touches(peer, peer', p) /\ Touches(product, product', p)

Moves(p) ==
    \/ at' = at /\ seen' = seen
    \/ Rewind(p)
    \/ /\ at[p] \in 1..Len(Plan) /\ at' = [at EXCEPT ![p] = @ + 1]
       /\ \/ seen' = seen
          \/ \E c \in Content : at[p] \in Position /\ seen' = [seen EXCEPT ![p][at[p]] = c]

\* The part of a step that the tools of Integrity and the other builders see.
Apart(p) ==
    /\ Local(p) /\ Inv(p)' /\ Drafts'
    /\ \A q \in Tool \ {p} : Alike(q)
    /\ git' = git /\ \A q \in Tool \ {p} : q \in returned' <=> q \in returned

LEMMA MovesEffect ==
    ASSUME Types, NEW p \in Tool, Moves(p)
    PROVE  /\ at' \in [Tool -> 1 .. Len(Plan) + 1]
           /\ seen' \in [Tool -> [Position -> 0 .. MaxContent]]
           /\ \A q \in Tool \ {p} : at'[q] = at[q] /\ seen'[q] = seen[q]
  <1>1. CASE at' = at /\ seen' = seen
    BY <1>1 DEF Types
  <1>2. CASE Rewind(p)
    BY <1>2, RewindEffect
  <1>3. CASE /\ at[p] \in 1..Len(Plan) /\ at' = [at EXCEPT ![p] = @ + 1]
             /\ \/ seen' = seen
                \/ \E c \in Content : at[p] \in Position /\ seen' = [seen EXCEPT ![p][at[p]] = c]
    <2>1. at[p] + 1 \in 1 .. Len(Plan) + 1
      BY <1>3, PlanShape
    <2>2. /\ at' \in [Tool -> 1 .. Len(Plan) + 1]
          /\ \A q \in Tool \ {p} : at'[q] = at[q]
      BY <1>3, <2>1 DEF Types
    <2>3. CASE seen' = seen
      BY <2>2, <2>3 DEF Types
    <2>4. CASE \E c \in Content : at[p] \in Position /\ seen' = [seen EXCEPT ![p][at[p]] = c]
      <3>1. PICK c \in Content : at[p] \in Position /\ seen' = [seen EXCEPT ![p][at[p]] = c]
        BY <2>4
      <3> DEFINE new == [seen[p] EXCEPT ![at[p]] = c]
      <3>2. c \in 0 .. MaxContent
        BY IntegrityAssumption DEF Content
      <3>3. new \in [Position -> 0 .. MaxContent]
        BY <3>1, <3>2 DEF Types
      <3>4. seen' = [seen EXCEPT ![p] = new]
        BY <3>1 DEF Types
      <3> HIDE DEF new
      <3>5. seen' \in [Tool -> [Position -> 0 .. MaxContent]]
        BY <3>3, <3>4 DEF Types
      <3>6. \A q \in Tool \ {p} : seen'[q] = seen[q]
        BY <3>4 DEF Types
      <3> QED
        BY <2>2, <3>5, <3>6
    <2> QED
      BY <1>3, <2>3, <2>4
  <1> QED
    BY <1>1, <1>2, <1>3 DEF Moves

LEMMA AdvanceApart ==
    ASSUME Types, Drafts, NEW p \in Tool, Advances1(p), Moves(p)
    PROVE  Apart(p) /\ pc'[p] = "publish" /\ op'[p] = op[p]
  <1>1. /\ DOMAIN stored' = Tool /\ \A q \in Tool \ {p} : stored'[q] = stored[q]
    BY Touched DEF Advances1, Types
  <1>2. /\ Drafts'
        /\ \A q \in Tool \ {p} : line'[q] = line[q] /\ base'[q] = base[q]
                                 /\ peer'[q] = peer[q] /\ product'[q] = product[q]
    BY Touched DEF Advances1, Drafts
  <1>3. /\ at' \in [Tool -> 1 .. Len(Plan) + 1]
        /\ seen' \in [Tool -> [Position -> 0 .. MaxContent]]
        /\ \A q \in Tool \ {p} : at'[q] = at[q] /\ seen'[q] = seen[q]
    BY MovesEffect
  <1>4. Types'
    BY <1>1, <1>3 DEF Advances1, Types
  <1>5. \A q \in Tool \ {p} : Same(q)
    BY <1>1, <1>3 DEF Advances1, Same
  <1>6. pc'[p] = "publish" /\ op'[p] = op[p]
    BY DEF Advances1
  <1>7. Inv(p)'
    BY <1>6, QuietKeeps DEF Quiet
  <1> QED
    BY <1>2, <1>4, <1>5, <1>6, <1>7 DEF Apart, Local, Alike, Advances1

LEMMA DropApart ==
    ASSUME PInv, NEW p \in Tool, Drop(p)
    PROVE  Apart(p) /\ Drafted(p)'
  <1>1. /\ Exit(p) /\ tree' = tree /\ installed' = installed /\ git' = git
        /\ line' = [line EXCEPT ![p] = 1] /\ base' = [base EXCEPT ![p] = 0]
        /\ peer' = [peer EXCEPT ![p] = 0] /\ product' = [product EXCEPT ![p] = None]
        /\ returned' = returned \ {p}
    BY DEF Drop, files
  <1>2. Local(p) /\ Inv(p)'
    BY <1>1, ExitKeeps DEF PInv, IInv
  <1>3. pc'[p] = "idle"
    BY <1>1, ExitEffect DEF PInv, IInv
  <1>4. /\ Drafts'
        /\ \A q \in Tool \ {p} : line'[q] = line[q] /\ base'[q] = base[q]
                                 /\ peer'[q] = peer[q] /\ product'[q] = product[q]
        /\ line'[p] = 1 /\ base'[p] = 0 /\ peer'[p] = 0
    BY <1>1 DEF PInv, World, Drafts
  <1>5. \A q \in Tool \ {p} : Alike(q)
    BY <1>2, <1>4 DEF Local, Alike
  <1>6. Len(commits') \in Nat
    BY <1>1, SeqShape DEF git, PInv, World
  <1>7. Drafted(p)'
    BY <1>1, <1>3, <1>4, <1>6 DEF Drafted
  <1> QED
    BY <1>1, <1>2, <1>4, <1>5, <1>7 DEF Apart
-----------------------------------------------------------------------------
(* A line of a command *)

LEMMA Progress ==
    ASSUME PInv, NEW p \in Tool, pc[p] = "publish", Forward(p), Moves(p),
           Script[op[p]][line[p]] # "put",
           Touches(stored, stored', p), Touches(base, base', p),
           Touches(peer, peer', p), Touches(product, product', p)
    PROVE  /\ Apart(p) /\ UNCHANGED <<outputs, doubted, returned, commits, head, tags>>
           /\ op[p] \in DOMAIN Script /\ line[p] \in DOMAIN Script[op[p]]
           /\ pc'[p] = "publish" /\ op'[p] = op[p]
           /\ line[p] \in Nat /\ line[p] >= 1
           /\ line'[p] = line[p] + 1 /\ line'[p] \in DOMAIN Script[op[p]]
  <1>1. /\ line' = [line EXCEPT ![p] = @ + 1] /\ git' = git /\ outputs' = outputs
        /\ UNCHANGED <<tree, installed, pc, op, first, heldTree, heldSkills, returned, doubted>>
    BY DEF Forward, files, held, history
  <1>2. Advances1(p)
    BY <1>1 DEF Advances1, Touches
  <1>3. Apart(p) /\ pc'[p] = "publish" /\ op'[p] = op[p]
    BY <1>2, AdvanceApart DEF PInv, IInv, World
  <1>4. op[p] \in DOMAIN Script /\ line[p] \in DOMAIN Script[op[p]]
    BY DEF PInv, Drafted
  <1>5. line[p] \in Nat /\ line[p] >= 1 /\ line[p] + 1 \in DOMAIN Script[op[p]]
    BY <1>4, ScriptLines
  <1>6. line'[p] = line[p] + 1
    BY <1>1 DEF PInv, World, Drafts
  <1> QED
    BY <1>1, <1>3, <1>4, <1>5, <1>6 DEF git, outputs

\* What is left to show of a line when nothing it compared is affected.
LEMMA Unburdened ==
    ASSUME PInv, NEW p \in Tool, UNCHANGED <<commits, head, tags, returned>>,
           pc'[p] = "publish", op'[p] = op[p], op[p] \in DOMAIN Script,
           line'[p] \in DOMAIN Script[op[p]], base'[p] \in 1 .. Len(commits),
           peer'[p] \in 0 .. Len(commits), line'[p] >= 7 /\ op[p] = "index" => peer'[p] # 0,
           op[p] = "index" => IndexDraft(p)', op[p] = "payload" => PayloadDraft(p)'
    PROVE  Drafted(p)'
  <1>1. Len(commits) \in Nat /\ Len(commits') = Len(commits)
    BY SeqShape DEF PInv, World
  <1>2. p \in returned' => op'[p] = "index"
    BY DEF PInv, Drafted
  <1> QED
    BY <1>1, <1>2 DEF Drafted

LEMMA RefuseKeeps ==
    ASSUME PInv, NEW p \in Tool, Refuse(p)
    PROVE  Apart(p) /\ Drafted(p)' /\ UNCHANGED <<outputs, doubted>>
  BY DropApart DEF Refuse

LEMMA PinHeadKeeps ==
    ASSUME PInv, NEW p \in Tool, PinHead(p)
    PROVE  Apart(p) /\ Drafted(p)' /\ UNCHANGED <<outputs, doubted>>
  <1>1. CASE Refuse(p)
    BY <1>1, RefuseKeeps
  <1>2. CASE ~Refuse(p)
    <2>1. /\ On(p, "pin") /\ Forward(p) /\ head # 0
          /\ base' = [base EXCEPT ![p] = head]
          /\ UNCHANGED <<at, seen, stored, peer, product>>
      BY <1>2 DEF PinHead, pass
    <2>2. /\ Apart(p) /\ UNCHANGED <<outputs, doubted, returned, commits, head, tags>>
          /\ op[p] \in DOMAIN Script /\ line[p] \in DOMAIN Script[op[p]]
          /\ pc'[p] = "publish" /\ op'[p] = op[p]
          /\ line'[p] = line[p] + 1 /\ line'[p] \in DOMAIN Script[op[p]]
      BY <2>1, Progress DEF On, Touches, Moves
    <2>3. line[p] = 1 /\ line'[p] = 2
      BY <2>1, <2>2, ScriptLines DEF On
    <2>4. base'[p] \in 1 .. Len(commits) /\ peer'[p] \in 0 .. Len(commits)
      BY <2>1, SeqShape DEF PInv, World, Drafts, Drafted
    <2>5. IndexDraft(p)' /\ PayloadDraft(p)'
      BY <2>3 DEF IndexDraft, PayloadDraft
    <2>6. Drafted(p)'
      BY <2>2, <2>3, <2>4, <2>5, Unburdened
    <2> QED
      BY <2>2, <2>6
  <1> QED
    BY <1>1, <1>2
LEMMA TakeManifestKeeps ==
    ASSUME PInv, NEW p \in Tool, TakeManifest(p)
    PROVE  Apart(p) /\ Drafted(p)' /\ UNCHANGED <<outputs, doubted>>
  <1>1. /\ On(p, "take") /\ Forward(p)
        /\ stored' = [stored EXCEPT ![p] = manifest]
        /\ UNCHANGED <<at, seen, base, peer, product>>
    BY DEF TakeManifest, pass
  <1>2. /\ Apart(p) /\ UNCHANGED <<outputs, doubted, returned, commits, head, tags>>
        /\ op[p] \in DOMAIN Script /\ line[p] \in DOMAIN Script[op[p]]
        /\ pc'[p] = "publish" /\ op'[p] = op[p]
        /\ line'[p] = line[p] + 1 /\ line'[p] \in DOMAIN Script[op[p]]
    BY <1>1, Progress DEF On, Touches, Moves
  <1>3. /\ line[p] # 1 /\ line[p] \in Nat /\ line[p] >= 1
        /\ op[p] = "index" => line'[p] = 3
        /\ op[p] = "payload" => line'[p] = 4
    BY <1>1, <1>2, ScriptLines DEF On
  <1>4. base'[p] \in 1 .. Len(commits) /\ peer'[p] \in 0 .. Len(commits)
    BY <1>1, <1>3, SeqShape DEF PInv, World, Drafted, On
  <1>5. /\ op[p] = "index" => IndexDraft(p)'
        /\ op[p] = "payload" => PayloadDraft(p)'
    BY <1>3 DEF IndexDraft, PayloadDraft
  <1>6. Drafted(p)'
    BY <1>2, <1>3, <1>4, <1>5, Unburdened
  <1> QED
    BY <1>2, <1>6

\* What a line that only checks leaves, and the next line it reaches.
LEMMA Checked ==
    ASSUME PInv, NEW p \in Tool, NEW w \in {"prove", "tag", "seal", "recheck"}, On(p, w),
           Forward(p), UNCHANGED <<pass, stored, base, peer, product>>
    PROVE  /\ Apart(p) /\ UNCHANGED <<outputs, doubted, returned, commits, head, tags>>
           /\ op[p] \in DOMAIN Script /\ line[p] \in DOMAIN Script[op[p]]
           /\ pc'[p] = "publish" /\ op'[p] = op[p]
           /\ line[p] \in Nat /\ line'[p] = line[p] + 1 /\ line'[p] \in DOMAIN Script[op[p]]
           /\ UNCHANGED <<at, stored, base, peer, product>>
           /\ base'[p] \in 1 .. Len(commits) /\ peer'[p] \in 0 .. Len(commits)
           /\ op[p] = "index" =>
                 /\ w = "prove" => line'[p] = 4
                 /\ w = "tag" => line'[p] = 5
                 /\ w = "recheck" => line[p] = 8 /\ line'[p] = 9
                 /\ w # "seal"
           /\ op[p] = "payload" =>
                 /\ w = "prove" => line'[p] = 5
                 /\ w = "tag" => line'[p] = 3
                 /\ w = "recheck" => line[p] = 9 /\ line'[p] = 10
  <1>1. UNCHANGED <<at, seen, stored, base, peer, product>>
    BY DEF pass
  <1>2. /\ Apart(p) /\ UNCHANGED <<outputs, doubted, returned, commits, head, tags>>
        /\ op[p] \in DOMAIN Script /\ line[p] \in DOMAIN Script[op[p]]
        /\ pc'[p] = "publish" /\ op'[p] = op[p]
        /\ line[p] \in Nat /\ line[p] >= 1
        /\ line'[p] = line[p] + 1 /\ line'[p] \in DOMAIN Script[op[p]]
    BY <1>1, Progress DEF On, Touches, Moves
  <1>3. line[p] # 1
    BY <1>2, ScriptLines DEF On
  <1>4. base'[p] \in 1 .. Len(commits) /\ peer'[p] \in 0 .. Len(commits)
    BY <1>1, <1>2, <1>3, SeqShape DEF PInv, World, Drafted, On
  <1>5. op[p] = "index" =>
                 /\ w = "prove" => line'[p] = 4
                 /\ w = "tag" => line'[p] = 5
                 /\ w = "recheck" => line[p] = 8 /\ line'[p] = 9
                 /\ w # "seal"
    BY <1>2, ScriptLines DEF On
  <1>6. op[p] = "payload" =>
                 /\ w = "prove" => line'[p] = 5
                 /\ w = "tag" => line'[p] = 3
                 /\ w = "recheck" => line[p] = 9 /\ line'[p] = 10
    BY <1>2, ScriptLines DEF On
  <1> QED
    BY <1>1, <1>2, <1>4, <1>5, <1>6

LEMMA ProveManifestKeeps ==
    ASSUME PInv, NEW p \in Tool, ProveManifest(p)
    PROVE  Apart(p) /\ Drafted(p)' /\ UNCHANGED <<outputs, doubted>>
  <1>1. CASE Refuse(p)
    BY <1>1, RefuseKeeps
  <1>2. CASE ~Refuse(p)
    <2>1. On(p, "prove") /\ Forward(p) /\ UNCHANGED <<pass, stored, base, peer, product>>
      BY <1>2 DEF ProveManifest, Check
    <2>2. op[p] = "index" => IndexDraft(p)'
      BY <2>1, Checked DEF IndexDraft
    <2>3. op[p] = "payload" => PayloadDraft(p)'
      BY <2>1, Checked DEF PayloadDraft
    <2>4. line'[p] >= 7 /\ op[p] = "index" => peer'[p] # 0
      BY <2>1, Checked
    <2>5. Drafted(p)'
      BY <2>1, <2>2, <2>3, <2>4, Checked, Unburdened
    <2> QED
      BY <2>1, <2>5, Checked
  <1> QED
    BY <1>1, <1>2

LEMMA CheckTagKeeps ==
    ASSUME PInv, NEW p \in Tool, CheckTag(p)
    PROVE  Apart(p) /\ Drafted(p)' /\ UNCHANGED <<outputs, doubted>>
  <1>1. CASE Refuse(p)
    BY <1>1, RefuseKeeps
  <1>2. CASE ~Refuse(p)
    <2>1. /\ On(p, "tag") /\ op[p] # "payload"
          /\ Forward(p) /\ UNCHANGED <<pass, stored, base, peer, product>>
      BY <1>2 DEF CheckTag, Check
    <2>2. op[p] = "index" => IndexDraft(p)'
      BY <2>1, Checked DEF IndexDraft
    <2>4. line'[p] >= 7 /\ op[p] = "index" => peer'[p] # 0
      BY <2>1, Checked
    <2>5. Drafted(p)'
      BY <2>1, <2>2, <2>4, Checked, Unburdened
    <2> QED
      BY <2>1, <2>5, Checked
  <1> QED
    BY <1>1, <1>2

LEMMA SealArchiveKeeps ==
    ASSUME PInv, NEW p \in Tool, SealArchive(p)
    PROVE  Apart(p) /\ Drafted(p)' /\ UNCHANGED <<outputs, doubted>>
  <1>1. CASE Refuse(p)
    BY <1>1, RefuseKeeps
  <1>2. CASE ~Refuse(p)
    <2>1. /\ On(p, "seal") /\ op[p] = "archive"
          /\ Forward(p) /\ UNCHANGED <<pass, stored, base, peer, product>>
      BY <1>2 DEF SealArchive, Check
    <2>2. Drafted(p)'
      BY <2>1, Checked, Unburdened
    <2> QED
      BY <2>1, <2>2, Checked
  <1> QED
    BY <1>1, <1>2

\* If HEAD is where it was pinned, and did not return there, it was there when
\* the tree was listed.
LEMMA RecheckHeadKeeps ==
    ASSUME PInv, NEW p \in Tool, RecheckHead(p)
    PROVE  Apart(p) /\ Drafted(p)' /\ UNCHANGED <<outputs, doubted>>
  <1>1. CASE Refuse(p)
    BY <1>1, RefuseKeeps
  <1>2. CASE ~Refuse(p)
    <2>1. /\ On(p, "recheck") /\ head = base[p]
          /\ Forward(p) /\ UNCHANGED <<pass, stored, base, peer, product>>
      BY <1>2 DEF RecheckHead, Check
    <2>2. Drafted(p)
      BY DEF PInv
    <2>3. ASSUME op[p] = "index"
          PROVE  IndexDraft(p)' /\ peer'[p] # 0
      <3>1. line[p] = 8 /\ line'[p] = 9
        BY <2>1, <2>3, Checked
      <3>2. IndexDraft(p) /\ peer[p] # 0
        BY <2>1, <2>2, <2>3, <3>1 DEF Drafted, On
      <3>3. p \notin returned => peer[p] = base[p]
        BY <2>1, <3>1, <3>2 DEF IndexDraft
      <3>4. UNCHANGED <<commits, doubted, returned, stored, base, peer, product>>
        BY <2>1, Checked
      <3> QED
        BY <3>1, <3>2, <3>3, <3>4 DEF IndexDraft
    <2>4. ASSUME op[p] = "payload"
          PROVE  PayloadDraft(p)'
      <3>1. line[p] = 9 /\ line'[p] = 10 /\ UNCHANGED <<commits, stored, base, product>>
        BY <2>1, <2>4, Checked
      <3>2. PayloadDraft(p)
        BY <2>1, <2>2, <2>4 DEF Drafted, On
      <3> QED
        BY <3>1, <3>2 DEF PayloadDraft
    <2>5. Drafted(p)'
      BY <2>1, <2>3, <2>4, Checked, Unburdened
    <2> QED
      BY <2>1, <2>5, Checked
  <1> QED
    BY <1>1, <1>2
Lines == {"tag", "derive", "list", "compare", "pack", "gather", "seal"}

\* A line past the first one, and the next one it goes on to.
Follows(p) ==
    /\ Apart(p) /\ UNCHANGED <<outputs, doubted, returned, commits, head, tags>>
    /\ op[p] \in DOMAIN Script /\ line'[p] \in DOMAIN Script[op[p]]
    /\ pc[p] = "publish" /\ pc'[p] = "publish" /\ op'[p] = op[p]
    /\ line[p] \in Nat /\ line'[p] = line[p] + 1
    /\ base'[p] = base[p] /\ base[p] \in 1 .. Len(commits) /\ base[p] \in DOMAIN commits
    /\ peer[p] \in 0 .. Len(commits)

At(p, w) ==
    /\ op[p] = "index" =>
          /\ w = "derive" => line[p] = 5
          /\ w = "list" => line[p] = 6
          /\ w = "compare" => line[p] = 7
          /\ w \notin {"gather", "pack", "seal"}
    /\ op[p] = "payload" =>
          /\ w = "tag" => line[p] = 2
          /\ w = "gather" => line[p] = 5
          /\ w = "list" => line[p] = 6
          /\ w = "compare" => line[p] = 7
          /\ w = "seal" => line[p] = 8
          /\ w \notin {"derive", "pack"}

LEMMA Passed ==
    ASSUME PInv, NEW p \in Tool, NEW w \in Lines, On(p, w), Forward(p), Moves(p),
           stored' = stored, base' = base, Touches(peer, peer', p), Touches(product, product', p)
    PROVE  Follows(p) /\ At(p, w)
  <1>1. /\ pc[p] = "publish" /\ Script[op[p]][line[p]] = w
        /\ Touches(stored, stored', p) /\ Touches(base, base', p)
    BY DEF On, Touches
  <1>2. /\ Apart(p) /\ UNCHANGED <<outputs, doubted, returned, commits, head, tags>>
        /\ op[p] \in DOMAIN Script /\ line[p] \in DOMAIN Script[op[p]]
        /\ pc'[p] = "publish" /\ op'[p] = op[p]
        /\ line[p] \in Nat /\ line[p] >= 1
        /\ line'[p] = line[p] + 1 /\ line'[p] \in DOMAIN Script[op[p]]
    BY <1>1, Progress DEF Lines
  <1>3. line[p] # 1
    BY <1>1, <1>2, ScriptLines DEF Lines
  <1>4. /\ base'[p] = base[p] /\ base[p] \in 1 .. Len(commits) /\ base[p] \in DOMAIN commits
        /\ peer[p] \in 0 .. Len(commits)
    BY <1>1, <1>2, <1>3, SeqShape DEF PInv, World, Drafted
  <1>5. At(p, w)
    BY <1>1, <1>2, ScriptLines DEF At
  <1> QED
    BY <1>1, <1>2, <1>4, <1>5 DEF Follows

\* What is left to show after it.
LEMMA Burdened ==
    ASSUME PInv, NEW p \in Tool, Follows(p), peer'[p] \in 0 .. Len(commits),
           op[p] = "index" => IndexDraft(p)' /\ (line'[p] >= 7 => peer'[p] # 0),
           op[p] = "payload" => PayloadDraft(p)'
    PROVE  Apart(p) /\ Drafted(p)' /\ UNCHANGED <<outputs, doubted>>
  BY Unburdened DEF Follows

LEMMA AskReleaseKeeps ==
    ASSUME PInv, NEW p \in Tool, NEW r \in Releases, AskRelease(p, r)
    PROVE  Apart(p) /\ Drafted(p)' /\ UNCHANGED <<outputs, doubted>>
  <1>1. CASE Refuse(p)
    BY <1>1, RefuseKeeps
  <1>2. CASE ~Refuse(p)
    <2>1. /\ On(p, "tag") /\ op[p] = "payload" /\ Forward(p)
          /\ product' = [product EXCEPT ![p] = r]
          /\ UNCHANGED <<at, seen, stored, base, peer>>
      BY <1>2 DEF AskRelease, pass
    <2>2. Moves(p) /\ Touches(peer, peer', p) /\ Touches(product, product', p)
      BY <2>1 DEF Moves, Touches
    <2>3. Follows(p) /\ At(p, "tag")
      BY <2>1, <2>2, Passed DEF Lines
    <2>4. PayloadDraft(p)'
      BY <2>1, <2>3 DEF PayloadDraft, Follows, At
    <2> QED
      BY <2>1, <2>3, <2>4, Burdened DEF Follows
  <1> QED
    BY <1>1, <1>2

LEMMA GatherIndexKeeps ==
    ASSUME PInv, NEW p \in Tool, GatherIndex(p)
    PROVE  Apart(p) /\ Drafted(p)' /\ UNCHANGED <<outputs, doubted>>
  <1>1. CASE Refuse(p)
    BY <1>1, RefuseKeeps
  <1>2. CASE ~Refuse(p)
    <2>1. /\ On(p, "gather") /\ NewestIs(index, EntryOf(base[p], stored[p])) /\ Forward(p)
          /\ product' = [product EXCEPT ![p] = index.index]
          /\ UNCHANGED <<at, seen, stored, base, peer>>
      BY <1>2 DEF GatherIndex, pass
    <2>2. Moves(p) /\ Touches(peer, peer', p) /\ Touches(product, product', p)
      BY <2>1 DEF Moves, Touches
    <2>3. Follows(p) /\ At(p, "gather")
      BY <2>1, <2>2, Passed DEF Lines
    <2>4. Names(index.index, base[p], stored[p])
      BY <2>1 DEF NewestIs, EntryOf, Names
    <2>5. product'[p] = index.index
      BY <2>1 DEF PInv, World, Drafts
    <2>6. op[p] = "payload" => line[p] = 5 /\ line'[p] = 6
      BY <2>3 DEF Follows, At
    <2>7. op[p] = "payload" => PayloadDraft(p)'
      BY <2>1, <2>4, <2>5, <2>6 DEF PayloadDraft
    <2> QED
      BY <2>1, <2>3, <2>7, Burdened DEF Follows, At
  <1> QED
    BY <1>1, <1>2

LEMMA SealPayloadKeeps ==
    ASSUME PInv, NEW p \in Tool, SealPayload(p)
    PROVE  Apart(p) /\ Drafted(p)' /\ UNCHANGED <<outputs, doubted>>
  <1> DEFINE new == [commit |-> base[p], manifest |-> stored[p],
                     index |-> product[p], archive |-> archive]
  <1>1. CASE Refuse(p)
    BY <1>1, RefuseKeeps
  <1>2. CASE ~Refuse(p)
    <2>1. /\ On(p, "seal") /\ op[p] = "payload" /\ Forward(p)
          /\ ValidArchive(archive, stored[p], base[p])
          /\ product' = [product EXCEPT ![p] = new]
          /\ UNCHANGED <<at, seen, stored, base, peer>>
      BY <1>2 DEF SealPayload, pass
    <2>2. /\ new.commit = base[p] /\ new.manifest = stored[p]
          /\ new.index = product[p] /\ new.archive = archive
      OBVIOUS
    <2> HIDE DEF new
    <2>3. Moves(p) /\ Touches(peer, peer', p) /\ Touches(product, product', p)
      BY <2>1 DEF Moves, Touches
    <2>4. Follows(p) /\ At(p, "seal")
      BY <2>1, <2>3, Passed DEF Lines
    <2>5. line[p] = 8 /\ line'[p] = 9 /\ commits' = commits /\ base[p] \in DOMAIN commits
      BY <2>1, <2>4 DEF Follows, At
    <2>6. product'[p] = new
      BY <2>1 DEF PInv, World, Drafts
    <2>7. Names(product[p], base[p], stored[p])
      BY <2>1, <2>5 DEF PInv, Drafted, PayloadDraft, On
    <2>8. HoldsIn(commits, base[p], stored[p]) /\ archive.files = Ordered(commits[base[p]].files)
      BY <2>1, <2>5 DEF HoldsIn, ValidArchive
    <2>9. Coherent(commits, new)
      BY <2>2, <2>7, <2>8 DEF Coherent
    <2>10. PayloadDraft(p)'
      BY <2>5, <2>6, <2>9 DEF PayloadDraft
    <2> QED
      BY <2>1, <2>4, <2>10, Burdened DEF Follows
  <1> QED
    BY <1>1, <1>2

LEMMA PackedKeeps ==
    ASSUME PInv, NEW p \in Tool, Packed(p)
    PROVE  Apart(p) /\ Drafted(p)' /\ UNCHANGED <<outputs, doubted>>
  <1>1. /\ On(p, "pack") /\ Forward(p) /\ Rewind(p)
        /\ \E v : product' = [product EXCEPT ![p] = v]
        /\ stored' = stored /\ base' = base /\ peer' = peer
    BY DEF Packed
  <1>2. Moves(p) /\ Touches(peer, peer', p) /\ Touches(product, product', p)
    BY <1>1 DEF Moves, Touches
  <1>3. Follows(p) /\ At(p, "pack")
    BY <1>1, <1>2, Passed DEF Lines
  <1> QED
    BY <1>1, <1>3, Burdened DEF Follows, At

LEMMA ListTreeKeeps ==
    ASSUME PInv, NEW p \in Tool, ListTree(p)
    PROVE  Apart(p) /\ Drafted(p)' /\ UNCHANGED <<outputs, doubted>>
  <1>1. /\ On(p, "list") /\ Forward(p) /\ Rewind(p)
        /\ peer' = [peer EXCEPT ![p] = head]
        /\ stored' = stored /\ base' = base /\ product' = product
    BY DEF ListTree
  <1>2. Moves(p) /\ Touches(peer, peer', p) /\ Touches(product, product', p)
    BY <1>1 DEF Moves, Touches
  <1>3. Follows(p) /\ At(p, "list")
    BY <1>1, <1>2, Passed DEF Lines
  <1>4. head \in 0 .. Len(commits) /\ (Len(commits) # 0 => head # 0) /\ Drafted(p)
    BY DEF PInv, World
  <1>5. peer'[p] = head /\ at'[p] = 1
    BY <1>1, RewindEffect DEF PInv, IInv, World, Drafts
  <1>6. peer'[p] \in 1 .. Len(commits) /\ UNCHANGED <<commits, head, doubted>>
    BY <1>3, <1>4, <1>5 DEF Follows
  <1>7. ASSUME op[p] = "index"
        PROVE  IndexDraft(p)'
    <2>1. line[p] = 6 /\ line'[p] = 7 /\ pc[p] = "publish"
      BY <1>3, <1>7 DEF Follows, At
    <2>2. Candidate(commits, doubted, product[p], base[p], stored[p])
      BY <1>4, <1>7, <2>1 DEF Drafted, IndexDraft
    <2>3. Agreeing(commits', peer'[p], stored'[p], at'[p] - 1)
      BY <1>5 DEF Agreeing
    <2> QED
      BY <1>1, <1>5, <1>6, <2>1, <2>2, <2>3 DEF IndexDraft
  <1>8. ASSUME op[p] = "payload"
        PROVE  PayloadDraft(p)'
    <2>1. line[p] = 6 /\ line'[p] = 7 /\ pc[p] = "publish"
      BY <1>3, <1>8 DEF Follows, At
    <2>2. Names(product[p], base[p], stored[p])
      BY <1>4, <1>8, <2>1 DEF Drafted, PayloadDraft
    <2> QED
      BY <1>1, <2>1, <2>2 DEF PayloadDraft
  <1> QED
    BY <1>3, <1>6, <1>7, <1>8, Burdened DEF Follows
\* A line that goes on to the next file.
LEMMA Stayed ==
    ASSUME PInv, NEW p \in Tool, NEW w \in {"pack", "compare"}, On(p, w), Onward(p), product' = product,
           at[p] \in 1 .. Len(FileOrder) + 1,
           \/ seen' = seen
           \/ \E c \in Content : at[p] \in Position /\ seen' = [seen EXCEPT ![p][at[p]] = c]
    PROVE  /\ Apart(p) /\ UNCHANGED <<outputs, doubted, returned, commits, head, tags, stored, line, base, peer>>
           /\ op[p] \in DOMAIN Script /\ line'[p] \in DOMAIN Script[op[p]]
           /\ pc[p] = "publish" /\ pc'[p] = "publish" /\ op'[p] = op[p]
           /\ at'[p] = at[p] + 1
           /\ base'[p] \in 1 .. Len(commits) /\ peer'[p] \in 0 .. Len(commits)
           /\ op[p] = "index" => line[p] = 7 /\ w = "compare"
           /\ op[p] = "payload" => line[p] = 7 /\ w = "compare"
           /\ Drafted(p)
  <1>1. /\ at' = [at EXCEPT ![p] = @ + 1] /\ git' = git /\ outputs' = outputs
        /\ UNCHANGED <<tree, installed, pc, op, stored, first, heldTree, heldSkills, line, base, peer,
                     returned, doubted>>
    BY DEF Onward, files, held, history
  <1>2. pc[p] = "publish" /\ Script[op[p]][line[p]] = w
    BY DEF On
  <1>3. op[p] \in DOMAIN Script /\ line[p] \in DOMAIN Script[op[p]] /\ Drafted(p)
    BY <1>2 DEF PInv, Drafted
  <1>4. at[p] \in 1..Len(Plan)
    BY PlanShape, PlanRecords
  <1>5. Advances1(p) /\ Moves(p)
    BY <1>1, <1>2, <1>4 DEF Advances1, Touches, Moves
  <1>6. Apart(p) /\ pc'[p] = "publish" /\ op'[p] = op[p]
    BY <1>5, AdvanceApart DEF PInv, IInv, World
  <1>7. /\ op[p] = "index" => line[p] = 7 /\ w = "compare"
        /\ op[p] = "payload" => line[p] = 7 /\ w = "compare"
    BY <1>2, <1>3, ScriptLines
  <1>8. line[p] # 1 /\ line[p] \in Nat /\ line[p] >= 1
    BY <1>2, <1>3, ScriptLines
  <1>9. base'[p] \in 1 .. Len(commits) /\ peer'[p] \in 0 .. Len(commits)
    BY <1>1, <1>2, <1>3, <1>8, SeqShape DEF PInv, World, Drafted
  <1>10. at'[p] = at[p] + 1
    BY <1>1 DEF PInv, IInv, Types
  <1> QED
    BY <1>1, <1>2, <1>3, <1>6, <1>7, <1>9, <1>10 DEF git, outputs

LEMMA PackFileKeeps ==
    ASSUME PInv, NEW p \in Tool, PackFile(p)
    PROVE  Apart(p) /\ Drafted(p)' /\ UNCHANGED <<outputs, doubted>>
  <1>1. /\ On(p, "pack") /\ Onward(p) /\ product' = product
        /\ at[p] \in DOMAIN FileOrder
        /\ seen' = [seen EXCEPT ![p][at[p]] = tree[FileOrder[at[p]]]]
    BY DEF PackFile
  <1>2. at[p] \in 1 .. Len(FileOrder) /\ at[p] \in Position
    BY <1>1, PlanShape, PlanRecords
  <1>3. tree[FileOrder[at[p]]] \in Content
    BY <1>2, PlanRecords DEF PInv, IInv, Types
  <1>4. at[p] \in 1 .. Len(FileOrder) + 1
    BY <1>2, PlanRecords
  <1>5. \E c \in Content : at[p] \in Position /\ seen' = [seen EXCEPT ![p][at[p]] = c]
    BY <1>1, <1>2, <1>3
  <1>6. /\ Apart(p) /\ UNCHANGED <<outputs, doubted, returned, commits, head, tags, peer>>
        /\ op[p] \in DOMAIN Script /\ line'[p] \in DOMAIN Script[op[p]]
        /\ pc'[p] = "publish" /\ op'[p] = op[p]
        /\ base'[p] \in 1 .. Len(commits) /\ peer'[p] \in 0 .. Len(commits)
        /\ op[p] # "index" /\ op[p] # "payload"
    BY <1>1, <1>4, <1>5, Stayed
  <1> QED
    BY <1>6, Unburdened

\* What one comparison says of the commit.
LEMMA OneCompared ==
    ASSUME PInv, NEW p \in Tool, SameAsSigned(p, at[p]), at[p] \in 1 .. Len(FileOrder) + 2
    PROVE  /\ at[p] <= Len(FileOrder) =>
                 commits[peer[p]].files[FileOrder[at[p]]] = Records(stored[p])[at[p]]
           /\ at[p] = Len(FileOrder) + 1 => commits[peer[p]].manifest = stored[p]
           /\ at[p] = Len(FileOrder) + 2 => commits[peer[p]].signature = stored[p]
  <1>1. CASE at[p] <= Len(FileOrder)
    <2>1. at[p] \in DOMAIN FileOrder /\ at[p] # Len(FileOrder) + 1 /\ at[p] # Len(FileOrder) + 2
      BY <1>1, PlanRecords
    <2>2. {tree[FileOrder[at[p]]], commits[peer[p]].files[FileOrder[at[p]]]} = {Records(stored[p])[at[p]]}
      BY <2>1 DEF SameAsSigned
    <2> HIDE DEF Records
    <2>3. commits[peer[p]].files[FileOrder[at[p]]] = Records(stored[p])[at[p]]
      BY <2>2, Zenon
    <2> QED
      BY <2>1, <2>3
  <1>2. CASE at[p] = Len(FileOrder) + 1
    <2>1. at[p] \notin DOMAIN FileOrder
      BY <1>2, PlanRecords
    <2>2. commits[peer[p]].manifest = stored[p]
      BY <1>2, <2>1 DEF SameAsSigned
    <2> QED
      BY <1>2, <2>2, PlanRecords
  <1>3. CASE at[p] = Len(FileOrder) + 2
    <2>1. at[p] \notin DOMAIN FileOrder /\ at[p] # Len(FileOrder) + 1
      BY <1>3, PlanRecords
    <2>2. commits[peer[p]].signature = stored[p]
      BY <2>1 DEF SameAsSigned
    <2> QED
      BY <1>3, <2>2, PlanRecords
  <1> QED
    BY <1>1, <1>2, <1>3, PlanRecords

LEMMA AllCompared ==
    ASSUME NEW cs, NEW c \in DOMAIN cs, NEW m, Agreeing(cs, c, m, Len(FileOrder) + 1),
           cs[c].signature = m
    PROVE  HoldsIn(cs, c, m)
  <1>1. /\ Len(FileOrder) \in Nat /\ DOMAIN FileOrder = 1..Len(FileOrder)
        /\ Len(FileOrder) + 1 \in 1 .. Len(FileOrder) + 1
    BY PlanRecords
  <1>2. cs[c].manifest = m
    BY <1>1 DEF Agreeing
  <1>3. \A i \in DOMAIN FileOrder : i \in 1 .. Len(FileOrder) + 1 /\ i <= Len(FileOrder)
    BY <1>1
  <1>4. \A i \in DOMAIN FileOrder : cs[c].files[FileOrder[i]] = Records(m)[i]
    BY <1>3 DEF Agreeing
  <1>5. Ordered(cs[c].files) = Records(m)
    BY <1>4 DEF Ordered, Records
  <1> QED
    BY <1>2, <1>5 DEF HoldsIn

LEMMA CompareFileKeeps ==
    ASSUME PInv, NEW p \in Tool, CompareFile(p)
    PROVE  Apart(p) /\ Drafted(p)' /\ UNCHANGED <<outputs, doubted>>
  <1>1. On(p, "compare") /\ at[p] \in Nat /\ at[p] >= 1
    BY PlanShape DEF CompareFile, PInv, IInv, Types
  <1>2. CASE Refuse(p)
    BY <1>2, RefuseKeeps
  <1>3. CASE /\ SameAsSigned(p, at[p]) /\ at[p] < Len(FileOrder) + 2
             /\ Onward(p) /\ UNCHANGED <<seen, product>>
    <2>1. at[p] \in 1 .. Len(FileOrder) + 1
      BY <1>1, <1>3, PlanRecords
    <2>2. seen' = seen /\ product' = product
      BY <1>3
    <2>3. /\ Apart(p) /\ UNCHANGED <<outputs, doubted, returned, commits, head, tags, stored, line, base, peer>>
          /\ op[p] \in DOMAIN Script /\ line'[p] \in DOMAIN Script[op[p]]
          /\ pc[p] = "publish" /\ pc'[p] = "publish" /\ op'[p] = op[p]
          /\ at'[p] = at[p] + 1
          /\ base'[p] \in 1 .. Len(commits) /\ peer'[p] \in 0 .. Len(commits)
          /\ op[p] = "index" => line[p] = 7
          /\ op[p] = "payload" => line[p] = 7
          /\ Drafted(p)
      BY <1>1, <1>3, <2>1, <2>2, Stayed
    <2>4. ASSUME op[p] = "index"
          PROVE  IndexDraft(p)' /\ peer'[p] # 0
      <3>1. IndexDraft(p) /\ line[p] = 7 /\ peer[p] # 0
        BY <2>3, <2>4 DEF Drafted
      <3>2. Agreeing(commits, peer[p], stored[p], at[p] - 1)
        BY <3>1 DEF IndexDraft
      <3>3. Agreeing(commits, peer[p], stored[p], at[p])
        <4>1. \A i \in 1 .. at[p] : i \in 1 .. at[p] - 1 \/ i = at[p]
          BY <1>1
        <4>2. /\ at[p] <= Len(FileOrder) =>
                    commits[peer[p]].files[FileOrder[at[p]]] = Records(stored[p])[at[p]]
              /\ at[p] = Len(FileOrder) + 1 => commits[peer[p]].manifest = stored[p]
          BY <1>3, <2>1, OneCompared, PlanRecords
        <4> QED
          BY <3>2, <4>1, <4>2 DEF Agreeing
      <3>4. Agreeing(commits', peer'[p], stored'[p], at'[p] - 1)
        <4>1. at'[p] - 1 = at[p]
          BY <1>1, <2>3
        <4> QED
          BY <2>3, <3>3, <4>1
      <3> QED
        BY <2>2, <2>3, <3>1, <3>4 DEF IndexDraft
    <2>5. ASSUME op[p] = "payload"
          PROVE  PayloadDraft(p)'
      BY <2>2, <2>3, <2>5 DEF Drafted, PayloadDraft
    <2> QED
      BY <2>3, <2>4, <2>5, Unburdened
  <1>4. CASE /\ SameAsSigned(p, at[p]) /\ at[p] = Len(FileOrder) + 2
             /\ Forward(p) /\ Rewind(p) /\ UNCHANGED <<stored, base, peer, product>>
    <2>1. Moves(p) /\ Touches(peer, peer', p) /\ Touches(product, product', p)
      BY <1>4 DEF Moves, Touches
    <2>2. Follows(p) /\ At(p, "compare")
      BY <1>1, <1>4, <2>1, Passed DEF Lines
    <2>3. /\ pc[p] = "publish" /\ Drafted(p)
          /\ UNCHANGED <<commits, head, doubted, returned, stored, base, peer, product>>
          /\ op[p] \in {"index", "payload"} => line[p] = 7 /\ line'[p] = 8
      BY <1>4, <2>2 DEF Follows, At, PInv
    <2>4. ASSUME op[p] = "index"
          PROVE  IndexDraft(p)' /\ peer'[p] # 0
      <3>1. IndexDraft(p) /\ line[p] = 7 /\ line'[p] = 8 /\ peer[p] # 0
        BY <2>3, <2>4 DEF Drafted
      <3>2. Agreeing(commits, peer[p], stored[p], at[p] - 1)
        BY <3>1 DEF IndexDraft
      <3>3. at[p] - 1 = Len(FileOrder) + 1
        BY <1>4, PlanRecords
      <3>4. peer[p] \in DOMAIN commits
        BY <2>3, <3>1, SeqShape DEF PInv, World, Drafted
      <3>5. commits[peer[p]].signature = stored[p]
        BY <1>1, <1>4, OneCompared, PlanRecords
      <3>6. HoldsIn(commits, peer[p], stored[p])
        BY <3>2, <3>3, <3>4, <3>5, AllCompared
      <3> QED
        BY <2>3, <3>1, <3>6 DEF IndexDraft
    <2>5. ASSUME op[p] = "payload"
          PROVE  PayloadDraft(p)'
      BY <2>3, <2>5 DEF Drafted, PayloadDraft
    <2>6. peer'[p] \in 0 .. Len(commits)
      BY <2>2, <2>3 DEF Follows
    <2> QED
      BY <2>2, <2>4, <2>5, <2>6, Burdened
  <1> QED
    BY <1>2, <1>3, <1>4 DEF CompareFile

LEMMA QuitKeeps ==
    ASSUME PInv, NEW p \in Tool, Quit(p)
    PROVE  Apart(p) /\ Drafted(p)' /\ UNCHANGED <<outputs, doubted>>
  BY RefuseKeeps DEF Quit
-----------------------------------------------------------------------------
(* The derivation of an index, and its output *)

LEMMA IndexFields ==
    ASSUME NEW seq, NEW g, NEW rs
    PROVE  IndexOf(seq, g, rs).indexSequence = seq /\ IndexOf(seq, g, rs).releases = rs
  BY DEF IndexOf

LEMMA OneEntry ==
    ASSUME NEW x, NEW e, x.releases = <<e>>
    PROVE  IsSeq(x.releases) /\ RI!EntriesOf(x) = {e}
  <1>1. DOMAIN <<e>> = {1} /\ <<e>>[1] = e /\ <<e>> \in Seq({e})
    OBVIOUS
  <1>2. {<<e>>[i] : i \in DOMAIN <<e>>} = {e}
    BY <1>1
  <1> QED
    BY <1>1, <1>2 DEF IsSeq, RI!EntriesOf

\* The history keeps its entries and gains at most the new one.
LEMMA HistoryAfter ==
    ASSUME NEW previous, NEW e, IsSeq(previous.releases),
           NEW x, x.releases = EntriesAfter(previous, e)
    PROVE  /\ IsSeq(x.releases)
           /\ RI!EntriesOf(previous) \subseteq RI!EntriesOf(x)
           /\ RI!EntriesOf(x) \subseteq RI!EntriesOf(previous) \cup {e}
  <1>1. CASE e \in RI!EntriesOf(previous)
    BY <1>1 DEF EntriesAfter, RI!EntriesOf
  <1>2. CASE e \notin RI!EntriesOf(previous)
    <2> DEFINE s == previous.releases
               a == Append(s, e)
    <2>1. x.releases = a
      BY <1>2 DEF EntriesAfter
    <2>2. /\ IsSeq(a) /\ DOMAIN a = 1 .. Len(s) + 1
          /\ \A i \in 1..Len(s) : a[i] = s[i]
          /\ a[Len(s) + 1] = e
          /\ DOMAIN s = 1..Len(s) /\ Len(s) \in Nat
      BY Grown, SeqShape
    <2> HIDE DEF a
    <2>3. \A i \in DOMAIN s : i \in DOMAIN a /\ a[i] = s[i]
      BY <2>2
    <2>4. \A i \in DOMAIN a : i = Len(s) + 1 \/ (i \in DOMAIN s /\ a[i] = s[i])
      BY <2>2
    <2>5. {s[i] : i \in DOMAIN s} \subseteq {a[i] : i \in DOMAIN a}
      BY <2>3
    <2>6. {a[i] : i \in DOMAIN a} \subseteq {s[i] : i \in DOMAIN s} \cup {e}
      BY <2>2, <2>4
    <2> QED
      BY <2>1, <2>2, <2>5, <2>6 DEF RI!EntriesOf
  <1> QED
    BY <1>1, <1>2

LEMMA EntryFields ==
    ASSUME NEW c, NEW m
    PROVE  EntryOf(c, m).content = [commit |-> c, manifest |-> m]
  BY DEF EntryOf

LEMMA GenesisCandidate ==
    ASSUME NEW cs, NEW ds, NEW c, NEW m, NEW g, NEW new,
           new.index = Genesis(EntryOf(c, m), g), new.over = None, RI!ParseIndex(new.index, Now)
    PROVE  Candidate(cs, ds, new, c, m)
  <1> DEFINE e == EntryOf(c, m)
  <1>1. new.index.indexSequence = 1 /\ new.index.releases = <<e>>
    BY IndexFields DEF Genesis
  <1>2. IsSeq(new.index.releases) /\ RI!EntriesOf(new.index) = {e}
    BY <1>1, OneEntry
  <1>3. Extends(new)
    BY DEF Extends, RI!ParseIndex, RI!ValidateCheckpoint
  <1>4. e.content = [commit |-> c, manifest |-> m]
    BY EntryFields
  <1> HIDE DEF e
  <1> QED
    BY <1>1, <1>2, <1>3, <1>4 DEF Candidate

LEMMA SuccessorCandidate ==
    ASSUME NEW cs, NEW ds, NEW c, NEW m, NEW g, NEW previous, previous # None,
           Sound(cs, ds, previous), NEW new,
           new.index = Successor(previous, EntryOf(c, m), g), new.over = previous,
           RI!ParseIndex(new.index, Now)
    PROVE  Candidate(cs, ds, new, c, m)
  <1> DEFINE e == EntryOf(c, m)
  <1>1. /\ new.index.indexSequence = previous.indexSequence + 1
        /\ new.index.releases = EntriesAfter(previous, e)
    BY IndexFields DEF Successor
  <1>2. previous.indexSequence \in Nat /\ IsSeq(previous.releases)
    BY DEF Sound
  <1>3. e.content = [commit |-> c, manifest |-> m]
    BY EntryFields
  <1> HIDE DEF e
  <1>4. /\ IsSeq(new.index.releases)
        /\ RI!EntriesOf(previous) \subseteq RI!EntriesOf(new.index)
        /\ RI!EntriesOf(new.index) \subseteq RI!EntriesOf(previous) \cup {e}
    BY <1>1, <1>2, HistoryAfter
  <1>5. /\ new.index.indexSequence \in Nat
        /\ previous.indexSequence <= new.index.indexSequence
        /\ previous.indexSequence # new.index.indexSequence
    BY <1>1, <1>2
  <1>6. Extends(new)
    BY <1>4, <1>5 DEF Extends, RI!ParseIndex, RI!ValidateCheckpoint, RI!RetainsHistory
  <1>7. \A d \in RI!EntriesOf(new.index) :
            \/ Vouched(cs, ds, d.content)
            \/ d.content = [commit |-> c, manifest |-> m]
    BY <1>3, <1>4 DEF Sound
  <1> QED
    BY <1>4, <1>5, <1>6, <1>7 DEF Candidate

LEMMA DeriveIndexKeeps ==
    ASSUME PInv, NEW p \in Tool, NEW g \in Times, DeriveIndex(p, g)
    PROVE  Apart(p) /\ Drafted(p)' /\ UNCHANGED <<outputs, doubted>>
  <1> DEFINE e == EntryOf(base[p], stored[p])
  <1>1. On(p, "derive")
    BY DEF DeriveIndex
  <1>2. CASE Refuse(p)
    BY <1>2, RefuseKeeps
  <1>3. ASSUME NEW over, NEW fresh, Forward(p), RI!ParseIndex(fresh, Now),
               product' = [product EXCEPT ![p] = [index |-> fresh, over |-> over]],
               UNCHANGED <<pass, stored, base, peer>>,
               \/ over = None /\ fresh = Genesis(e, g)
               \/ over # None /\ over = checkpoint /\ fresh = Successor(checkpoint, e, g)
        PROVE  Apart(p) /\ Drafted(p)' /\ UNCHANGED <<outputs, doubted>>
    <2> DEFINE new == [index |-> fresh, over |-> over]
    <2>1. new.index = fresh /\ new.over = over
      OBVIOUS
    <2>2. product' = [product EXCEPT ![p] = new]
      BY <1>3
    <2> HIDE DEF new
    <2>3. UNCHANGED <<at, seen, stored, base, peer>>
      BY <1>3 DEF pass
    <2>4. Moves(p) /\ Touches(peer, peer', p) /\ Touches(product, product', p)
      BY <2>2, <2>3 DEF Moves, Touches
    <2>5. Follows(p) /\ At(p, "derive")
      BY <1>1, <1>3, <2>3, <2>4, Passed DEF Lines
    <2>6. product'[p] = new
      BY <2>2 DEF PInv, World, Drafts
    <2>7. Candidate(commits, doubted, new, base[p], stored[p])
      <3>1. CASE over = None /\ fresh = Genesis(e, g)
        BY <1>3, <2>1, <3>1, GenesisCandidate
      <3>2. CASE over # None /\ over = checkpoint /\ fresh = Successor(checkpoint, e, g)
        <4>1. Sound(commits, doubted, over)
          BY <3>2 DEF PInv, World
        <4> QED
          BY <1>3, <2>1, <3>2, <4>1, SuccessorCandidate
      <3> QED
        BY <1>3, <3>1, <3>2
    <2>8. ASSUME op[p] = "index"
          PROVE  IndexDraft(p)' /\ ~(line'[p] >= 7)
      <3>1. line'[p] = 6 /\ UNCHANGED <<commits, doubted, base, stored>>
        BY <2>3, <2>5, <2>8 DEF Follows, At
      <3> QED
        BY <2>6, <2>7, <3>1 DEF IndexDraft
    <2> QED
      BY <2>3, <2>5, <2>8, Burdened DEF Follows, At
  <1>4. CASE Derived(p, None, Genesis(e, g), e.manifestSequence = 1)
    BY <1>2, <1>3, <1>4 DEF Derived
  <1>5. CASE /\ checkpoint # None
             /\ Derived(p, checkpoint, Successor(checkpoint, e, g),
                        /\ checkpoint.indexSequence < MaxSequence
                        /\ Advances(checkpoint, e)
                        /\ g > checkpoint.generatedAt)
    BY <1>2, <1>3, <1>5 DEF Derived
  <1> QED
    BY <1>4, <1>5 DEF DeriveIndex

LEMMA CandidateIsSound ==
    ASSUME NEW cs, NEW ds, NEW es, ds \subseteq es, NEW new, NEW c, NEW m,
           Candidate(cs, ds, new, c, m), Vouched(cs, es, [commit |-> c, manifest |-> m])
    PROVE  Sound(cs, es, new.index) /\ Extends(new)
  <1>1. \A x : Vouched(cs, ds, x) => Vouched(cs, es, x)
    BY DEF Vouched
  <1>2. \A e \in RI!EntriesOf(new.index) : Vouched(cs, es, e.content)
    BY <1>1 DEF Candidate
  <1> QED
    BY <1>2 DEF Candidate, Sound

LEMMA StillGrows ==
    ASSUME PInv, git' = git, doubted \subseteq doubted'
    PROVE  Grow
  BY SeqShape DEF PInv, World, git, Grow

LEMMA WorldStays ==
    ASSUME World, git' = git, outputs' = outputs, doubted' = doubted, Drafts'
    PROVE  World'
  <1>1. UNCHANGED <<commits, head, tags, checkpoint, index, statement>>
    BY DEF git, outputs
  <1> QED
    BY <1>1 DEF World

LEMMA PutOutputKeeps ==
    ASSUME PInv, NEW p \in Tool, PutOutput(p)
    PROVE  Apart(p) /\ Drafted(p)' /\ World' /\ doubted \subseteq doubted'
  <1>1. On(p, "put") /\ Drop(p)
    BY DEF PutOutput
  <1>2. Apart(p) /\ Drafted(p)' /\ git' = git /\ Drafts'
    BY <1>1, DropApart DEF Apart
  <1>3. CASE UNCHANGED <<outputs, doubted>>
    BY <1>2, <1>3, WorldStays DEF PInv
  <1>4. CASE WriteOutput(p)
    <2>1. UNCHANGED <<commits, head, tags>> /\ World
      BY <1>2 DEF git, PInv
    <2>2. /\ pc[p] = "publish" /\ Drafted(p) /\ op[p] \in DOMAIN Script
          /\ line[p] \in DOMAIN Script[op[p]] /\ Script[op[p]][line[p]] = "put"
      BY <1>1 DEF On, PInv, Drafted
    <2>3. /\ checkpoint' = checkpoint
          /\ op[p] = "index" => index' = product[p]
          /\ op[p] # "index" => index' = index
          /\ op[p] = "payload" => statement' = product[p]
          /\ op[p] # "payload" => statement' = statement
      BY <1>4 DEF WriteOutput
    <2>9. /\ doubted \subseteq doubted'
          /\ op[p] = "index" /\ p \in returned =>
                [commit |-> base[p], manifest |-> stored[p]] \in doubted'
      BY <1>4 DEF WriteOutput
    <2>4. ASSUME op[p] = "index"
          PROVE  Sound(commits, doubted', product[p].index) /\ Extends(product[p])
      <3>1. line[p] = 9
        BY <2>2, <2>4, ScriptLines
      <3>2. IndexDraft(p)
        BY <2>2, <2>4 DEF Drafted
      <3>3. /\ Candidate(commits, doubted, product[p], base[p], stored[p])
            /\ HoldsIn(commits, peer[p], stored[p])
            /\ p \notin returned => peer[p] = base[p]
        BY <3>1, <3>2 DEF IndexDraft
      <3> DEFINE content == [commit |-> base[p], manifest |-> stored[p]]
      <3>4. content.commit = base[p] /\ content.manifest = stored[p]
        OBVIOUS
      <3>5. content \in doubted' \/ peer[p] = base[p]
        BY <2>4, <2>9, <3>3
      <3> HIDE DEF content
      <3>6. Vouched(commits, doubted', content)
        BY <3>3, <3>4, <3>5 DEF Vouched, HoldsIn
      <3> QED
        BY <2>9, <3>3, <3>6, CandidateIsSound DEF content
    <2>5. ASSUME op[p] = "payload"
          PROVE  Coherent(commits, product[p])
      <3>1. line[p] = 10
        BY <2>2, <2>5, ScriptLines
      <3> QED
        BY <2>2, <2>5, <3>1 DEF Drafted, PayloadDraft
    <2>10. Grow
      BY <1>2, <2>9, StillGrows
    <2>6. index' # None => Sound(commits', doubted', index'.index) /\ Extends(index')
      BY <2>1, <2>3, <2>4, <2>10, SoundStays DEF World
    <2>7. statement' # None => Coherent(commits', statement')
      BY <2>1, <2>3, <2>5 DEF World
    <2>8. checkpoint' # None => Sound(commits', doubted', checkpoint')
      BY <2>1, <2>3, <2>10, SoundStays DEF World
    <2> QED
      BY <1>2, <2>1, <2>6, <2>7, <2>8, <2>9 DEF World
  <1> QED
    BY <1>2, <1>3, <1>4 DEF PutOutput

LEMMA BuildKeepsDraft ==
    ASSUME PInv, NEW p \in Tool, Build(p) \/ Quit(p)
    PROVE  Apart(p) /\ Drafted(p)' /\ World' /\ doubted \subseteq doubted'
  <1>1. CASE PutOutput(p)
    BY <1>1, PutOutputKeeps
  <1>2. CASE ~PutOutput(p)
    <2>1. Apart(p) /\ Drafted(p)' /\ UNCHANGED <<outputs, doubted>>
      BY <1>2, PinHeadKeeps, TakeManifestKeeps, ProveManifestKeeps, CheckTagKeeps, AskReleaseKeeps,
         DeriveIndexKeeps, ListTreeKeeps, CompareFileKeeps, PackFileKeeps, PackedKeeps,
         GatherIndexKeeps, SealArchiveKeeps, SealPayloadKeeps, RecheckHeadKeeps, QuitKeeps
         DEF Build
    <2> QED
      BY <2>1, WorldStays DEF PInv, Apart
  <1> QED
    BY <1>1, <1>2

-----------------------------------------------------------------------------
(* The invariant is inductive *)

LEMMA DraftKeeps ==
    ASSUME PInv, NEW p \in Tool, Apart(p), Drafted(p)', World', doubted \subseteq doubted'
    PROVE  PInv'
  <1>1. IInv'
    BY LocalKeeps DEF PInv, Apart
  <1>3. Grow
    BY StillGrows DEF Apart
  <1>4. \A q \in Tool \ {p} : Alike(q) /\ Watched(q)
    BY DEF Apart, git, Watched
  <1>2. \A q \in Tool \ {p} : Drafted(q)'
    BY <1>3, <1>4, OthersDraft DEF PInv
  <1> QED
    BY <1>1, <1>2 DEF PInv

\* What leaves every tool where it is.
LEMMA QuietWorld ==
    ASSUME PInv, IInv', Grow, World', \A q \in Tool : Watched(q),
           UNCHANGED <<pc, op, at, seen, stored, first, heldTree, heldSkills, draft>>
    PROVE  PInv'
  <1>1. \A q \in Tool : Alike(q)
    BY DEF Alike, Same, draft
  <1>2. \A q \in Tool : Drafted(q)'
    BY <1>1, OthersDraft DEF PInv
  <1> QED
    BY <1>2 DEF PInv

LEMMA StillWatched ==
    ASSUME UNCHANGED <<head, returned>>
    PROVE  \A q \in Tool : Watched(q)
  BY DEF Watched

\* The commands of Integrity, beside the builders.
LEMMA BesideKeeps ==
    ASSUME PInv, NEW p \in Tool, Local(p), Inv(p)', UNCHANGED publishing,
           pc[p] # "publish", pc'[p] # "publish"
    PROVE  PInv'
  <1>1. /\ git' = git /\ outputs' = outputs
        /\ UNCHANGED <<line, base, peer, product, commits, head, tags, returned, doubted>>
    BY DEF publishing, draft, git, history
  <1>2. Drafts'
    BY <1>1 DEF PInv, World, Drafts
  <1>3. World'
    BY <1>1, <1>2, WorldStays DEF PInv
  <1>4. Drafted(p)'
    BY <1>1 DEF PInv, Drafted
  <1>5. Apart(p)
    BY <1>1, <1>2 DEF Apart, Local, Alike
  <1> QED
    BY <1>1, <1>3, <1>4, <1>5, DraftKeeps

LEMMA StepApart ==
    ASSUME Types, NEW p \in Tool, Step(p)
    PROVE  pc[p] # "publish" /\ pc'[p] # "publish"
  <1>1. CASE Exit(p)
    <2>1. pc'[p] = "idle"
      BY <1>1, ExitEffect
    <2> QED
      BY <1>1, <2>1 DEF Step, Read, Built, Flush, Load, Authenticate, Compare, Fetch, Confirm, Look,
         Decide, PassDone, Looked, Truncate, Unlink, ReadToSign, Emit, Capture, Authorize, LookAgain, Goto
  <1>2. CASE ~Exit(p)
    <2>1. CASE pc' = pc
      BY <1>2, <2>1 DEF Step, Read, Built, Flush, Load, Authenticate, Compare, Fetch, Confirm, Look,
         Decide, PassDone, Looked, Truncate, Unlink, ReadToSign, Emit, Capture, Authorize, LookAgain, Goto
    <2> QED
      BY <1>2 DEF Types, Step, Read, Built, Flush, Load, Authenticate, Compare, Fetch, Confirm, Look,
         Decide, PassDone, Looked, Truncate, Unlink, ReadToSign, Emit, Capture, Authorize, LookAgain,
         Goto, Keep, Ready
  <1> QED
    BY <1>1, <1>2
LEMMA BeginKeeps ==
    ASSUME PInv, NEW p \in Tool, NEW o \in DOMAIN Script, Begin(p, o)
    PROVE  PInv'
  <1>1. /\ pc[p] = "idle" /\ pc' = [pc EXCEPT ![p] = "publish"]
        /\ op' = [op EXCEPT ![p] = o]
        /\ UNCHANGED <<tree, installed, at, seen, stored, first, heldTree, heldSkills>>
        /\ git' = git /\ outputs' = outputs
        /\ UNCHANGED <<line, base, peer, product, commits, head, tags, returned, doubted>>
    BY DEF Begin, Goto, files, pass, held, publishing, draft, git, history
  <1>2. pc'[p] = "publish" /\ op'[p] = o
    BY <1>1 DEF PInv, IInv, Types
  <1>3. Types'
    BY <1>1 DEF PInv, IInv, Types
  <1>4. \A q \in Tool \ {p} : Same(q)
    BY <1>1 DEF Same, PInv, IInv, Types
  <1>5. Drafts'
    BY <1>1 DEF PInv, World, Drafts
  <1>6. Local(p) /\ Inv(p)'
    BY <1>1, <1>2, <1>3, <1>4, QuietKeeps DEF Local, Quiet
  <1>7. Apart(p)
    BY <1>1, <1>4, <1>5, <1>6 DEF Apart, Alike
  <1>8. /\ line[p] = 1 /\ p \notin returned
        /\ base[p] \in 0 .. Len(commits) /\ peer[p] \in 0 .. Len(commits)
    BY <1>1 DEF PInv, Drafted
  <1>9. 1 \in DOMAIN Script[o]
    BY DEF Script
  <1>10. Drafted(p)'
    BY <1>1, <1>2, <1>8, <1>9 DEF Drafted, IndexDraft, PayloadDraft
  <1>11. World'
    BY <1>1, <1>5, WorldStays DEF PInv
  <1> QED
    BY <1>1, <1>7, <1>10, <1>11, DraftKeeps

LEMMA CommitKeeps ==
    ASSUME PInv, Commit
    PROVE  PInv'
  <1>1. /\ commits' = Append(commits, CommitOf(tree, manifest)) /\ head' = Len(commits) + 1
        /\ vars' = vars /\ tags' = tags /\ outputs' = outputs /\ draft' = draft
        /\ UNCHANGED <<returned, doubted>>
    BY DEF Commit, history
  <1>2. IInv'
    BY <1>1, StutterKeeps DEF PInv
  <1>3. /\ IsSeq(commits') /\ Len(commits') = Len(commits) + 1 /\ Len(commits) \in Nat
        /\ \A c \in 1..Len(commits) : commits'[c] = commits[c]
    BY <1>1, Grown, SeqShape DEF PInv, World
  <1>4. Grow
    BY <1>1, <1>3 DEF Grow, PInv, World
  <1>5. UNCHANGED <<checkpoint, index, statement, line, base, peer, product>>
    BY <1>1 DEF outputs, draft
  <1>6. World'
    BY <1>1, <1>3, <1>4, <1>5, SoundStays DEF PInv, World, Drafts
  <1>7. \A q \in Tool : head' # base[q]
    BY <1>1, <1>3 DEF PInv, Drafted
  <1>8. \A q \in Tool : Watched(q)
    BY <1>1, <1>7 DEF Watched
  <1> QED
    BY <1>1, <1>2, <1>4, <1>6, <1>8, QuietWorld DEF vars, memory, pass, held

\* Every index builder that has pinned the commit HEAD is moved to is noticed.
LEMMA MoveHeadKeeps ==
    ASSUME PInv, NEW c \in DOMAIN commits, MoveHead(c)
    PROVE  PInv'
  <1>1. /\ head' = c /\ vars' = vars
        /\ UNCHANGED <<commits, tags, checkpoint, index, statement, doubted>> /\ draft' = draft
        /\ returned' = returned \cup {p \in Tool : op[p] = "index" /\ base[p] = c}
    BY DEF MoveHead, outputs
  <1>2. IInv'
    BY <1>1, StutterKeeps DEF PInv
  <1>3. c \in 1 .. Len(commits) /\ Len(commits) \in Nat
    BY SeqShape DEF PInv, World
  <1>4. World'
    BY <1>1, <1>3 DEF PInv, World, Drafts, draft
  <1>5. Grow
    BY <1>1, SeqShape DEF PInv, World, Grow
  <1>6. \A q \in Tool : base[q] = c => pc[q] = "publish"
    BY <1>3 DEF PInv, Drafted
  <1>7. \A q \in Tool : Watched(q)
    BY <1>1, <1>6 DEF Watched
  <1> QED
    BY <1>1, <1>2, <1>4, <1>5, <1>7, QuietWorld DEF vars, memory, pass, held

LEMMA ResignKeeps ==
    ASSUME PInv, Resign
    PROVE  PInv'
  <1>1. /\ UNCHANGED <<tree, installed, pc, op, at, seen, stored, first, heldTree, heldSkills>>
        /\ git' = git /\ outputs' = outputs /\ draft' = draft /\ UNCHANGED <<returned, doubted>>
    BY DEF Resign, pass, memory, held, publishing, history
  <1>2. IInv'
    <2>1. \A p \in Tool : Inv(p)'
      BY <1>1 DEF PInv, IInv, Inv, PassInv, AuthInv, FirstInv, HeldInv, ReadyInv, CaptureInv,
         OneTree, Reviewed
    <2> QED
      BY <1>1, <2>1 DEF PInv, IInv, Types
  <1>3. Drafts'
    BY <1>1 DEF PInv, World, Drafts, draft
  <1>4. World'
    BY <1>1, <1>3, WorldStays DEF PInv
  <1>5. Grow /\ \A q \in Tool : Watched(q)
    BY <1>1, StillGrows, StillWatched DEF git
  <1> QED
    BY <1>1, <1>2, <1>4, <1>5, QuietWorld

LEMMA TagKeeps ==
    ASSUME PInv, NEW r \in Releases, Tag(r)
    PROVE  PInv'
  <1>1. /\ tags' = [tags EXCEPT ![r] = head] /\ vars' = vars
        /\ UNCHANGED <<commits, head, checkpoint, index, statement>> /\ draft' = draft
        /\ UNCHANGED <<returned, doubted>>
    BY DEF Tag, outputs, history
  <1>2. IInv'
    BY <1>1, StutterKeeps DEF PInv
  <1>3. head \in 0 .. Len(commits)
    BY SeqShape DEF PInv, World
  <1>4. tags' \in [Releases -> 0 .. Len(commits')]
    BY <1>1, <1>3 DEF PInv, World
  <1>5. World'
    BY <1>1, <1>4 DEF PInv, World, Drafts, draft
  <1>6. Grow
    BY <1>1, SeqShape DEF PInv, World, Grow
  <1> QED
    BY <1>1, <1>2, <1>5, <1>6, StillWatched, QuietWorld DEF vars, memory, pass, held

LEMMA AcceptIndexKeeps ==
    ASSUME PInv, AcceptIndex
    PROVE  PInv'
  <1>1. /\ index # None /\ checkpoint' = index.index /\ index' = None /\ vars' = vars
        /\ UNCHANGED <<commits, head, tags, statement>> /\ draft' = draft
        /\ UNCHANGED <<returned, doubted>>
    BY DEF AcceptIndex, git, history
  <1>2. IInv'
    BY <1>1, StutterKeeps DEF PInv
  <1>3. World'
    BY <1>1 DEF PInv, World, Drafts, draft
  <1>4. Grow
    BY <1>1, SeqShape DEF PInv, World, Grow
  <1> QED
    BY <1>1, <1>2, <1>3, <1>4, StillWatched, QuietWorld DEF vars, memory, pass, held

LEMMA PNextKeeps ==
    ASSUME PInv, [PNext]_pvars
    PROVE  PInv'
  <1>1. ASSUME NEW p \in Tool, NEW o \in {"manifest", "sign", "verify"}, Start(p, o),
               UNCHANGED publishing
        PROVE  PInv'
    <2>1. Local(p) /\ Inv(p)'
      BY <1>1, StartKeeps DEF PInv, IInv
    <2>2. pc[p] # "publish" /\ pc'[p] # "publish"
      <3>1. /\ pc[p] = "idle"
            /\ \E s \in {"build", "load", "capture"} : pc' = [pc EXCEPT ![p] = s]
        BY <1>1 DEF Start, Goto
      <3> QED
        BY <3>1 DEF PInv, IInv, Types
    <2> QED
      BY <1>1, <2>1, <2>2, BesideKeeps
  <1>2. ASSUME NEW p \in Tool, Step(p), UNCHANGED publishing
        PROVE  PInv'
    BY <1>2, StepKeeps, StepApart, BesideKeeps DEF PInv, IInv
  <1>3. ASSUME NEW p \in Tool, Build(p) \/ Quit(p)
        PROVE  PInv'
    BY <1>3, BuildKeepsDraft, DraftKeeps
  <1>4. ASSUME Around, UNCHANGED publishing
        PROVE  PInv'
    <2>1. IInv'
      BY <1>4, AroundKeeps DEF PInv
    <2>2. UNCHANGED <<pc, op, at, seen, stored, first, heldTree, heldSkills>>
      BY <1>4 DEF Around, Edit, EditInstalled, memory, pass, held
    <2>3. /\ git' = git /\ outputs' = outputs /\ draft' = draft
          /\ UNCHANGED <<head, returned, doubted>>
      BY <1>4 DEF publishing, git, history
    <2>4. World'
      BY <2>3, WorldStays DEF PInv, World, Drafts, draft
    <2> QED
      BY <2>1, <2>2, <2>3, <2>4, StillGrows, StillWatched, QuietWorld
  <1>5. CASE UNCHANGED pvars
    <2>1. /\ vars' = vars /\ git' = git /\ outputs' = outputs /\ draft' = draft
          /\ UNCHANGED <<head, returned, doubted>>
      BY <1>5 DEF pvars, publishing, git, history
    <2>2. IInv'
      BY <2>1, StutterKeeps DEF PInv
    <2>3. World'
      BY <2>1, WorldStays DEF PInv, World, Drafts, draft
    <2> QED
      BY <2>1, <2>2, <2>3, StillGrows, StillWatched, QuietWorld DEF vars, memory, pass, held
  <1>6. ASSUME NEW p \in Tool, NEW o \in DOMAIN Script, Begin(p, o)
        PROVE  PInv'
    BY <1>6, BeginKeeps
  <1>7. ASSUME NEW r \in Releases, Tag(r)
        PROVE  PInv'
    BY <1>7, TagKeeps
  <1>8. ASSUME NEW c \in DOMAIN commits, MoveHead(c)
        PROVE  PInv'
    BY <1>8, MoveHeadKeeps
  <1> QED
    BY <1>1, <1>2, <1>3, <1>4, <1>5, <1>6, <1>7, <1>8, CommitKeeps, ResignKeeps, AcceptIndexKeeps DEF PNext
\* The records of the manifest of a tree are the files of that tree.
LEMMA RecordsOfTree ==
    ASSUME NEW t
    PROVE  Ordered(t) = Records(ManifestAt(t))
  <1> DEFINE c == [k \in Position |-> t[Plan[k].file]]
  <1>1. ASSUME NEW i \in DOMAIN FileOrder
        PROVE  ManifestAt(t)[RepositoryAt(i)] = t[FileOrder[i]]
    <2>1. /\ RepositoryAt(i) \in Position /\ Plan[RepositoryAt(i)].what = "hash"
          /\ Plan[RepositoryAt(i)].file = FileOrder[i]
      BY PlanRecords DEF RepositoryAt
    <2>2. RepositoryAt(i) \in Hashes
      BY <2>1 DEF Hashes
    <2>3. ManifestAt(t) = ManifestOf(c)
      BY DEF ManifestAt
    <2>4. c[RepositoryAt(i)] = t[FileOrder[i]]
      BY <2>1
    <2> HIDE DEF c
    <2>5. ManifestOf(c)[RepositoryAt(i)] = c[RepositoryAt(i)]
      BY <2>2, ManifestShape
    <2> QED
      BY <2>3, <2>4, <2>5
  <1> QED
    BY <1>1 DEF Ordered, Records

LEMMA PInitHolds ==
    ASSUME PInit
    PROVE  PInv
  <1>1. IInv
    BY InitHolds DEF PInit
  <1>2. /\ Drafts /\ statement = None /\ index = None
        /\ returned = {}
        /\ \A p \in Tool : pc[p] = "idle" /\ line[p] = 1 /\ base[p] = 0 /\ peer[p] = 0
    BY DEF PInit, Init, Drafts
  <1>3. CASE commits = <<>> /\ head = 0 /\ checkpoint = None /\ tags = [r \in Releases |-> 0]
    <2>1. IsSeq(commits) /\ Len(commits) = 0
      BY <1>3 DEF IsSeq
    <2>2. World
      BY <1>2, <1>3, <2>1 DEF World
    <2> QED
      BY <1>1, <1>2, <2>1, <2>2 DEF PInv, Drafted
  <1>4. CASE /\ signature = manifest /\ manifest # None
             /\ commits = <<CommitOf(tree, manifest)>> /\ head = 1
             /\ tags = [r \in Releases |-> IF r = IdentityOf(manifest).release THEN 1 ELSE 0]
             /\ checkpoint \in {None, IndexOf(1, 0, <<EntryOf(1, manifest)>>)}
    <2>1. manifest = ManifestAt(tree)
      BY <1>4 DEF PInit, Init
    <2> DEFINE k == CommitOf(tree, manifest)
               e == EntryOf(1, manifest)
               x == IndexOf(1, 0, <<e>>)
    <2>2. k.files = tree /\ k.manifest = manifest /\ k.signature = manifest
      BY DEF CommitOf
    <2>3. x.indexSequence = 1 /\ x.releases = <<e>>
      BY IndexFields
    <2>4. e.content.commit = 1 /\ e.content.manifest = manifest
      <3>1. e.content = [commit |-> 1, manifest |-> manifest]
        BY EntryFields
      <3> HIDE DEF e
      <3> QED
        BY <3>1
    <2>5. checkpoint # None => checkpoint = x
      BY <1>4
    <2>6. commits = <<k>>
      BY <1>4
    <2> HIDE DEF k, e, x
    <2>7. IsSeq(commits) /\ Len(commits) = 1 /\ DOMAIN commits = {1} /\ commits[1] = k
      <3>1. DOMAIN <<k>> = {1} /\ <<k>>[1] = k /\ <<k>> \in Seq({k}) /\ Len(<<k>>) = 1
        OBVIOUS
      <3>2. {<<k>>[i] : i \in DOMAIN <<k>>} = {k}
        BY <3>1
      <3> QED
        BY <2>6, <3>1, <3>2 DEF IsSeq
    <2>8. HoldsIn(commits, 1, manifest)
      BY <2>1, <2>2, <2>7, RecordsOfTree DEF HoldsIn
    <2>9. IsSeq(x.releases) /\ RI!EntriesOf(x) = {e}
      BY <2>3, OneEntry
    <2>10. Sound(commits, doubted, x)
      <3>1. Vouched(commits, doubted, e.content)
        BY <2>4, <2>7, <2>8 DEF Vouched
      <3> QED
        BY <2>3, <2>9, <3>1 DEF Sound
    <2>11. tags \in [Releases -> 0 .. Len(commits)]
      BY <1>4, <2>7
    <2>12. World
      BY <1>2, <1>4, <2>5, <2>7, <2>10, <2>11 DEF World
    <2> QED
      BY <1>1, <1>2, <2>7, <2>12 DEF PInv, Drafted
  <1> QED
    BY <1>3, <1>4 DEF PInit

LEMMA PInductive == PSpec => []PInv
  <1>1. PInit => PInv
    BY PInitHolds
  <1>2. PInv /\ [PNext]_pvars => PInv'
    BY PNextKeeps
  <1> QED
    BY <1>1, <1>2, PTL DEF PSpec

-----------------------------------------------------------------------------
(* What is published *)

\* The tools of Integrity keep their types beside the builders too; HEAD, the
\* tags and what the builders have pinned are commits there are, and a running
\* builder is at a line of its script.
THEOREM BuildersKeepTypes == PSpec => []PTypeOK
  <1>1. PInv => PTypeOK
    <2> SUFFICES ASSUME PInv PROVE PTypeOK
      OBVIOUS
    <2>1. head \in 0 .. Len(commits) /\ tags \in [Releases -> 0 .. Len(commits)]
      BY SeqShape DEF PInv, World
    <2>2. base \in [Tool -> 0 .. Len(commits)]
      BY DEF PInv, World, Drafts, Drafted
    <2>3. TypeOK
      BY DEF PInv, IInv, Types, TypeOK, Inv, FirstInv, ReadyInv
    <2>4. returned \subseteq {p \in Tool : pc[p] = "publish" /\ op[p] = "index"}
      BY DEF PInv, World, Drafts, Drafted
    <2> QED
      BY <2>1, <2>2, <2>3, <2>4 DEF PInv, Drafted, PTypeOK
  <1> QED
    BY <1>1, PInductive, PTL

LEMMA HeldIsHolds == \A c, m : HoldsIn(commits, c, m) <=> Holds(c, m)
  BY DEF HoldsIn, Holds

\* However HEAD, the tags and the files move while release-index runs, the
\* manifest of every release in the index it writes is that of one whole
\* commit, with the signature of it and the files it records.  It is the commit
\* the entry names unless HEAD left the one the builder had pinned and was moved
\* back to it under the builder.
THEOREM IndexNamesWholeCommits == PSpec => []IndexNamesItsTree
  <1>1. PInv => IndexNamesItsTree
    BY HeldIsHolds DEF PInv, World, Sound, Vouched, IndexNamesItsTree
  <1> QED
    BY <1>1, PInductive, PTL

\* An index the builder writes is well ordered, advances the checkpoint it was
\* built from and keeps its history, so that every launcher that holds that
\* checkpoint accepts it.
THEOREM IndexIsAccepted == PSpec => []IndexExtendsCheckpoint
  <1>1. PInv => IndexExtendsCheckpoint
    BY DEF PInv, World, Extends, IndexExtendsCheckpoint
  <1> QED
    BY <1>1, PInductive, PTL

\* The payload binds one candidate: commit, manifest, archive and index.
THEOREM StatementBindsOneCandidate == PSpec => []StatementIsCoherent
  <1>1. PInv => StatementIsCoherent
    BY HeldIsHolds DEF PInv, World, Coherent, Names, StatementIsCoherent
  <1> QED
    BY <1>1, PInductive, PTL

\* Beside the builders and commits, READY is still about one tree.
THEOREM ReadyIsOneTreeBeside == PSpec => []ReadyIsOneTree
  <1>1. PInv => ReadyIsOneTree
    BY DEF PInv, IInv, Inv, ReadyInv, OneTree, Settled, ReadyIsOneTree
  <1> QED
    BY <1>1, PInductive, PTL

\* Beside the builders and commits, READY is still reviewed.
THEOREM ReadyIsReviewedBeside == PSpec => []ReadyIsReviewed
  <1>1. PInv => ReadyIsReviewed
    BY DEF PInv, IInv, Inv, ReadyInv, Reviewed, Settled, ReadyIsReviewed
  <1> QED
    BY <1>1, PInductive, PTL

\* Beside the builders and commits, the hook still allows one installed skill.
THEOREM HookAllowsBeside == PSpec => []HookAllowsInstalled
  <1>1. PInv => HookAllowsInstalled
    BY DEF PInv, IInv, Inv, CaptureInv, HookAllowsInstalled
  <1> QED
    BY <1>1, PInductive, PTL
=============================================================================
