------------------------------ MODULE Publish -------------------------------
(***************************************************************************)
(* build_trust_metadata.py: release-index, release-archive and             *)
(* release-payload, run over the working tree of Integrity while its tools *)
(* run, files are edited, commits and tags are made and HEAD is moved      *)
(* forth and back.  Nothing is locked: a command pins HEAD, captures the   *)
(* manifest and its signature, compares every file of the tree with the    *)
(* manifest and with the commit HEAD names by then, and at the end looks   *)
(* at HEAD again.                                                          *)
(*                                                                         *)
(* A commit is the files, manifest and signature it holds.  The entry of   *)
(* an index stands for its commit and its manifest; the digests of the     *)
(* launcher and the verifier are in the manifest.  Signing an index, and   *)
(* the threshold signatures of a payload, are made by hand elsewhere: an   *)
(* index that was written is taken to be signed.                           *)
(***************************************************************************)
EXTENDS Integrity

CONSTANTS
    MaxCommits,     \* bound on the number of commits
    Times,          \* the times an operator gives with --generated-at
    Now,            \* the time at which the commands run
    Lifetime,       \* what --valid-until adds to it
    MaxSequence,    \* MAX_SEQUENCE, the last indexSequence
    Narrow          \* whether the bounds below are on

VARIABLES
    commits,        \* the commits, oldest first
    head,           \* the commit HEAD names, 0 before the first
    tags,           \* release name -> commit its annotated tag peels to
    checkpoint,     \* the freshness checkpoint, which is an accepted index
    index,          \* the release index written last
    archive,        \* the release archive
    statement,      \* the release payload
    line,           \* the line of its script each builder is at
    base,           \* the HEAD it has pinned
    peer,           \* the commit it compares the files with
    product         \* what it is about to write

\* Auxiliary: no action reads them.
VARIABLES
    returned,       \* index builders under which HEAD went back to the pinned one
    doubted         \* commit and manifest of the entries such builders wrote

git == <<commits, head, tags>>
outputs == <<checkpoint, index, archive, statement>>
draft == <<line, base, peer, product>>
history == <<returned, doubted>>
publishing == <<git, outputs, draft, history>>
pvars == <<vars, publishing>>

Releases == {Identity[c].release : c \in Content}

RI == INSTANCE ReleaseIndex WITH
    ClockSkew <- 0, MaxLifetime <- Lifetime, ReleaseName <- Releases, Content <- {}

IdentityOf(m) == m[2]

\* The repositoryFiles record of the i-th file.
RepositoryAt(i) == 2 + 2 * Len(SkillFiles) + Len(OtherFiles) + i
Records(m) == [i \in DOMAIN FileOrder |-> m[RepositoryAt(i)]]
Ordered(t) == [i \in DOMAIN FileOrder |-> t[FileOrder[i]]]

CommitOf(t, m) == [files |-> t, manifest |-> m, signature |-> m]

EntryOf(c, m) ==
    [release |-> IdentityOf(m).release, manifestSequence |-> IdentityOf(m).manifestSequence,
     content |-> [commit |-> c, manifest |-> m]]

IndexOf(seq, at_, releases) ==
    [indexSequence |-> seq, generatedAt |-> at_, validUntil |-> at_ + Lifetime,
     releases |-> releases]

-----------------------------------------------------------------------------
(* What the commands start from *)

\* A candidate signed, committed and tagged, before the first release or
\* after the release of another candidate; or nothing at all.
PInit ==
    /\ Init
    /\ statement = None /\ archive = None /\ index = None
    /\ line = [p \in Tool |-> 1]
    /\ base = [p \in Tool |-> 0]
    /\ peer = [p \in Tool |-> 0]
    /\ product = [p \in Tool |-> None]
    /\ returned = {} /\ doubted = {}
    /\ \/ /\ commits = <<>> /\ head = 0 /\ checkpoint = None
          /\ tags = [r \in Releases |-> 0]
       \/ /\ signature = manifest /\ manifest # None
          /\ commits = <<CommitOf(tree, manifest)>> /\ head = 1
          /\ tags = [r \in Releases |-> IF r = IdentityOf(manifest).release THEN 1 ELSE 0]
          /\ checkpoint \in {None, IndexOf(1, 0, <<EntryOf(1, manifest)>>)}

NoTool == \A p \in Tool : pc[p] = "idle"

\* Bound: the commands of Integrity, which read and write nothing of Git,
\* interleave with each other and with edits before the first commit, where
\* they meet every tree, manifest and signature; after it Resign stands for
\* manifest and sign.
NarrowTools == Narrow => commits = <<>>

\* Bound: the first commit is made when no tool runs, and before an edit of
\* the installed skill, which no builder reads.
NarrowCommit == Narrow /\ commits = <<>> => NoTool /\ installed = [f \in Skill |-> 1]

\* Bound: one builder at a time, beside no other tool, started at the newest
\* commit and before there is a payload, which nothing replaces.
NarrowBuilder == Narrow => NoTool /\ head = Len(commits) /\ statement = None

\* Bound: tags are made and indexes accepted when no builder runs, and HEAD is
\* moved back when one has pinned it.  A builder reads its tag, the checkpoint and the
\* index once, and a tag made under it at its commit could be made before it.
NarrowTags == Narrow => NoTool
NarrowHead == Narrow => \E p \in Tool : base[p] # 0

\* What is committed is a manifest with its signature, over any tree.
Commit ==
    /\ NarrowCommit
    /\ Len(commits) < MaxCommits
    /\ Readable(manifest) /\ Verifies(signature, manifest)
    /\ commits' = Append(commits, CommitOf(tree, manifest))
    /\ head' = Len(commits) + 1
    /\ UNCHANGED <<vars, tags, outputs, draft, history>>

\* git reset: HEAD names another commit, and the files stay as they are.
MoveHead(c) ==
    /\ NarrowHead
    /\ c # head
    /\ head' = c
    /\ returned' = returned \cup {p \in Tool : op[p] = "index" /\ base[p] = c}
    /\ UNCHANGED <<vars, commits, tags, outputs, draft, doubted>>

\* manifest and sign, between two steps of a builder.
Resign ==
    /\ commits # <<>>
    /\ Judged(ManifestAt(tree))
    /\ manifest' = ManifestAt(tree)
    /\ signature' = manifest'
    /\ UNCHANGED <<tree, installed, pc, pass, memory, publishing>>

Tag(r) ==
    /\ NarrowTags
    /\ head # 0
    /\ tags' = [tags EXCEPT ![r] = head]
    /\ UNCHANGED <<vars, commits, head, outputs, draft, history>>

\* The launcher of the maintainers accepts an index over its checkpoint.
AcceptIndex ==
    /\ NarrowTags
    /\ index # None
    /\ RI!ValidateCheckpoint(checkpoint, index.index, index.index)
    /\ checkpoint' = index.index
    /\ index' = None
    /\ UNCHANGED <<vars, git, archive, statement, draft, history>>

-----------------------------------------------------------------------------
(* The commands, line by line *)

Script ==
    [index |-> <<"pin", "take", "prove", "tag", "derive", "list", "compare", "recheck", "put">>,
     archive |-> <<"pin", "take", "prove", "tag", "list", "compare", "pack", "seal",
                   "list", "compare", "recheck", "put">>,
     payload |-> <<"pin", "tag", "take", "prove", "gather", "list", "compare", "seal",
                   "recheck", "put">>]

Begin(p, o) ==
    /\ NarrowBuilder
    /\ Goto(p, "idle", "publish")
    /\ op' = [op EXCEPT ![p] = o]
    /\ UNCHANGED <<files, pass, stored, first, held, publishing>>

On(p, what) == pc[p] = "publish" /\ Script[op[p]][line[p]] = what

Forward(p) ==
    /\ line' = [line EXCEPT ![p] = @ + 1]
    /\ UNCHANGED <<files, pc, op, first, held, git, outputs, history>>

\* A command that is refused, or has written its output, ends.
Drop(p) ==
    /\ Exit(p)
    /\ line' = [line EXCEPT ![p] = 1]
    /\ base' = [base EXCEPT ![p] = 0]
    /\ peer' = [peer EXCEPT ![p] = 0]
    /\ product' = [product EXCEPT ![p] = None]
    /\ returned' = returned \ {p}
    /\ UNCHANGED <<files, git>>

Refuse(p) == Drop(p) /\ UNCHANGED <<outputs, doubted>>

\* A line that only checks: the command goes on or is refused.
Check(p, holds) ==
    \/ holds /\ Forward(p) /\ UNCHANGED <<pass, stored, base, peer, product>>
    \/ ~holds /\ Refuse(p)

PinHead(p) ==
    /\ On(p, "pin")
    /\ \/ /\ head # 0
          /\ Forward(p)
          /\ base' = [base EXCEPT ![p] = head]
          /\ UNCHANGED <<pass, stored, peer, product>>
       \/ head = 0 /\ Refuse(p)

TakeManifest(p) ==
    /\ On(p, "take")
    /\ Forward(p)
    /\ stored' = [stored EXCEPT ![p] = manifest]
    /\ UNCHANGED <<pass, base, peer, product>>

\* The captured signature signs the captured manifest, which is of a release.
ProveManifest(p) ==
    /\ On(p, "prove")
    /\ Check(p, /\ Authentic(p)
                /\ stored[p][1].profile = "release"
                /\ op[p] = "payload" => product[p] = IdentityOf(stored[p]).release)

\* The annotated tag of the release peels to the pinned HEAD; release-index
\* compares its tree with that of HEAD as it is now.
CheckTag(p) ==
    /\ On(p, "tag") /\ op[p] # "payload"
    /\ Check(p, /\ tags[IdentityOf(stored[p]).release] = base[p]
                /\ op[p] = "index" => commits[head] = commits[base[p]])

\* release-payload checks the tag first, that of the release it is asked for.
AskRelease(p, r) ==
    /\ On(p, "tag") /\ op[p] = "payload"
    /\ \/ /\ tags[r] = base[p]
          /\ Forward(p)
          /\ product' = [product EXCEPT ![p] = r]
          /\ UNCHANGED <<pass, stored, base, peer>>
       \/ tags[r] # base[p] /\ Refuse(p)

\* Fault for mutation runs: the new index starts a history of its own.
EntriesAlone(previous, entry) == <<entry>>

\* The history, with the entry of the candidate if it is a new one.
EntriesAfter(previous, entry) ==
    IF entry \in RI!EntriesOf(previous) THEN previous.releases ELSE Append(previous.releases, entry)

\* An entry of the same sequence has to be this one; a new one advances the
\* sequence and has a name of its own.
Advances(previous, entry) ==
    \/ entry \in RI!EntriesOf(previous)
    \/ /\ entry.manifestSequence > RI!Newest(previous).manifestSequence
       /\ \A e \in RI!EntriesOf(previous) : e.release # entry.release

\* What the candidate makes of the checkpoint and the previous index, which
\* have to be one; --genesis makes the first index of all.
Genesis(entry, g) == IndexOf(1, g, <<entry>>)
Successor(previous, entry, g) ==
    IndexOf(previous.indexSequence + 1, g, EntriesAfter(previous, entry))

Derived(p, over, fresh, holds) ==
    \/ /\ holds /\ RI!ParseIndex(fresh, Now)
       /\ Forward(p)
       /\ product' = [product EXCEPT ![p] = [index |-> fresh, over |-> over]]
       /\ UNCHANGED <<pass, stored, base, peer>>
    \/ ~(holds /\ RI!ParseIndex(fresh, Now)) /\ Refuse(p)

DeriveIndex(p, g) ==
    /\ On(p, "derive")
    /\ LET entry == EntryOf(base[p], stored[p]) IN
       \/ Derived(p, None, Genesis(entry, g), entry.manifestSequence = 1)
       \/ /\ checkpoint # None
          /\ Derived(p, checkpoint, Successor(checkpoint, entry, g),
                     /\ checkpoint.indexSequence < MaxSequence
                     /\ Advances(checkpoint, entry)
                     /\ g > checkpoint.generatedAt)

\* git ls-tree HEAD: the commit the files are compared with.
ListTree(p) ==
    /\ On(p, "list")
    /\ Forward(p)
    /\ peer' = [peer EXCEPT ![p] = head]
    /\ Rewind(p)
    /\ UNCHANGED <<stored, base, product>>

\* Every file is read once and compared with its record and with the commit;
\* then the manifest and the signature are read again.
SameAsSigned(p, i) ==
    LET commit == commits[peer[p]] IN
    CASE i \in DOMAIN FileOrder ->
           {tree[FileOrder[i]], commit.files[FileOrder[i]]} = {Records(stored[p])[i]}
      [] i = Len(FileOrder) + 1 -> manifest = stored[p] /\ commit.manifest = stored[p]
      [] OTHER -> signature = stored[p] /\ commit.signature = stored[p]

Onward(p) ==
    /\ at' = [at EXCEPT ![p] = @ + 1]
    /\ UNCHANGED <<files, pc, op, stored, first, held, git, outputs, history, line, base, peer>>

CompareFile(p) ==
    /\ On(p, "compare")
    /\ \/ ~SameAsSigned(p, at[p]) /\ Refuse(p)
       \/ /\ SameAsSigned(p, at[p]) /\ at[p] < Len(FileOrder) + 2
          /\ Onward(p) /\ UNCHANGED <<seen, product>>
       \/ /\ SameAsSigned(p, at[p]) /\ at[p] = Len(FileOrder) + 2
          /\ Forward(p) /\ Rewind(p) /\ UNCHANGED <<stored, base, peer, product>>

\* release-archive reads the files a second time to pack them.
PackFile(p) ==
    /\ On(p, "pack") /\ at[p] \in DOMAIN FileOrder
    /\ Onward(p)
    /\ seen' = [seen EXCEPT ![p][at[p]] = tree[FileOrder[at[p]]]]
    /\ UNCHANGED product

Packed(p) ==
    /\ On(p, "pack") /\ at[p] > Len(FileOrder)
    /\ Forward(p) /\ Rewind(p)
    /\ product' = [product EXCEPT ![p] =
           [files |-> [i \in DOMAIN FileOrder |-> seen[p][i]], manifest |-> stored[p]]]
    /\ UNCHANGED <<stored, base, peer>>

\* Fault for mutation runs: the commit of the newest entry is not compared.
NewestHasManifest(i, entry) ==
    i # None /\ RI!Newest(i.index).content.manifest = entry.content.manifest

NewestIs(i, entry) == i # None /\ RI!Newest(i.index) = entry

\* release-payload: the newest entry of the index is this candidate.
GatherIndex(p) ==
    /\ On(p, "gather")
    /\ \/ /\ NewestIs(index, EntryOf(base[p], stored[p]))
          /\ Forward(p)
          /\ product' = [product EXCEPT ![p] = index.index]
          /\ UNCHANGED <<pass, stored, base, peer>>
       \/ ~NewestIs(index, EntryOf(base[p], stored[p])) /\ Refuse(p)

\* What validate_release_archive accepts for a manifest and a commit.
ValidArchive(a, m, c) ==
    /\ a # None
    /\ a.files = Records(m) /\ a.manifest = m
    /\ Ordered(commits[c].files) = a.files
    /\ commits[c].manifest = m /\ commits[c].signature = m

SealArchive(p) ==
    /\ On(p, "seal") /\ op[p] = "archive"
    /\ Check(p, ValidArchive(product[p], stored[p], base[p]))

SealPayload(p) ==
    /\ On(p, "seal") /\ op[p] = "payload"
    /\ \/ /\ ValidArchive(archive, stored[p], base[p])
          /\ Forward(p)
          /\ product' = [product EXCEPT ![p] = [commit |-> base[p], manifest |-> stored[p],
                                                index |-> @, archive |-> archive]]
          /\ UNCHANGED <<pass, stored, base, peer>>
       \/ ~ValidArchive(archive, stored[p], base[p]) /\ Refuse(p)

\* Fault for mutation runs: HEAD is not looked at again.
HeadTrusted(p) == On(p, "recheck") /\ Check(p, TRUE)

RecheckHead(p) == On(p, "recheck") /\ Check(p, head = base[p])

Present(o) == (CASE o = "index" -> index [] o = "archive" -> archive [] OTHER -> statement) # None

WriteOutput(p) ==
    /\ index' = IF op[p] = "index" THEN product[p] ELSE index
    /\ archive' = IF op[p] = "archive" THEN product[p] ELSE archive
    /\ statement' = IF op[p] = "payload" THEN product[p] ELSE statement
    /\ doubted' = IF op[p] = "index" /\ p \in returned
                  THEN doubted \cup {[commit |-> base[p], manifest |-> stored[p]]}
                  ELSE doubted
    /\ UNCHANGED checkpoint

\* Fault for mutation runs: a command goes on after it has met an output.
PutOrGoOn(p) ==
    /\ On(p, "put")
    /\ \/ ~Present(op[p]) /\ WriteOutput(p) /\ Drop(p)
       \/ Present(op[p]) /\ Forward(p) /\ UNCHANGED <<pass, stored, base, peer, product>>

\* An output is created exclusively; one that exists is never overwritten.
PutOutput(p) ==
    /\ On(p, "put")
    /\ IF Present(op[p]) THEN UNCHANGED <<outputs, doubted>> ELSE WriteOutput(p)
    /\ Drop(p)

Quit(p) == pc[p] # "idle" /\ Refuse(p)

Build(p) ==
    \/ PinHead(p) \/ TakeManifest(p) \/ ProveManifest(p) \/ CheckTag(p)
    \/ \E r \in Releases : AskRelease(p, r)
    \/ \E g \in Times : DeriveIndex(p, g)
    \/ ListTree(p) \/ CompareFile(p) \/ PackFile(p) \/ Packed(p)
    \/ GatherIndex(p) \/ SealArchive(p) \/ SealPayload(p) \/ RecheckHead(p) \/ PutOutput(p)

\* The commands of Integrity read and write nothing of Git.
PNext ==
    \/ \E p \in Tool :
          \/ \E o \in {"manifest", "sign", "verify"} :
                NarrowTools /\ Start(p, o) /\ UNCHANGED publishing
          \/ Step(p) /\ UNCHANGED publishing
          \/ \E o \in DOMAIN Script : Begin(p, o)
          \/ Build(p)
          \/ Quit(p)
    \/ Around /\ UNCHANGED publishing
    \/ Commit
    \/ \E c \in DOMAIN commits : MoveHead(c)
    \/ Resign
    \/ \E r \in Releases : Tag(r)
    \/ AcceptIndex

PSpec == PInit /\ [][PNext]_pvars

-----------------------------------------------------------------------------
(* Properties *)

\* The tools, the builders and what they wrote keep their types.
PTypeOK ==
    /\ TypeOK
    /\ head \in 0 .. Len(commits)
    /\ tags \in [Releases -> 0 .. Len(commits)]
    /\ base \in [Tool -> 0 .. Len(commits)]
    /\ returned \subseteq {p \in Tool : pc[p] = "publish" /\ op[p] = "index"}
    /\ \A p \in Tool : pc[p] = "publish" => line[p] \in DOMAIN Script[op[p]]

\* Commit c holds manifest m, its signature and the files m records.
Holds(c, m) ==
    /\ c \in DOMAIN commits
    /\ commits[c].manifest = m /\ commits[c].signature = m
    /\ Ordered(commits[c].files) = Records(m)

\* Every manifest an index names is that of one whole commit, which holds its
\* signature and the files it records, although HEAD was read first, the
\* manifest next and the files one by one while all of them moved
\* (cmd_release_index).  It is the commit of the entry, unless HEAD left the
\* pinned commit and was moved back to it before the builder's second look.
IndexNamesItsTree ==
    index # None =>
        \A e \in RI!EntriesOf(index.index) :
            /\ \E c \in DOMAIN commits : Holds(c, e.content.manifest)
            /\ e.content \in doubted \/ Holds(e.content.commit, e.content.manifest)

\* An index the builder writes is one every launcher accepts over the
\* checkpoint it was built from: nothing rolled back, rewritten or left out.
IndexExtendsCheckpoint ==
    index # None =>
        /\ RI!WellOrdered(index.index.releases)
        /\ RI!ValidateCheckpoint(index.over, index.index, index.index)

\* The payload binds one candidate: its commit, the manifest and the files in
\* the archive are the same tree, and its index names that commit as newest.
StatementIsCoherent ==
    statement # None =>
        /\ Holds(statement.commit, statement.manifest)
        /\ statement.archive.files = Ordered(commits[statement.commit].files)
        /\ RI!Newest(statement.index).content =
               [commit |-> statement.commit, manifest |-> statement.manifest]
=============================================================================
