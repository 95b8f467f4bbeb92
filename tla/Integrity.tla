----------------------------- MODULE Integrity -----------------------------
(***************************************************************************)
(* skill_integrity.py and the PreToolUse hook: the commands manifest, sign *)
(* and verify, and the hook that verifies the repository and then the      *)
(* installed skill.  They are processes over one working tree with no lock *)
(* between them, while the tree and the installed skill change under them.   *)
(*                                                                         *)
(* build_manifest reads the tree one file at a time, and some files more   *)
(* than once: a skill file is read to be scanned and read again to be      *)
(* hashed, as part of its skill and as part of the repository.  Plan lists *)
(* those reads in order; a manifest is what each of them contributed.  The *)
(* content of a file is a number, an edit gives it a larger one, and a     *)
(* digest is the content.  The set of tracked files is fixed; a file that  *)
(* is missing, a symbolic link or opaque has a content in Refused.         *)
(***************************************************************************)
EXTENDS Integers, Sequences, FiniteSets

CONSTANTS
    Tool,           \* processes that run these commands
    SkillFiles,     \* the files of the registered skill, in order
    OtherFiles,     \* the other tracked files, all of them control files
    MaxContent,     \* bound on the content of a file
    Editable,       \* the files the model edits
    Refused,        \* contents the readers refuse
    Profile,        \* policy content -> "release" or "fixture"
    Permits,        \* policy content -> the patterns it permits, exactly
    Identity,       \* registry content -> release name and manifestSequence
    Shows,          \* skill file -> content -> the patterns it shows
    None,           \* no file, nothing captured
    Torn            \* a manifest truncated by a writer that has not written

Skill == {SkillFiles[i] : i \in DOMAIN SkillFiles}
File == {"policy", "registry"} \cup Skill \cup {OtherFiles[i] : i \in DOMAIN OtherFiles}
Content == 1..MaxContent

ASSUME IntegrityAssumption ==
    /\ MaxContent \in Nat \ {0}
    /\ SkillFiles \in Seq(Skill)
    /\ OtherFiles \in Seq(File)
    /\ Editable \subseteq File
    /\ Refused \subseteq Content
    /\ Profile \in [Content -> {"release", "fixture"}]
    /\ Identity \in [Content -> [release : STRING, manifestSequence : Nat \ {0}]]
    /\ Shows \in [Skill -> [Content -> SUBSET UNION {Permits[c] : c \in Content}]]

-----------------------------------------------------------------------------
(* One pass of build_manifest *)

ReadsOf(what, files) == [i \in DOMAIN files |-> [what |-> what, file |-> files[i]]]

\* Every skill file is scanned, and at once read again to be hashed.
SkillReads ==
    [i \in 1 .. 2 * Len(SkillFiles) |->
        [what |-> IF i % 2 = 1 THEN "scan" ELSE "hash", file |-> SkillFiles[(i + 1) \div 2]]]

\* The tracked files, in the order of repositoryFiles.
FileOrder == OtherFiles \o <<"policy", "registry">> \o SkillFiles

Plan ==
    ReadsOf("parse", <<"policy", "registry">>)
    \o SkillReads
    \o ReadsOf("hash", OtherFiles)
    \o ReadsOf("hash", FileOrder)
    \o ReadsOf("hash", <<"policy">>)

Position == DOMAIN Plan
Hashes == {k \in Position : Plan[k].what = "hash"}
Scans == {k \in Position : Plan[k].what = "scan"}

\* A symbolic link, a file that is no regular one, or one that is gone.
Unsafe(c) == c \in Refused

Digest(c) == c
Findings(f, c) == Shows[f][c]
PolicyOf(c) == [profile |-> Profile[c], approved |-> Permits[c]]
RegistryOf(c) == Identity[c]

\* What a read of content c contributes to the manifest.
Contribution(r, c) ==
    CASE r.what = "hash" -> Digest(c)
      [] r.what = "scan" -> Findings(r.file, c)
      [] r.what = "parse" /\ r.file = "policy" -> PolicyOf(c)
      [] r.what = "parse" /\ r.file = "registry" -> RegistryOf(c)

ManifestOf(contents) == [k \in Position |-> Contribution(Plan[k], contents[k])]

\* Fault for mutation runs: an unreviewed pattern is refused, a stale
\* permission is not.
JudgedUnclassifiedOnly(m) == UNION {m[k] : k \in Scans} \subseteq m[1].approved

\* The patterns the skills show are exactly those the policy permits: an
\* unreviewed one is refused, and so is a permission nothing uses.
Judged(m) == UNION {m[k] : k \in Scans} = m[1].approved

\* Neither what stands for no manifest nor a truncated one is a manifest.
ASSUME NoManifestAssumption ==
    \A c \in [Position -> Content] : ManifestOf(c) \notin {None, Torn}

ManifestAt(t) == ManifestOf([k \in Position |-> t[Plan[k].file]])

\* The sections verify_repository compares; profile is not one of them.
Agrees(stored, current) ==
    /\ \A k \in Position \ {1} : stored[k] = current[k]
    /\ stored[1].approved = current[1].approved

-----------------------------------------------------------------------------
VARIABLES
    tree,       \* the content of each tracked file
    manifest,   \* integrity/manifest.json
    signature,  \* the manifest its detached signature signs
    installed,  \* the content of each file of the installed skill
    pc,         \* the step of each tool
    op,         \* its command
    at,         \* the position of its next read
    seen,       \* the contents its pass has read so far
    stored,     \* the manifest it has captured, or is about to write
    first,      \* the manifest of its first pass
    heldTree,   \* auxiliary: the tree when it checked the remote pins
    heldSkills  \* auxiliary: the installed files between its two captures

files == <<tree, manifest, signature, installed>>
pass == <<at, seen>>
held == <<heldTree, heldSkills>>
memory == <<op, pass, stored, first, held>>
vars == <<files, pc, memory>>

Blank == [k \in Position |-> 0]
Unread == [f \in File |-> 0]

Init ==
    /\ tree = [f \in File |-> 1]
    /\ manifest \in {None, ManifestAt(tree)}
    /\ signature \in {None, manifest}
    /\ installed = [f \in Skill |-> 1]
    /\ pc = [p \in Tool |-> "idle"]
    /\ op = [p \in Tool |-> None]
    /\ at = [p \in Tool |-> 1]
    /\ seen = [p \in Tool |-> Blank]
    /\ stored = [p \in Tool |-> None]
    /\ first = [p \in Tool |-> None]
    /\ heldTree = [p \in Tool |-> Unread]
    /\ heldSkills = [p \in Tool |-> Unread]

\* What parses as a canonical manifest.
Readable(m) == m \notin {None, Torn}

\* The detached signature verifies under the pinned anchor.
Verifies(sig, m) == sig = m

Goto(p, from, to) == pc[p] = from /\ pc' = [pc EXCEPT ![p] = to]
Rewind(p) == at' = [at EXCEPT ![p] = 1] /\ seen' = [seen EXCEPT ![p] = Blank]

\* Bound: each command runs beside the others, and at most once at a time;
\* verify and the hook write nothing, so a second one would add nothing.
Start(p, o) ==
    /\ \A q \in Tool : op[q] # o
    /\ Goto(p, "idle", CASE o = "manifest" -> "build"
                         [] o = "sign" -> "load"
                         [] o = "verify" -> "capture")
    /\ op' = [op EXCEPT ![p] = o]
    /\ UNCHANGED <<files, pass, stored, first, held>>

\* A process that ends takes its memory with it.
Exit(p) ==
    /\ pc' = [pc EXCEPT ![p] = "idle"]
    /\ op' = [op EXCEPT ![p] = None]
    /\ stored' = [stored EXCEPT ![p] = None]
    /\ first' = [first EXCEPT ![p] = None]
    /\ heldTree' = [heldTree EXCEPT ![p] = Unread]
    /\ heldSkills' = [heldSkills EXCEPT ![p] = Unread]
    /\ Rewind(p)

\* It is killed, or it has reported that it is ready or allows.
Leave(p) == pc[p] # "idle" /\ Exit(p) /\ UNCHANGED files

-----------------------------------------------------------------------------
(* The passes over the tree, shared by manifest, verify and the hook *)

Keep(p, c) ==
    /\ seen' = [seen EXCEPT ![p][at[p]] = c]
    /\ at' = [at EXCEPT ![p] = @ + 1]
    /\ UNCHANGED <<pc, op, stored, first, held>>

Read(p) ==
    /\ pc[p] \in {"build", "final"}
    /\ at[p] \in Position
    /\ LET c == tree[Plan[at[p]].file] IN IF Unsafe(c) THEN Exit(p) ELSE Keep(p, c)
    /\ UNCHANGED files

PassDone(p, step) == pc[p] = step /\ at[p] > Len(Plan)

\* manifest: judge the findings, check the remote pins, keep the manifest.
\* A pinned page may answer with other content at any time.
Built(p) ==
    /\ PassDone(p, "build") /\ op[p] = "manifest"
    /\ LET m == ManifestOf(seen[p]) IN
       \/ /\ Judged(m)
          /\ pc' = [pc EXCEPT ![p] = "write"]
          /\ stored' = [stored EXCEPT ![p] = m]
          /\ Rewind(p)
          /\ UNCHANGED <<op, first, held>>
       \/ Exit(p)
    /\ UNCHANGED files

\* write_bytes truncates the file before it writes.
Truncate(p) ==
    /\ Goto(p, "write", "flush")
    /\ manifest' = Torn
    /\ UNCHANGED <<tree, signature, installed, memory>>

Flush(p) ==
    /\ pc[p] = "flush"
    /\ manifest' = stored[p]
    /\ Exit(p)
    /\ UNCHANGED <<tree, signature, installed>>

-----------------------------------------------------------------------------
(* sign *)

\* The manifest is loaded to be checked; ssh-keygen opens it again.
Load(p) ==
    /\ pc[p] = "load"
    /\ IF Readable(manifest) /\ manifest[1].profile = "release"
       THEN pc' = [pc EXCEPT ![p] = "unlink"] /\ UNCHANGED memory
       ELSE Exit(p)
    /\ UNCHANGED files

Unlink(p) ==
    /\ Goto(p, "unlink", "sign")
    /\ signature' = None
    /\ UNCHANGED <<tree, manifest, installed, memory>>

\* ssh-keygen reads the bytes and waits for the agent to sign them.
ReadToSign(p) ==
    /\ Goto(p, "sign", "emit")
    /\ stored' = [stored EXCEPT ![p] = manifest]
    /\ UNCHANGED <<files, op, pass, first, held>>

Emit(p) ==
    /\ Goto(p, "emit", "capture")
    /\ signature' = stored[p]
    /\ UNCHANGED <<tree, manifest, installed, memory>>

-----------------------------------------------------------------------------
(* verify, and the hook up to the installed skill; sign ends the same way *)

\* Every signed input is captured once: first the manifest, then its
\* signature, and the captured bytes are what is authenticated and parsed.
Capture(p) ==
    /\ Goto(p, "capture", "authenticate")
    /\ stored' = [stored EXCEPT ![p] = manifest]
    /\ UNCHANGED <<files, op, pass, first, held>>

Authentic(p) == Readable(stored[p]) /\ Verifies(signature, stored[p])

Authenticate(p) ==
    /\ pc[p] = "authenticate"
    /\ IF /\ op[p] # "sign"
          /\ Authentic(p)
          /\ stored[p][1].profile = "release"
       THEN pc' = [pc EXCEPT ![p] = "build"] /\ UNCHANGED memory
       ELSE Exit(p)
    /\ UNCHANGED files

\* A verification that has failed one check goes on to report the others;
\* here it ends, since it can no longer be ready.
Compare(p) ==
    /\ PassDone(p, "build") /\ op[p] = "verify"
    /\ LET m == ManifestOf(seen[p]) IN
       IF Judged(m) /\ Agrees(stored[p], m)
       THEN /\ pc' = [pc EXCEPT ![p] = "fetch"]
            /\ first' = [first EXCEPT ![p] = m]
            /\ Rewind(p)
            /\ UNCHANGED <<op, stored, held>>
       ELSE Exit(p)
    /\ UNCHANGED files

\* The pinned pages are fetched, or one of them has drifted.
Fetch(p) ==
    /\ pc[p] = "fetch"
    /\ \/ /\ pc' = [pc EXCEPT ![p] = "final"]
          /\ heldTree' = [heldTree EXCEPT ![p] = tree]
          /\ UNCHANGED <<op, pass, stored, first, heldSkills>>
       \/ Exit(p)
    /\ UNCHANGED files

Ready(p) ==
    /\ pc' = [pc EXCEPT ![p] = "ready"]
    /\ Rewind(p)
    /\ UNCHANGED <<op, stored, first, held>>

\* Fault for mutation runs: the final snapshot is built and not compared.
ConfirmBuilt(p) ==
    /\ PassDone(p, "final")
    /\ IF Judged(ManifestOf(seen[p])) THEN Ready(p) ELSE Exit(p)
    /\ UNCHANGED files

\* The final snapshot has to equal the first one.
Confirm(p) ==
    /\ PassDone(p, "final")
    /\ LET m == ManifestOf(seen[p]) IN IF Judged(m) /\ m = first[p] THEN Ready(p) ELSE Exit(p)
    /\ UNCHANGED files

-----------------------------------------------------------------------------
(* The hook: verify_skill_directory captures the installed skill twice *)

\* The digest of skill file f in the signed map of its skill.
SignedHash(m, i) == m[2 + 2 * i]

\* The hook that asked for the verification goes on to the installed skill,
\* with the manifest verify_repository has authenticated for it.
Authorize(p) ==
    /\ Goto(p, "ready", "look")
    /\ UNCHANGED <<files, memory>>

Look(p) ==
    /\ pc[p] \in {"look", "again"}
    /\ at[p] \in DOMAIN SkillFiles
    /\ LET c == installed[SkillFiles[at[p]]] IN IF Unsafe(c) THEN Exit(p) ELSE Keep(p, c)
    /\ UNCHANGED files

Looked(p, step) == pc[p] = step /\ at[p] > Len(SkillFiles)

LookAgain(p) ==
    /\ Looked(p, "look")
    /\ pc' = [pc EXCEPT ![p] = "again"]
    /\ first' = [first EXCEPT ![p] = seen[p]]
    /\ heldSkills' = [heldSkills EXCEPT ![p] = [f \in File |-> IF f \in Skill THEN installed[f] ELSE 0]]
    /\ Rewind(p)
    /\ UNCHANGED <<files, op, stored, heldTree>>

Matches(capture, m) ==
    \A i \in DOMAIN SkillFiles : capture[i] = SignedHash(m, i)

\* Fault for mutation runs: the second capture is made and not compared.
DecideOnFirst(p) ==
    /\ Looked(p, "again")
    /\ IF Matches(first[p], stored[p])
       THEN pc' = [pc EXCEPT ![p] = "allowed"] /\ UNCHANGED memory
       ELSE Exit(p)
    /\ UNCHANGED files

Decide(p) ==
    /\ Looked(p, "again")
    /\ IF seen[p] = first[p] /\ Matches(first[p], stored[p])
       THEN pc' = [pc EXCEPT ![p] = "allowed"] /\ UNCHANGED memory
       ELSE Exit(p)
    /\ UNCHANGED files

-----------------------------------------------------------------------------
(* What happens around the tools *)

Edit(f) ==
    /\ \E c \in tree[f] + 1 .. MaxContent : tree' = [tree EXCEPT ![f] = c]
    /\ UNCHANGED <<manifest, signature, installed, pc, memory>>

\* An install, an update or a hand changes a file of the installed skill; the
\* model lets it happen while a hook looks, the only time it is read.
EditInstalled(f) ==
    /\ \E p \in Tool : pc[p] \in {"look", "again"}
    /\ \E c \in installed[f] + 1 .. MaxContent : installed' = [installed EXCEPT ![f] = c]
    /\ UNCHANGED <<tree, manifest, signature, pc, memory>>

Step(p) ==
    \/ Read(p) \/ Built(p) \/ Truncate(p) \/ Flush(p)
    \/ Load(p) \/ Unlink(p) \/ ReadToSign(p) \/ Emit(p)
    \/ Capture(p) \/ Authenticate(p) \/ Compare(p) \/ Fetch(p) \/ Confirm(p)
    \/ Authorize(p) \/ Look(p) \/ LookAgain(p) \/ Decide(p)

Around ==
    \/ \E f \in Editable : Edit(f)
    \/ \E f \in Skill \cap Editable : EditInstalled(f)

Next ==
    \/ \E p \in Tool, o \in {"manifest", "sign", "verify"} : Start(p, o)
    \/ \E p \in Tool : Step(p) \/ Leave(p)
    \/ Around

Spec == Init /\ [][Next]_vars

-----------------------------------------------------------------------------
(* Properties *)

\* The variables keep their types and a pass keeps its place in the plan.
TypeOK ==
    /\ tree \in [File -> Content]
    /\ installed \in [Skill -> Content]
    /\ at \in [Tool -> 1 .. Len(Plan) + 1]
    /\ seen \in [Tool -> [Position -> 0 .. MaxContent]]
    /\ \A p \in Tool : pc[p] \in {"final", "ready"} => Readable(stored[p]) /\ first[p] # None

\* READY is about one tree: although the files are read one by one, twice
\* over, while they are edited, every digest of the authenticated manifest
\* is that of the file at one instant of the verification, the moment it
\* went to check the remote pins (verify_repository, the final snapshot).
ReadyIsOneTree ==
    \A p \in Tool : pc[p] \in {"ready", "look", "again", "allowed"} =>
        \A k \in Hashes : stored[p][k] = heldTree[p][Plan[k].file]

\* READY is reviewed: the findings in the signed manifest are those of the
\* signed bytes, and exactly those the signed policy permits, although the
\* builder that wrote the manifest scanned a file in one read and hashed it
\* in another, with edits between (scan_skills, verify_repository).
ReadyIsReviewed ==
    \A p \in Tool : pc[p] \in {"ready", "look", "again", "allowed"} =>
        /\ \A k \in Scans : stored[p][k] = Shows[Plan[k].file][heldTree[p][Plan[k].file]]
        /\ UNION {stored[p][k] : k \in Scans} = Permits[heldTree[p]["policy"]]

\* The hook allows a skill only when all its installed files were, at one
\* instant, the signed ones (verify_skill_directory).
HookAllowsInstalled ==
    \A p \in Tool : pc[p] = "allowed" =>
        \A i \in DOMAIN SkillFiles : heldSkills[p][SkillFiles[i]] = SignedHash(stored[p], i)
=============================================================================
