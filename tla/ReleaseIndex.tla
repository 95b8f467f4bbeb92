---------------------------- MODULE ReleaseIndex ----------------------------
(***************************************************************************)
(* The signed release index and the freshness checkpoint as data           *)
(* (bootstrap/idc_verify_fresh.py, and its twin in scripts/trust_root.py). *)
(*                                                                         *)
(* An index is a record of its sequence number, its validity window and    *)
(* the ordered tuple of release entries.  An entry stands for the whole    *)
(* signed release tuple: `content` abstracts the manifest, verifier and    *)
(* launcher digests and the Git commit, which the code only ever compares  *)
(* for equality.  SHA-256 is taken to be injective, so the digest of an    *)
(* index is the index itself, and a checkpoint, which stores the sequence, *)
(* the digest and the entries of one index, is that index.                 *)
(***************************************************************************)
EXTENDS Integers, Sequences

CONSTANTS
    ClockSkew,      \* MAX_CLOCK_SKEW_SECONDS, in model time units
    MaxLifetime,    \* MAX_INDEX_LIFETIME_SECONDS, in model time units
    ReleaseName,    \* release names
    Content,        \* manifest/verifier/launcher digests and commit of a release
    None            \* no file, no holder

ASSUME TimeAssumption == ClockSkew \in Nat /\ MaxLifetime \in Nat

Entries ==
    [release : ReleaseName, manifestSequence : Nat \ {0}, content : Content]

Indexes ==
    [indexSequence : Nat \ {0}, generatedAt : Nat, validUntil : Nat,
     releases : Seq(Entries)]

ASSUME NoneAssumption == None \notin Indexes

EntriesOf(index) == {index.releases[i] : i \in DOMAIN index.releases}

Newest(index) == index.releases[Len(index.releases)]

\* Strictly increasing manifest sequences and unique release names.
WellOrdered(releases) ==
    /\ releases # <<>>
    /\ \A i, j \in DOMAIN releases :
          i < j => /\ releases[i].manifestSequence < releases[j].manifestSequence
                   /\ releases[i].release # releases[j].release

\* What parse_index accepts at time now.
ParseIndex(index, now) ==
    /\ index.generatedAt <= now + ClockSkew
    /\ now < index.validUntil
    /\ index.generatedAt < index.validUntil
    /\ index.validUntil - index.generatedAt <= MaxLifetime
    /\ WellOrdered(index.releases)

\* Fault for mutation runs: an index may leave old entries out.
ForgetHistory(previous, index) == Newest(index).manifestSequence > 0

\* Fault for mutation runs: only the newest accepted entry is looked up.
RetainsNewest(previous, index) == Newest(previous) \in EntriesOf(index)

\* No accepted entry may be rewritten or dropped by a later index.  Manifest
\* sequences are unique in both, so the lookup by sequence is set inclusion.
RetainsHistory(previous, index) == EntriesOf(previous) \subseteq EntriesOf(index)

\* The rollback, equivocation and history checks against the checkpoint file.
ValidateCheckpoint(checkpoint, index, bootstrap) ==
    \/ checkpoint = None /\ index = bootstrap
    \/ /\ checkpoint # None
       /\ checkpoint.indexSequence <= index.indexSequence
       /\ checkpoint.indexSequence = index.indexSequence => index = checkpoint
       /\ RetainsHistory(checkpoint, index)
=============================================================================
