---------------------------- MODULE MCFreshness -----------------------------
(***************************************************************************)
(* A small deployment: release v1, its successor v2, a forged sibling of   *)
(* v2 at the same sequence, a re-signed index of v1, an index that drops   *)
(* v1, one with a repeated release, and a configuration whose receipt is   *)
(* not the one its statement reproduces.                                   *)
(***************************************************************************)
EXTENDS Freshness, TLC

Entry(name, seq, content) ==
    [release |-> name, manifestSequence |-> seq, content |-> content]

E1  == Entry("v1", 1, "a")
E2  == Entry("v2", 2, "b")
E2x == Entry("v2", 2, "x")

Idx(seq, from, until, releases) ==
    [indexSequence |-> seq, generatedAt |-> from, validUntil |-> until,
     releases |-> releases]

I1  == Idx(1, 0, 2, <<E1>>)
I1r == Idx(2, 0, 3, <<E1>>)
I2  == Idx(3, 0, 3, <<E1, E2>>)
I2x == Idx(3, 0, 3, <<E1, E2x>>)
I3x == Idx(4, 0, 3, <<E2>>)
IDup == Idx(4, 0, 3, <<E2, E2>>)

Stm(seq, index, manifest) ==
    [releaseSequence |-> seq, expires |-> 3, freshnessIndex |-> index,
     manifest |-> manifest]

S1  == Stm(1, I1, E1)
S1r == Stm(2, I1r, E1)
S2  == Stm(3, I2, E2)
S2x == Stm(4, I2x, E2x)
S3x == Stm(4, I3x, E2)
SDup == Stm(5, IDup, E2)

Cfg(statement, receipt, floor) ==
    [statement |-> statement, receipt |-> receipt, bootstrapIndex |-> I1,
     minimumIndexSequence |-> 1, minimumManifestSequence |-> floor]

\* An ordinary upgrade, which raises the manifest floor with the release.
UpgradeConfigs == {Cfg(S1, S1, 1), Cfg(S2, S2, 2)}

\* A configuration for hosts whose first index is this one.
FirstAt(statement) ==
    [Cfg(statement, statement, 1) EXCEPT !.bootstrapIndex = statement.freshnessIndex]

\* Every way an index or a receipt can be wrong, with what it is wrong against.
ForkConfigs ==
    {Cfg(S1, S1, 1), Cfg(S1r, S1r, 1), FirstAt(S2), Cfg(S2, S1, 1),
     FirstAt(S2x), Cfg(S3x, S3x, 1), Cfg(SDup, SDup, 1), Cfg(S1, S1, 2)}

Releases == {E1, E2}
AllReleases == {E1, E2, E2x}

Runs == Permutations(Run)
=============================================================================
