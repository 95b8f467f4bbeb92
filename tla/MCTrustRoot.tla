---------------------------- MODULE MCTrustRoot -----------------------------
(***************************************************************************)
(* Four keys and two rotations from a first root of a, b and c.  Two       *)
(* different second roots are properly signed, each with a third root that *)
(* only it can lead to; one more second root is signed only by its own     *)
(* role.                                                                   *)
(***************************************************************************)
EXTENDS TrustRoot, TLC

SignedBy(keys) == [i \in DOMAIN keys |-> [keyid |-> keys[i], valid |-> TRUE]]

Two(keys) == [keyids |-> keys, threshold |-> 2]

Root(version, expires, holders, signers) ==
    [version |-> version, expires |-> expires, root |-> Two(holders),
     release |-> Two(holders), signatures |-> SignedBy(signers)]

R1  == Root(1, 2, {"a", "b", "c"}, <<"a", "b">>)
R2  == Root(2, 1, {"b", "c", "d"}, <<"b", "c">>)
R2y == Root(2, 2, {"a", "b"}, <<"a", "b">>)
R2x == Root(2, 2, {"c", "d"}, <<"c", "d">>)
R3  == Root(3, 2, {"c", "d"}, <<"c", "d">>)
R3y == Root(3, 2, {"a", "b"}, <<"a", "b">>)

Statement(rootVersion, sequence, expires, signatures) ==
    [rootVersion |-> rootVersion, releaseSequence |-> sequence, expires |-> expires,
     content |-> "s", signatures |-> signatures]

S1   == Statement(1, 1, 2, SignedBy(<<"a", "b">>))
S2   == Statement(2, 2, 1, SignedBy(<<"b", "d">>))
S3   == Statement(3, 3, 2, SignedBy(<<"c", "d">>))
S3y  == Statement(3, 3, 2, SignedBy(<<"a", "b">>))
\* One signature of a stranger, one that does not verify.
S3w  == Statement(3, 4, 2, <<[keyid |-> "c", valid |-> TRUE], [keyid |-> "a", valid |-> TRUE],
                             [keyid |-> "d", valid |-> FALSE]>>)
\* One holder signs twice.
STwice == Statement(1, 2, 2, SignedBy(<<"a", "a">>))

Rotations ==
    {[pin |-> R1, chain |-> <<R1>>, statement |-> S1],
     [pin |-> R1, chain |-> <<R1>>, statement |-> STwice],
     [pin |-> R1, chain |-> <<R1, R2>>, statement |-> S2],
     [pin |-> R2, chain |-> <<R2>>, statement |-> S2],
     [pin |-> R1, chain |-> <<R1, R2x>>, statement |-> S2],
     [pin |-> R1, chain |-> <<R1, R2, R3>>, statement |-> S3],
     [pin |-> R1, chain |-> <<R1, R2y, R3y>>, statement |-> S3y],
     [pin |-> R1, chain |-> <<R1, R2, R3>>, statement |-> S3w]}
=============================================================================
