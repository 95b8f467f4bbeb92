------------------------------ MODULE RootChain ------------------------------
(***************************************************************************)
(* Root metadata, release statements and their signatures as data          *)
(* (scripts/trust_root.py).                                                *)
(*                                                                         *)
(* An envelope carries its signatures as a sequence of key ids, each with  *)
(* whether ssh-keygen verifies it.  `content` stands for everything else   *)
(* that is signed and only compared for equality.  SHA-256 is taken to be  *)
(* injective: the digest of an envelope is the envelope.                   *)
(***************************************************************************)
EXTENDS Naturals, Sequences, FiniteSets

CONSTANTS
    Key,            \* ssh-ed25519 keys, named by their key ids
    Content,        \* signed bytes beyond the fields below
    MaxUpdates      \* MAX_ROOT_UPDATES

ASSUME MaxUpdatesAssumption == MaxUpdates \in Nat

Signatures == Seq([keyid : Key, valid : BOOLEAN])

Roles == [keyids : SUBSET Key, threshold : Nat]

Roots ==
    [version : Nat \ {0}, expires : Nat, root : Roles, release : Roles,
     signatures : Signatures]

Statements ==
    [rootVersion : Nat \ {0}, releaseSequence : Nat \ {0}, expires : Nat,
     content : Content, signatures : Signatures]

\* The signed part of a statement, without the envelope's signatures.
Payload(statement) ==
    [rootVersion |-> statement.rootVersion, releaseSequence |-> statement.releaseSequence,
     expires |-> statement.expires, content |-> statement.content]

Payloads ==
    [rootVersion : Nat \ {0}, releaseSequence : Nat \ {0}, expires : Nat, content : Content]

\* A key id signs an envelope at most once.
ParseEnvelope(envelope) ==
    /\ envelope.signatures # <<>>
    /\ \A i, j \in DOMAIN envelope.signatures :
          envelope.signatures[i].keyid = envelope.signatures[j].keyid => i = j

ParseRoot(root) ==
    /\ ParseEnvelope(root)
    /\ \A role \in {root.root, root.release} : role.threshold \in 1..Cardinality(role.keyids)

Signers(envelope) ==
    {envelope.signatures[i].keyid : i \in {j \in DOMAIN envelope.signatures :
                                             envelope.signatures[j].valid}}

MeetsThreshold(envelope, role) ==
    Cardinality(role.keyids \cap Signers(envelope)) >= role.threshold

\* One rotation: the next version, signed under the old and the new root.
Rotation(old, new) ==
    /\ ParseRoot(new)
    /\ new.version = old.version + 1
    /\ MeetsThreshold(new, old.root)
    /\ MeetsThreshold(new, new.root)

Final(chain) == chain[Len(chain)]

\* The chain from the pinned initial root through the updates to a live one.
VerifyRootChain(pin, chain, now) ==
    /\ Len(chain) \in 1..(MaxUpdates + 1)
    /\ chain[1] = pin
    /\ ParseRoot(chain[1])
    /\ MeetsThreshold(chain[1], chain[1].root)
    /\ \A i \in 1..(Len(chain) - 1) : Rotation(chain[i], chain[i + 1])
    /\ now < Final(chain).expires

\* Fault for mutation runs: the checkpoint keeps the envelope, not the payload.
RootCheckpointSigned(chain, statement) ==
    [root |-> Final(chain), release |-> statement]

RootCheckpoint(chain, statement) ==
    [root |-> Final(chain), release |-> Payload(statement)]

\* Fault for mutation runs: only the last root is compared with the checkpoint.
ValidateFinalRoot(checkpoint, chain, statement) ==
    /\ checkpoint.root.version <= Final(chain).version
    /\ checkpoint.root.version = Final(chain).version => checkpoint.root = Final(chain)
    /\ checkpoint.release.releaseSequence <= statement.releaseSequence
    /\ checkpoint.release.releaseSequence = statement.releaseSequence =>
          Payload(statement) = checkpoint.release

\* The checkpoint's root is the last of the chain or the one the chain has at
\* its version; its release is an earlier one or this one.
ValidateRootCheckpoint(checkpoint, chain, statement) ==
    /\ checkpoint.root.version <= Final(chain).version
    /\ checkpoint.root.version = Final(chain).version => checkpoint.root = Final(chain)
    /\ \E i \in DOMAIN chain : checkpoint.root = chain[i]
    /\ checkpoint.release.releaseSequence <= statement.releaseSequence
    /\ checkpoint.release.releaseSequence = statement.releaseSequence =>
          Payload(statement) = checkpoint.release

\* The statement under the final root; its artifacts are the caller's matter.
VerifyStatement(statement, root, now) ==
    /\ statement.rootVersion = root.version
    /\ now < statement.expires
    /\ MeetsThreshold(statement, root.release)
=============================================================================
