------------------------------ MODULE ProofBundle ------------------------------
(***************************************************************************)
(* Public proof bundles: createPublicProofBundle, verifyPublicProofBundle  *)
(* and the route that serves a stored bundle, as pure functions.           *)
(*                                                                         *)
(* A JSON payload is a function from paths (sequences of keys) to leaves,  *)
(* keys without the case of their letters.  A digest is collision-free,    *)
(* but the text it is of depends on the collation of the process that      *)
(* computes it: canonicalJson sorts keys with localeCompare, whose default *)
(* is the locale of the server or of the browser of whoever verifies.  A   *)
(* collation is a function from sets of paths to the order they come in.   *)
(***************************************************************************)
EXTENDS Integers, Sequences

ForbiddenKeys ==
    {"apikey", "authorization", "cookie", "email", "encryptedsecretref", "organizationid",
     "privatekey", "secret", "token"}

(* What is left of a payload when forbidden keys go with all that is below them. *)
Redact(payload) ==
    [path \in {p \in DOMAIN payload : \A i \in DOMAIN p : p[i] \notin ForbiddenKeys} |->
        payload[path]]

Digest(collation, payload) == <<"sha256", collation[DOMAIN payload], payload>>

(* The keys of what the root is of (contentHash, kind, position) come in   *)
(* the same order in every collation.                                      *)
RootDigest(entries, hashes) ==
    <<"sha256", [i \in DOMAIN entries |->
        [position |-> entries[i].position, kind |-> entries[i].kind, contentHash |-> hashes[i]]]>>

(* createPublicProofBundle: positions count from 0. *)
Entry(collation, artifact, position) ==
    [position |-> position, kind |-> artifact.kind, label |-> artifact.label,
     payload |-> Redact(artifact.payload),
     contentHash |-> Digest(collation, Redact(artifact.payload)),
     publicReference |-> artifact.publicReference, recordedAt |-> artifact.recordedAt]

Create(collation, input) ==
    LET entries == [i \in DOMAIN input.artifacts |-> Entry(collation, input.artifacts[i], i - 1)]
    IN  [id |-> input.id, publicId |-> input.publicId, intentId |-> input.intentId,
         traceId |-> input.traceId, createdAt |-> input.createdAt, entries |-> entries,
         rootHash |-> RootDigest(entries, [i \in DOMAIN entries |-> entries[i].contentHash])]

(* What publicProofBundleSchema asks of the entries beyond their shape. *)
WellFormed(bundle) ==
    /\ Len(bundle.entries) >= 1
    /\ \A i \in DOMAIN bundle.entries : bundle.entries[i].position = i - 1

-----------------------------------------------------------------------------
(* verifyPublicProofBundle *)
Hashes(collation, bundle) ==
    [i \in DOMAIN bundle.entries |-> Digest(collation, bundle.entries[i].payload)]

InvalidPositions(collation, bundle) ==
    {bundle.entries[i].position : i \in
        {j \in DOMAIN bundle.entries :
            Hashes(collation, bundle)[j] # bundle.entries[j].contentHash}}

Valid(collation, bundle) ==
    /\ InvalidPositions(collation, bundle) = {}
    /\ RootDigest(bundle.entries, Hashes(collation, bundle)) = bundle.rootHash

(* GET /api/v1/proofs/:publicId: stored is the bundle, if there is one. *)
Answer(collation, stored) ==
    IF stored = {} THEN "PROOF_NOT_FOUND"
    ELSE IF \E bundle \in stored : WellFormed(bundle) /\ Valid(collation, bundle) THEN "OK"
    ELSE IF \E bundle \in stored : WellFormed(bundle) THEN "PROOF_TAMPERED"
    ELSE "PROOF_INVALID"

=============================================================================
