----------------------------- MODULE WeavePolicy -----------------------------
(***************************************************************************)
(* What an Object Weave node is configured with and what its clients sign: *)
(* the WeaveConfig limits, the publication intents and the content they    *)
(* name, with the sums of bytes the limits are about                       *)
(* (services/tessaryn-weave-node/src/lib.rs).                              *)
(***************************************************************************)
EXTENDS Naturals, FiniteSets

CONSTANTS
  Publishers,   \* publisher identities, one per Ed25519 key
  Digests,      \* SHA-256 digests named by intents
  Uploads,      \* upload ids: each is the hash of one signed intent
  Intent,       \* the signed intent an upload id stands for
  Size,         \* the length of the content with a given digest
  Admitted,     \* the uploads whose signed content verify_admitted_artifact accepts
  Policy,       \* the WeaveConfig limits, under their source names
  MaxU64        \* the largest declared size, u64::MAX in the code

Limits ==
  {"chunk_bytes", "max_object_bytes", "max_publisher_bytes",
   "max_pending_bytes", "max_retained_bytes", "max_active_uploads",
   "max_active_uploads_per_publisher", "max_publications",
   "max_publications_per_publisher"}

\* validate_config: a limit of zero, or a narrow limit above the wider one that
\* contains it, does not open a node.
ValidConfig ==
  /\ Policy \in [Limits -> 1 .. MaxU64]
  /\ Policy["chunk_bytes"] <= Policy["max_object_bytes"]
  /\ Policy["max_object_bytes"] <= Policy["max_publisher_bytes"]
  /\ Policy["max_object_bytes"] <= Policy["max_pending_bytes"]
  /\ Policy["max_publisher_bytes"] <= Policy["max_retained_bytes"]
  /\ Policy["max_active_uploads_per_publisher"] <= Policy["max_active_uploads"]
  /\ Policy["max_publications_per_publisher"] <= Policy["max_publications"]

\* verify_publication_intent accepts a positive length and any digest: nothing
\* ties the length to the digest until the content is assembled.
ASSUME SizesAssumption == /\ MaxU64 \in Nat \ {0}
                          /\ Size \in [Digests -> 1 .. MaxU64]
                          /\ Admitted \subseteq Uploads
ASSUME IntentAssumption ==
  Intent \in [Uploads -> [publisher : Publishers, digest : Digests,
                          bytes : 1 .. MaxU64]]
ASSUME PolicyAssumption == ValidConfig
ASSUME FiniteAssumption == IsFiniteSet(Uploads) /\ IsFiniteSet(Digests)

-----------------------------------------------------------------------------

\* The sum of f over S, as the number of bytes of all of S laid side by side.
ByteSum(f, S) == Cardinality({b \in S \X (1 .. MaxU64) : b[2] <= f[b[1]]})

Declared == [u \in Uploads |-> Intent[u].bytes]

\* artifact_bytes.div_ceil(chunk_bytes)
ChunkCount(u) ==
  (Intent[u].bytes + Policy["chunk_bytes"] - 1) \div Policy["chunk_bytes"]

OfPublisher(S, u) == {v \in S : Intent[v].publisher = Intent[u].publisher}
DigestsOf(S) == {Intent[u].digest : u \in S}

\* The uploads of S whose artifact is not among the objects D.
Unstored(S, D) == {u \in S : Intent[u].digest \notin D}
=============================================================================
