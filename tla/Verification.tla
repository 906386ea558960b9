---------------------------- MODULE Verification ----------------------------
(***************************************************************************)
(* verification.ts and cinematic-object.ts: what the browser checks before  *)
(* it shows a document.  Every document is a web of digests that ends in a  *)
(* root: the identity of a Cell, or the replay fingerprint of a lineage.    *)
(* Of a document that was edited and partly sealed again only this is kept: *)
(* which of its fields still have the value they were first sealed with.  A *)
(* digest and its preimage both kept agree, only one of them kept they      *)
(* disagree (collisions are excluded), and both edited they may agree.      *)
(***************************************************************************)
EXTENDS Naturals, FiniteSets

CONSTANT MaxChanges     \* bound: fields edited

ASSUME VerificationAssumption == MaxChanges \in Nat

VARIABLES
    subject,    \* the kind of document
    kept,       \* its fields that have their first value
    legible,    \* whether what was edited still parses and decodes
    verdict,    \* "none", "accepted" or "rejected"
    challenge   \* the layer that caught a mutation of the trace drawer

documentVars == <<subject, kept, legible>>
verificationVars == <<documentVars, verdict, challenge>>

Determines(digest, fields) == (digest \in kept) <=> (fields \subseteq kept)
Embeds(field, value) == field \in kept => value \in kept

-----------------------------------------------------------------------------
(* The documents: their fields, what a person is shown, and their root.    *)

CellFields == {"payload", "chunk", "manifest", "cell", "fingerprint", "pha"}
CapsuleFields == {"capsule digest", "core", "core digest", "lineage", "replay",
                  "sidecar", "sidecar digest", "packet", "packet digest"}
CaptureFields ==
    {"surfels", "surfel chunk", "observation", "observation cell", "accepted",
     "excluded", "forge report", "voxels", "sdf chunk", "sdf", "sdf cell",
     "fused", "voxel size", "capture", "report", "observation proof",
     "sdf proof", "observation branch", "sdf branch", "replay"}
MediaFields ==
    {"descriptor", "descriptor chunk", "media", "media order", "media chunks",
     "media root", "manifest", "cell", "fingerprint", "pha"}
\* Of the four states of a Locus two stand for all: one whose Cell the source
\* Cell joins (moment-c and the alternate) and an earlier one.
Times == {"time", "earlier time"}
Captures == {"capture", "earlier capture"}
StateCells == {"state cell", "earlier cell"}
StateBranches == {"state branch", "earlier branch"}
LocusFields ==
    {"selections", "selection manifest", "source manifest", "source",
     "source cell", "source branch", "replay"}
    \cup Times \cup Captures \cup StateCells \cup StateBranches

Subjects == {"world", "capsule", "reconstruction", "locus", "cinematic"}
FieldsOf(s) ==
    CASE s = "world" -> CellFields
      [] s = "capsule" -> CapsuleFields
      [] s = "reconstruction" -> CaptureFields
      [] s = "locus" -> LocusFields
      [] s = "cinematic" -> MediaFields

Root(s) ==
    CASE s = "capsule" -> "capsule digest"
      [] s \in {"world", "cinematic"} -> "cell"
      [] OTHER -> "replay"

\* The Merkle root sorts its leaves: it does not bind the order of the media
\* chunks.  Of a reconstruction, the counts of excluded samples and the
\* capture commitment stand only in reports that anyone can compute anew.
Shown(s) ==
    CASE s = "world" -> {"payload", "manifest"}
      [] s = "capsule" -> {"core", "lineage", "sidecar", "packet"}
      [] s = "reconstruction" ->
            {"surfels", "observation", "voxels", "sdf", "voxel size",
             "accepted", "fused"}
      [] s = "locus" -> {"source"} \cup Times \cup Captures \cup StateCells
      [] s = "cinematic" -> {"descriptor", "media", "manifest"}

-----------------------------------------------------------------------------
(* The checks.                                                             *)

\* calculateCellId: the manifest in canonical order.
CellIdentity(cell, manifest) == Determines(cell, {manifest})

\* calculatePhaFingerprint; the public inputs of the proof name the Cell.
PhaBound ==
    Determines("fingerprint", {"pha"}) /\ Embeds("pha", "cell")

\* verifyRootprint: branch identities and the replay over all of them.
Replays(replay, branches) == Determines(replay, branches)

WorldCellAccepted ==
    /\ Determines("chunk", {"payload"}) /\ Embeds("manifest", "chunk")
    /\ CellIdentity("cell", "manifest")
    /\ PhaBound

CapsuleAccepted ==
    /\ Determines("capsule digest", CapsuleFields \ {"capsule digest"})
    /\ Determines("core digest", {"core"})
    /\ Replays("replay", {"lineage"})
    /\ Embeds("sidecar", "replay") /\ Determines("sidecar digest", {"sidecar"})
    /\ Embeds("packet", "replay") /\ Determines("packet digest", {"packet"})

ObservationCommitted ==
    /\ Determines("surfel chunk", {"surfels"})
    /\ Embeds("observation", "surfel chunk")
    /\ Embeds("surfels", "accepted")
    /\ CellIdentity("observation cell", "observation")
    /\ Determines("forge report",
                  {"accepted", "excluded", "observation cell", "surfel chunk"})

SdfUnidentified ==    \* fault: the identity of the derived Cell is not computed
    /\ Embeds("voxels", "voxel size")
    /\ Determines("sdf chunk", {"voxels"})
    /\ Embeds("sdf", "sdf chunk")
    /\ Embeds("voxels", "fused")
SdfCommitted ==
    /\ Embeds("voxels", "voxel size")
    /\ Determines("sdf chunk", {"voxels"})
    /\ Embeds("sdf", "sdf chunk")
    /\ CellIdentity("sdf cell", "sdf")
    /\ Embeds("sdf", "observation cell")      \* its only parent
    /\ Embeds("voxels", "fused")

ReportCommitted ==
    Determines("report", {"fused", "capture", "observation cell", "voxel size",
                          "sdf cell", "sdf chunk"})

ProofsBound ==
    /\ Embeds("observation proof", "observation cell")
    /\ Embeds("sdf proof", "sdf cell")

LineageBinds ==
    /\ Replays("replay", {"observation branch", "sdf branch"})
    /\ Embeds("observation branch", "observation cell")
    /\ Embeds("sdf branch", "sdf cell")

ReconstructionAccepted ==
    /\ ObservationCommitted /\ SdfCommitted
    /\ ReportCommitted /\ ProofsBound /\ LineageBinds

SourceSelected ==
    /\ \A time \in Times : Embeds("selections", time)
    /\ Determines("selection manifest", {"selections"})

\* The states themselves are verified as reconstructions.
SourceCommitted ==
    /\ Determines("source manifest",
                  {"selection manifest"} \cup Captures \cup StateCells)
    /\ Embeds("source", "source manifest")
    /\ Embeds("source", "state cell")
    /\ CellIdentity("source cell", "source")

LocusLineageBinds ==
    /\ Replays("replay", {"source branch"} \cup StateBranches)
    /\ Embeds("source branch", "source cell")
    /\ Embeds("source branch", "state branch")     \* its parents
    /\ Embeds("state branch", "state cell")
    /\ Embeds("earlier branch", "earlier cell")

LocusAccepted ==
    SourceSelected /\ SourceCommitted /\ LocusLineageBinds

MediaCommitted ==
    /\ Determines("descriptor chunk", {"descriptor"})
    /\ Determines("media chunks", {"media", "media order"})
    /\ Embeds("media root", "media")  \* the sorted leaves
    /\ Embeds("manifest", "media root")
    /\ Embeds("manifest", "descriptor chunk")

CinematicAccepted ==
    /\ MediaCommitted
    /\ CellIdentity("cell", "manifest") /\ PhaBound

\* Strict JSON of integers, the profile of a descriptor, and the canonical
\* encoding of surfels and voxels.
Legible == legible

Accepts ==
    Legible /\
    CASE subject = "world" -> WorldCellAccepted
      [] subject = "capsule" -> CapsuleAccepted
      [] subject = "reconstruction" -> ReconstructionAccepted
      [] subject = "locus" -> LocusAccepted
      [] subject = "cinematic" -> CinematicAccepted

-----------------------------------------------------------------------------
(* A document is edited, then verified; an accepted one can be challenged. *)

VerificationInit ==
    /\ subject \in Subjects
    /\ kept = FieldsOf(subject)
    /\ legible = TRUE
    /\ verdict = "none" /\ challenge = "none"

Edit(field, wellFormed) ==
    /\ verdict = "none"
    /\ Cardinality(FieldsOf(subject) \ kept) < MaxChanges
    /\ kept' = kept \ {field}
    /\ legible' = (legible /\ wellFormed)
    /\ UNCHANGED <<subject, verdict, challenge>>

Verify ==
    /\ verdict = "none"
    /\ verdict' = IF Accepts THEN "accepted" ELSE "rejected"
    /\ UNCHANGED <<documentVars, challenge>>

\* The challenges: what is changed in the copy, the digest it is held against,
\* and the layer that has to reject it.
Challenges ==
    {<<"manifest", "cell", "cell">>, <<"pha", "fingerprint", "core">>,
     <<"packet", "packet digest", "semantic">>}

\* runMutation: the layer whose digest of the changed copy is not the stored
\* one, or none.
RunMutation(field, digest, layer) ==
    IF (digest \in kept) <=> (field \in kept) THEN layer ELSE "none"

\* executeMutation, on a copy of what was accepted.  It says nothing of the
\* document.
ExecuteMutation ==
    /\ verdict = "accepted"
    /\ \E c \in Challenges :
           /\ {c[1], c[2]} \subseteq FieldsOf(subject)
           /\ challenge' = RunMutation(c[1], c[2], c[3])
    /\ UNCHANGED <<documentVars, verdict>>

VerificationNext ==
    \/ \E field \in kept, wellFormed \in BOOLEAN : Edit(field, wellFormed)
    \/ Verify
    \/ ExecuteMutation

VerificationSpec ==
    VerificationInit /\ [][VerificationNext]_verificationVars

-----------------------------------------------------------------------------
(* Properties.                                                             *)

\* A document that is accepted under the root it was first sealed with shows
\* what was first sealed: no edit of its chunks, manifests, counts or states
\* survives, however many of the digests between are computed anew.
AcceptedIsBound ==
    verdict = "accepted" /\ Root(subject) \in kept =>
        legible /\ Shown(subject) \subseteq kept
=============================================================================
