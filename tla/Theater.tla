------------------------------ MODULE Theater ------------------------------
(***************************************************************************)
(* world-cell-theater-v26.ts with the parts it calls: the World Cell page   *)
(* once it is authoritative.  Frames of the camera go, one at a time, to a  *)
(* Keyxym kernel in a worker; its results carry an authority decision; what *)
(* it allows becomes a Moment, Moments are sealed through the assurance     *)
(* bridge into a World Cell, and sealed cells are sent to and received from *)
(* peers.  The bitmap, the spatial adapter, the worker, the bridge and a    *)
(* new kernel are awaited; the buttons and the peer act in between.         *)
(* A digest is modelled by the content it was computed over.                *)
(***************************************************************************)
EXTENDS Naturals, Sequences, SequencesExt, FiniteSets

CONSTANTS
    MaxMoments,     \* MAX_MOMENTS
    MaxEvidence,    \* records of evidence the page keeps
    MaxFrames,      \* bound: frames the camera delivers
    MaxKernels,     \* bound: kernels loaded, the first one included
    MaxSeals        \* bound: seals awaited at once

ASSUME TheaterAssumption ==
    {MaxMoments, MaxEvidence, MaxFrames, MaxKernels, MaxSeals} \subseteq Nat \ {0}

VARIABLES
    kernel,         \* this.runtime: the number of the kernel, MaxKernels at most
    dead,           \* kernels whose client was destroyed
    resets,         \* kernels that reset handlers still load
    loaded,         \* kernels asked for so far
    geometryOf,     \* what each kernel last exported: its revision
    capturing,      \* this.running
    frame,          \* the frame of processFrame, or NoFrame
    frames,         \* frames taken so far
    decision,       \* pose, quality, authority and receipts, or NoDecision
    snapshot,       \* geometrySnapshot and surfaceSnapshot: a revision
    drawn,          \* the geometry of the stage: "nothing", "live" or "moment"
    moments,        \* this.moments
    evidence,       \* this.evidence: the frames recorded
    sealed,         \* this.sealedCell, or NoCell
    aliased,        \* this.evidence is the array the sealed cell holds
    sealing,        \* seals that are awaited: the draft, and whether a frame waits
    arriving        \* received cells whose verification is awaited

frameVars == <<capturing, frame, frames>>
kernelVars == <<kernel, dead, resets, loaded, geometryOf>>
resultVars == <<decision, snapshot, drawn>>
cellVars == <<moments, evidence, sealed, aliased>>
theaterVars == <<kernelVars, frameVars, resultVars, cellVars, sealing, arriving>>

NoFrame == [at |-> "none", kernel |-> 0]
NoDecision == [recovered |-> FALSE, moment |-> FALSE, seal |-> FALSE]
NoCell == [moments |-> <<>>, evidence |-> <<>>, digest |-> <<>>, from |-> "nowhere"]

Genesis == <<>>     \* ZERO_DIGEST

\* The constructor and initialize: a kernel is loaded, nothing is captured.
TheaterInit ==
    /\ kernel = 1 /\ dead = {} /\ resets = {} /\ loaded = 1
    /\ geometryOf = [k \in 1..MaxKernels |-> 0]
    /\ capturing = FALSE /\ frame = NoFrame /\ frames = 0
    /\ decision = NoDecision /\ snapshot = 0 /\ drawn = "nothing"
    /\ moments = <<>> /\ evidence = <<>> /\ sealed = NoCell /\ aliased = FALSE
    /\ sealing = {}
    /\ arriving = {}

-----------------------------------------------------------------------------
(* The camera.                                                             *)

\* startCamera, once the camera plays.
StartCamera ==
    /\ ~capturing
    /\ capturing' = TRUE
    /\ UNCHANGED <<kernelVars, frame, frames, resultVars, cellVars, sealing, arriving>>

\* What is awaited goes on; the geometry drawn last stays on the stage.
StopCamera ==
    /\ capturing
    /\ capturing' = FALSE
    /\ UNCHANGED <<kernelVars, frame, frames, resultVars, cellVars, sealing, arriving>>

-----------------------------------------------------------------------------
(* One frame: onVideoFrame and processFrame.                               *)

\* Frames are dropped while one is processed.
OnVideoFrame ==
    /\ capturing /\ frame = NoFrame /\ frames < MaxFrames
    /\ frame' = [at |-> "bitmap", kernel |-> 0]
    /\ frames' = frames + 1
    /\ UNCHANGED <<kernelVars, capturing, resultVars, cellVars, sealing, arriving>>

\* A frame error: the bitmap, an adapter whose frame assertValidSpatialFrame
\* refuses, a kernel that rejects, fails or was destroyed.  What was accumulated
\* stays.
FrameFails ==
    /\ frame.at \in {"bitmap", "kernel"}
    /\ frame' = NoFrame
    /\ UNCHANGED <<kernelVars, capturing, frames, resultVars, cellVars, sealing, arriving>>

\* The bitmap and the spatial frame are there: the client of whatever kernel
\* is current takes them, unless it was destroyed.
IngestFrame ==
    /\ frame.at = "bitmap" /\ kernel \notin dead
    /\ frame' = [frame EXCEPT !.at = "kernel", !.kernel = kernel]
    /\ UNCHANGED <<kernelVars, capturing, frames, resultVars, cellVars, sealing, arriving>>

\* KeyxymV26Runtime.geometry: a snapshot, with the surface of the same
\* revision, is exported only when the revision changed.
Exported(k, revision) == revision # geometryOf[k]

\* The decisions of the kernel.  The authority it grants is its own matter
\* (the module is not part of this code); a seal presupposes a Moment and a
\* Moment a recovered pose.
Decisions ==
    {d \in [recovered : BOOLEAN, moment : BOOLEAN, seal : BOOLEAN] :
        (d.seal => d.moment) /\ (d.moment => d.recovered)}

\* A Moment of the present decision, below the last one.
Parent == IF moments = <<>> THEN Genesis ELSE Last(moments).digest
NewMoment(revision, d) ==
    LET body == [revision |-> revision, seal |-> d.seal, allowed |-> d.moment,
                 parent |-> Parent] IN
    [body |-> body, digest |-> Append(Parent, revision)]

\* validateMoment: authority, lineage and digest.
ValidMoment(moment, parent) ==
    /\ moment.body.allowed
    /\ moment.body.parent = parent
    /\ moment.digest = Append(parent, moment.body.revision)

\* The confirmed surfels of the snapshot must be as many as the authority
\* counted; those of another revision may happen to be (same).
CanCommitMoment(d, geometry, revision, same) ==
    d.moment /\ d.recovered /\ (geometry = revision \/ (same /\ geometry # 0))

Commits(moment) ==
    /\ moments' = Append(moments, moment)
    /\ sealed' = NoCell /\ aliased' = FALSE

\* recordRuntimeEvidence: every frame here is another image; the oldest
\* records go.
Recorded(n) ==
    LET longer == Append(evidence, n) IN
    IF Len(longer) > MaxEvidence THEN Tail(longer) ELSE longer

\* The automatic Moment of processFrame: a new revision, on a seal transition
\* or after a pause.
CommitsByItself(d, geometry, revision, paused, same) ==
    LET latest == IF moments = <<>> THEN [revision |-> 0, seal |-> FALSE]
                  ELSE [revision |-> Last(moments).body.revision,
                        seal |-> Last(moments).body.seal] IN
    /\ CanCommitMoment(d, geometry, revision, same)
    /\ Len(moments) < MaxMoments
    /\ latest.revision # geometry
    /\ (d.seal /\ ~latest.seal) \/ paused

\* worldCellDraft copies every Moment and every record of evidence.
SharedDraft(held, records) ==   \* fault: the arrays are not copied
    [moments |-> held, evidence |-> records, shares |-> TRUE]
Draft(held, records) == [moments |-> held, evidence |-> records, shares |-> FALSE]

\* updateAuthorityCloud: the buffers of the stage are filled anew.
Drawn(geometry) == IF geometry = 0 THEN "nothing" ELSE "live"

\* The answer of the worker.  The snapshot is dropped when the pose was lost,
\* and is not exported again.  An automatic seal keeps the frame, and with it
\* the next ones, until the bridge answers.
FrameResult(revision, d, paused, same) ==
    /\ frame.at = "kernel" /\ frame.kernel \notin dead
    /\ revision \in {geometryOf[frame.kernel], geometryOf[frame.kernel] + 1}
    /\ geometryOf' = [geometryOf EXCEPT ![frame.kernel] = revision]
    /\ decision' = d
    /\ snapshot' = IF Exported(frame.kernel, revision) /\ d.recovered
                   THEN revision ELSE snapshot
    /\ drawn' = Drawn(snapshot')
    /\ evidence' = Recorded(frames)
    /\ IF CommitsByItself(d, snapshot', revision, paused, same)
       THEN Commits(NewMoment(snapshot', d))
       ELSE /\ sealed' = IF aliased THEN [sealed EXCEPT !.evidence = evidence']
                         ELSE sealed
            /\ UNCHANGED <<moments, aliased>>
    /\ IF /\ CommitsByItself(d, snapshot', revision, paused, same)
          /\ d.seal /\ Cardinality(sealing) < MaxSeals
       THEN /\ sealing' = sealing \cup {[draft |-> Draft(moments', evidence'), waits |-> TRUE]}
            /\ frame' = [frame EXCEPT !.at = "seal"]
       ELSE frame' = NoFrame /\ UNCHANGED sealing
    /\ UNCHANGED <<kernel, dead, resets, loaded, capturing, frames, arriving>>

-----------------------------------------------------------------------------
(* Moments and the seal.                                                   *)

CommitMoment(same) ==
    /\ capturing /\ CanCommitMoment(decision, snapshot, geometryOf[kernel], same)
    /\ Len(moments) < MaxMoments
    /\ ValidMoment(NewMoment(snapshot, decision), Parent)
    /\ Commits(NewMoment(snapshot, decision))
    /\ UNCHANGED <<kernelVars, frameVars, resultVars, evidence, sealing, arriving>>

\* The slider, the arrows, the timeline and the playback timer.
ShowMoment ==
    /\ moments # <<>>
    /\ drawn' = "moment"
    /\ UNCHANGED <<kernelVars, frameVars, decision, snapshot, cellVars, sealing, arriving>>

SealReady ==
    /\ moments # <<>> /\ decision.seal
    /\ Last(moments).body.seal /\ Last(moments).body.revision = snapshot

\* seal: the draft is fixed, and the bridge seals and verifies it.
Seal ==
    /\ SealReady /\ Cardinality(sealing) < MaxSeals
    /\ sealing' = sealing \cup {[draft |-> Draft(moments, evidence), waits |-> FALSE]}
    /\ UNCHANGED <<kernelVars, frameVars, resultVars, cellVars, arriving>>

FrameGoesOn(s) == frame' = IF s.waits THEN NoFrame ELSE frame

\* The cell the page then holds is the draft, whatever was committed, received
\* or reset since.
SealAnswers(s) ==
    /\ sealing' = sealing \ {s}
    /\ sealed' = [moments |-> s.draft.moments, evidence |-> s.draft.evidence,
                  digest |-> <<s.draft.moments, s.draft.evidence>>, from |-> "page"]
    /\ aliased' = s.draft.shares
    /\ FrameGoesOn(s)
    /\ UNCHANGED <<kernelVars, capturing, frames, resultVars, moments, evidence, arriving>>

\* The bridge fails or rejects; the Moment stays and can be sealed again.
SealFails(s) ==
    /\ sealing' = sealing \ {s}
    /\ FrameGoesOn(s)
    /\ UNCHANGED <<kernelVars, capturing, frames, resultVars, cellVars, arriving>>

-----------------------------------------------------------------------------
(* Peers.                                                                  *)

\* What another page may send: a cell it sealed, or one that was changed on
\* the way: another lineage, or evidence that was not sealed.
PeerMoment(parent) ==
    [body |-> [revision |-> 1, seal |-> TRUE, allowed |-> TRUE, parent |-> parent],
     digest |-> Append(parent, 1)]
PeerCell == LET held == <<PeerMoment(Genesis)>> IN
    [moments |-> held, evidence |-> <<1>>, digest |-> <<held, <<1>>>>, from |-> "peer"]
PeerCells ==
    {PeerCell,
     [PeerCell EXCEPT !.evidence = <<>>],
     LET held == <<PeerMoment(<<0>>)>> IN
         [PeerCell EXCEPT !.moments = held, !.digest = <<held, <<1>>>>]}

\* verifyReceivedCell before its await: the lineage, the last authority and
\* the binding of the digest.
VerifiesUnordered(cell) ==   \* fault: the previous digests are not followed
    cell.moments # <<>> /\ cell.digest = <<cell.moments, cell.evidence>>
VerifiesReceived(cell) ==
    /\ cell.moments # <<>>
    /\ \A i \in DOMAIN cell.moments :
         ValidMoment(cell.moments[i],
                     IF i = 1 THEN Genesis ELSE cell.moments[i - 1].digest)
    /\ Last(cell.moments).body.seal
    /\ cell.digest = <<cell.moments, cell.evidence>>

\* onPeerMessage and finalizeReceive: the channel is ordered, the chunks since
\* the last manifest are counted and digested, and the cell is parsed.
FinalizeReceive(cell) ==
    /\ VerifiesReceived(cell)
    /\ arriving' = arriving \cup {cell}
    /\ UNCHANGED <<kernelVars, frameVars, resultVars, cellVars, sealing>>

\* The bridge has verified the seal: the cell and its arrays become the page's.
ReceivedVerifies(cell) ==
    /\ arriving' = arriving \ {cell}
    /\ sealed' = cell /\ moments' = cell.moments /\ evidence' = cell.evidence
    /\ aliased' = TRUE
    /\ drawn' = "moment"
    /\ UNCHANGED <<kernelVars, frameVars, decision, snapshot, sealing>>

ReceivedRejected(cell) ==
    /\ arriving' = arriving \ {cell}
    /\ UNCHANGED <<kernelVars, frameVars, resultVars, cellVars, sealing>>

-----------------------------------------------------------------------------
(* Reset and failure of the kernel.                                        *)

\* reset until its await: the capture stops, the kernel is destroyed and a
\* new one is loaded.  The frame in flight to it is rejected later.
Reset ==
    /\ loaded < MaxKernels
    /\ capturing' = FALSE
    /\ dead' = dead \cup {kernel}
    /\ loaded' = loaded + 1
    /\ resets' = resets \cup {loaded'}
    /\ UNCHANGED <<kernel, geometryOf, frame, frames, resultVars, cellVars, sealing,
                   arriving>>

\* And after it: everything is forgotten but what is awaited elsewhere.
ResetLoaded(k) ==
    /\ resets' = resets \ {k}
    /\ kernel' = k
    /\ decision' = NoDecision /\ snapshot' = 0 /\ drawn' = "nothing"
    /\ moments' = <<>> /\ evidence' = <<>> /\ sealed' = NoCell /\ aliased' = FALSE
    /\ UNCHANGED <<dead, loaded, geometryOf, frameVars, sealing, arriving>>

ResetFails(k) ==
    /\ resets' = resets \ {k}
    /\ UNCHANGED <<kernel, dead, loaded, geometryOf, frameVars, resultVars,
                   cellVars, sealing, arriving>>

-----------------------------------------------------------------------------
TheaterNext ==
    \/ StartCamera \/ StopCamera
    \/ OnVideoFrame \/ FrameFails \/ IngestFrame
    \/ \E revision \in 0..MaxFrames, d \in Decisions, paused, same \in BOOLEAN :
         FrameResult(revision, d, paused, same)
    \/ \E same \in BOOLEAN : CommitMoment(same)
    \/ ShowMoment \/ Seal
    \/ \E s \in sealing : SealAnswers(s) \/ SealFails(s)
    \/ \E cell \in PeerCells : FinalizeReceive(cell)
    \/ \E cell \in arriving : ReceivedVerifies(cell) \/ ReceivedRejected(cell)
    \/ Reset
    \/ \E k \in resets : ResetLoaded(k) \/ ResetFails(k)

TheaterSpec == TheaterInit /\ [][TheaterNext]_theaterVars

-----------------------------------------------------------------------------
\* The Moments of the page form one lineage of authorised Moments, through
\* commits, received cells, seals and resets that answer late (commitMoment,
\* finalizeReceive, verifyReceivedCell, reset).
MomentsFormLineage ==
    \A i \in DOMAIN moments :
        ValidMoment(moments[i], IF i = 1 THEN Genesis ELSE moments[i - 1].digest)

\* A cell sealed here stays what its digest was computed over, whatever is
\* captured, committed, received or reset while the bridge answers and after:
\* a sealable lineage with exactly its evidence (seal, worldCellDraft).
\* (A received cell does not: it shares its array of evidence with the page,
\* and the frames captured later grow it.)
SealedHereStaysBound == sealed.from = "page" => VerifiesReceived(sealed)
=============================================================================
