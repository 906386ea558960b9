--------------------------- MODULE WorldCellProofs ---------------------------
(***************************************************************************)
(* The World Cell page: what it runs and what it seals.                     *)
(*                                                                         *)
(* OnlyApprovedBytesRun for any number of exchanged files.  What the page   *)
(* holds after a check is approved; under one service worker what it holds  *)
(* is also what the worker keeps, which is what a later load gets.          *)
(*                                                                         *)
(* MomentsFormLineage and SealedHereStaysBound for any number of frames,    *)
(* kernels and seals that are awaited.  What is sealed or received later    *)
(* was a lineage when it was copied, and only a received cell shares its    *)
(* evidence with the page.                                                  *)
(***************************************************************************)
EXTENDS Provenance, Theater, SequenceTheorems, TLAPS

-----------------------------------------------------------------------------
(* The bytes of the kernel and of the bridge.                              *)

Contents == {"approved", "other"}
Keyxym == {"keyxym module", "keyxym wasm"}
Phases == {"manifest", "bundle", "assurance manifest", "assurance",
           "module", "wasm", "loaded", "over"}
Checked == {"assurance manifest", "assurance", "module", "wasm", "loaded"}

ProvenanceTypes ==
    /\ serves \in [Artefacts -> Contents]
    /\ controlled \in BOOLEAN /\ steady \in BOOLEAN
    /\ copies \in [Artefacts -> Contents \cup {Absent}]
    /\ http \in [Artefacts -> Contents \cup {Absent}]
    /\ phase \in Phases
    /\ holding \in [Artefacts -> Contents \cup {Absent}]
    /\ running \in [Keyxym -> Contents \cup {Absent}]

\* A phase that follows a check has the bytes that passed it.
HoldsChecked ==
    /\ phase = "bundle" => holding["keyxym manifest"] = "approved"
    /\ phase \in Checked => \A f \in Keyxym : holding[f] = "approved"
    /\ phase = "assurance" => holding["assurance manifest"] = "approved"

\* Under one service worker the page holds what the worker keeps.
WorkerKeepsHeld ==
    steady =>
        /\ controlled
        /\ \A f \in Artefacts : holding[f] # Absent => copies[f] = holding[f]

ProvenanceInv ==
    ProvenanceTypes /\ HoldsChecked /\ WorkerKeepsHeld /\ OnlyApprovedBytesRun

-----------------------------------------------------------------------------
\* The files the proofs name are files of the site.
LEMMA FileNames ==
    /\ Keyxym \subseteq Artefacts
    /\ {"keyxym manifest", "assurance manifest", "assurance wasm"} \subseteq Artefacts
BY DEF Keyxym, Artefacts, Manifests, Runtimes

\* A first visit.
LEMMA ProvenanceInitially == ProvenanceInit => ProvenanceInv
BY FileNames DEF ProvenanceInit, ProvenanceInv, ProvenanceTypes, HoldsChecked,
    WorkerKeepsHeld, OnlyApprovedBytesRun, NoBytes, NoKernel, Contents, Keyxym,
    Phases, Checked, Absent, Artefacts, Manifests, Runtimes

\* What the page is answered has content, and under a worker the worker keeps it.
LEMMA AnswerIsKept ==
    ASSUME ProvenanceTypes, NEW f \in Artefacts
    PROVE  /\ AnswerFor(f) \in Contents
           /\ Pinned(f) \in [Artefacts -> Contents \cup {Absent}]
           /\ controlled => Pinned(f)[f] = AnswerFor(f)
           /\ controlled /\ copies[f] # Absent => AnswerFor(f) = copies[f]
           /\ \A g \in Artefacts : copies[g] # Absent => Pinned(f)[g] = copies[g]
BY DEF ProvenanceTypes, AnswerFor, Pinned, Contents, Absent

\* One step per action.
LEMMA ProvenanceStep ==
    ProvenanceInv /\ [ProvenanceNext]_provenanceVars => ProvenanceInv'
<1> SUFFICES ASSUME ProvenanceInv, [ProvenanceNext]_provenanceVars
             PROVE  ProvenanceInv'
    OBVIOUS
<1> USE FileNames DEF ProvenanceInv, Contents, Absent
<1>1. ASSUME NEW f \in Artefacts, Exchange(f) PROVE ProvenanceInv'
    BY <1>1 DEF Exchange, ProvenanceTypes, HoldsChecked, WorkerKeepsHeld,
        OnlyApprovedBytesRun
<1>2. ASSUME NEW f \in Artefacts, FetchBytes(f) PROVE ProvenanceInv'
    <2>1. /\ AnswerFor(f) \in Contents
          /\ copies' \in [Artefacts -> Contents \cup {Absent}]
          /\ controlled => copies'[f] = AnswerFor(f)
          /\ \A g \in Artefacts : copies[g] # Absent => copies'[g] = copies[g]
        BY <1>2, AnswerIsKept DEF FetchBytes
    <2>2. ProvenanceTypes'
        BY <1>2, <2>1 DEF FetchBytes, ProvenanceTypes
    <2>3. HoldsChecked'
        <3>1. f \in Awaited(phase) /\ holding[f] = Absent /\ phase' = phase
            BY <1>2 DEF FetchBytes
        <3>2. \A g \in Artefacts : g # f => holding'[g] = holding[g]
            BY <1>2 DEF FetchBytes, ProvenanceTypes
        <3> QED BY <3>1, <3>2 DEF HoldsChecked, Keyxym
    <2>4. WorkerKeepsHeld'
        BY <1>2, <2>1 DEF FetchBytes, ProvenanceTypes, WorkerKeepsHeld
    <2>5. OnlyApprovedBytesRun'
        BY <1>2 DEF FetchBytes, OnlyApprovedBytesRun
    <2> QED BY <2>2, <2>3, <2>4, <2>5
<1>3. ASSUME TakeOver PROVE ProvenanceInv'
    BY <1>3 DEF TakeOver, NoBytes, ProvenanceTypes, HoldsChecked, WorkerKeepsHeld,
        OnlyApprovedBytesRun
<1>14. ASSUME NEW f \in Artefacts, NEW bytes \in {"approved", "other"}, LateAnswer(f, bytes)
       PROVE  ProvenanceInv'
    <2>1. ProvenanceTypes'
        BY <1>14 DEF LateAnswer, ProvenanceTypes
    <2> QED BY <1>14, <2>1 DEF LateAnswer, HoldsChecked, WorkerKeepsHeld,
                OnlyApprovedBytesRun
<1>4. ASSUME Visit PROVE ProvenanceInv'
    BY <1>4 DEF Visit, siteVars, NoBytes, NoKernel, ProvenanceTypes, HoldsChecked,
        WorkerKeepsHeld, OnlyApprovedBytesRun, Keyxym, Checked, Phases
<1>5. ASSUME RequireManifest("manifest", "bundle") PROVE ProvenanceInv'
    BY <1>5 DEF RequireManifest, Awaited, ManifestApproved, siteVars, ProvenanceTypes,
        HoldsChecked, WorkerKeepsHeld, OnlyApprovedBytesRun, Checked, Phases
<1>6. ASSUME RequireManifest("assurance manifest", "assurance") PROVE ProvenanceInv'
    BY <1>6 DEF RequireManifest, Awaited, ManifestApproved, siteVars, ProvenanceTypes,
        HoldsChecked, WorkerKeepsHeld, OnlyApprovedBytesRun, Checked, Phases
<1>7. ASSUME VerifyKeyxymV26Bundle PROVE ProvenanceInv'
    <2>1. \A f \in Keyxym : holding[f] = "approved"
        BY <1>7 DEF VerifyKeyxymV26Bundle, Matches, ManifestOf, Awaited, HoldsChecked, Keyxym
    <2> QED BY <1>7, <2>1 DEF VerifyKeyxymV26Bundle, PhaseEnds, siteVars, ProvenanceTypes,
        HoldsChecked, WorkerKeepsHeld, OnlyApprovedBytesRun, Checked, Phases
<1>8. ASSUME InstallBrowserAssuranceBridge PROVE ProvenanceInv'
    <2>1. holding["assurance wasm"] = "approved"
        BY <1>8 DEF InstallBrowserAssuranceBridge, Matches, ManifestOf, HoldsChecked
    <2> QED BY <1>8, <2>1 DEF InstallBrowserAssuranceBridge, PhaseEnds, siteVars,
        ProvenanceTypes, HoldsChecked, WorkerKeepsHeld, OnlyApprovedBytesRun, Checked, Phases
<1>9. ASSUME phase' = "over",
             UNCHANGED <<siteVars, abandoned, holding, bridge, running, steady>>
      PROVE  ProvenanceInv'
    BY <1>9 DEF siteVars, ProvenanceTypes, HoldsChecked, WorkerKeepsHeld,
        OnlyApprovedBytesRun, Checked, Phases
<1>10. ASSUME PhaseTimesOut PROVE ProvenanceInv'
    BY <1>10 DEF PhaseTimesOut, siteVars, ProvenanceTypes, HoldsChecked,
        WorkerKeepsHeld, OnlyApprovedBytesRun
<1>11. ASSUME ResetRuntime PROVE ProvenanceInv'
    BY <1>11 DEF ResetRuntime, siteVars, NoKernel, ProvenanceTypes, HoldsChecked,
        WorkerKeepsHeld, OnlyApprovedBytesRun, Checked, Phases, Keyxym
<1>12. ASSUME NEW s \in {"module", "wasm"}, NEW f \in Keyxym,
              NEW next \in {"wasm", "loaded"}, LoadPart(s, f, next)
       PROVE  ProvenanceInv'
    <2>1. PICK bytes \in Loadable(f) :
              /\ running' = [running EXCEPT ![f] = bytes]
              /\ http' = IF controlled THEN http ELSE [http EXCEPT ![f] = bytes]
        BY <1>12 DEF LoadPart
    <2>2. /\ copies' \in [Artefacts -> Contents \cup {Absent}]
          /\ AnswerFor(f) \in Contents
          /\ controlled /\ copies[f] # Absent => AnswerFor(f) = copies[f]
          /\ \A g \in Artefacts : copies[g] # Absent => copies'[g] = copies[g]
        BY <1>12, AnswerIsKept DEF LoadPart
    <2>3. bytes \in Contents
        BY <2>1, <2>2 DEF Loadable, ProvenanceTypes
    <2>4. steady => bytes = "approved"
        BY <1>12, <2>1, <2>2 DEF LoadPart, Loadable, WorkerKeepsHeld, HoldsChecked, Checked
    <2>5. ProvenanceTypes'
        BY <1>12, <2>1, <2>2, <2>3 DEF LoadPart, ProvenanceTypes, Phases
    <2>6. HoldsChecked' /\ WorkerKeepsHeld'
        BY <1>12, <2>2 DEF LoadPart, HoldsChecked, WorkerKeepsHeld, Checked
    <2>7. OnlyApprovedBytesRun'
        BY <1>12, <2>1, <2>4 DEF LoadPart, OnlyApprovedBytesRun, ProvenanceTypes
    <2> QED BY <2>5, <2>6, <2>7
<1>13. CASE UNCHANGED provenanceVars
    BY <1>13 DEF provenanceVars, siteVars, ProvenanceTypes, HoldsChecked, WorkerKeepsHeld,
        OnlyApprovedBytesRun
<1> QED BY <1>1, <1>2, <1>3, <1>4, <1>5, <1>6, <1>7, <1>8, <1>9, <1>10, <1>12, <1>13,
        <1>14, <1>11 DEF ProvenanceNext, Keyxym, ArtifactMismatch, LoadFails

\* Whatever and however often the server exchanges: the assurance bridge was
\* compiled from the approved bytes, and during a visit that one service worker
\* answers, with no late answers to others, the Keyxym worker runs nothing else, also after a reset.
THEOREM OnlyApprovedBytesRunHolds == ProvenanceSpec => []OnlyApprovedBytesRun
<1>1. ProvenanceInv => OnlyApprovedBytesRun
    BY DEF ProvenanceInv
<1> QED BY <1>1, ProvenanceInitially, ProvenanceStep, PTL DEF ProvenanceSpec

-----------------------------------------------------------------------------
(* The Moments and the sealed cells.                                       *)

Digests == Seq(Nat)
Moment == [body : [revision : Nat, seal : BOOLEAN, allowed : BOOLEAN,
                   parent : Digests],
           digest : Digests]
Decision == [recovered : BOOLEAN, moment : BOOLEAN, seal : BOOLEAN]

\* Moments of which each is authorised and follows the one before.
IsLineage(held) ==
    /\ held \in Seq(Moment)
    /\ \A i \in DOMAIN held :
         ValidMoment(held[i], IF i = 1 THEN Genesis ELSE held[i - 1].digest)
IsSealable(held) == IsLineage(held) /\ held # <<>> /\ Last(held).body.seal
IsCell(cell) ==
    cell = [moments |-> cell.moments, evidence |-> cell.evidence,
            digest |-> cell.digest, from |-> cell.from]

TheaterInv ==
    /\ decision \in Decision /\ snapshot \in Nat
    /\ IsLineage(moments)
    /\ \A cell \in arriving :
         IsCell(cell) /\ cell.from = "peer" /\ IsLineage(cell.moments)
    /\ \A s \in sealing : ~s.draft.shares /\ IsSealable(s.draft.moments)
    /\ IsCell(sealed)
    /\ aliased => sealed.from = "peer"
    /\ SealedHereStaysBound

\* A sealable lineage with its digest is what verifyReceivedCell accepts.
LEMMA SealableVerifies ==
    ASSUME NEW cell, IsSealable(cell.moments),
           cell.digest = <<cell.moments, cell.evidence>>
    PROVE  VerifiesReceived(cell)
BY DEF IsSealable, IsLineage, VerifiesReceived

\* A Moment of the present decision is authorised and lengthens the lineage.
LEMMA CommitLengthens ==
    ASSUME IsLineage(moments), NEW revision \in Nat, NEW d \in Decision, d.moment
    PROVE  LET m == NewMoment(revision, d) IN
           /\ IsLineage(Append(moments, m))
           /\ Append(moments, m) # <<>>
           /\ Last(Append(moments, m)).body.seal = d.seal
<1> DEFINE m == NewMoment(revision, d)
           longer == Append(moments, m)
<1>1. moments \in Seq(Moment) /\ Len(moments) \in Nat /\ DOMAIN moments = 1..Len(moments)
    BY DEF IsLineage
<1>2. Parent \in Digests
    <2>1. CASE moments = <<>>
        BY <2>1 DEF Parent, Genesis, Digests
    <2>2. CASE moments # <<>>
        <3>1. Len(moments) \in DOMAIN moments
            BY <1>1, <2>2
        <3>2. moments[Len(moments)] \in Moment
            BY <1>1, <3>1
        <3> QED BY <2>2, <3>2 DEF Parent, Last, Moment
    <2> QED BY <2>1, <2>2
<1>3. Append(Parent, revision) \in Digests
    BY <1>2 DEF Digests
<1>4. m \in Moment /\ ValidMoment(m, Parent) /\ m.body.seal = d.seal
    BY <1>2, <1>3 DEF NewMoment, Moment, Decision, ValidMoment
<1> HIDE DEF m
<1>5. /\ longer \in Seq(Moment) /\ Len(longer) = Len(moments) + 1
      /\ longer[Len(moments) + 1] = m
      /\ \A i \in 1..Len(moments) : longer[i] = moments[i]
      /\ DOMAIN longer = 1..(Len(moments) + 1)
    BY <1>1, <1>4
<1>6. longer # <<>> /\ Last(longer) = m
    BY <1>1, <1>5 DEF Last
<1>7. Len(moments) # 0 => Parent = moments[Len(moments)].digest
    BY <1>1 DEF Parent, Last
<1>8. Len(moments) = 0 => Parent = Genesis
    BY <1>1 DEF Parent
<1> HIDE DEF longer
<1>9. ASSUME NEW i \in DOMAIN longer
      PROVE  ValidMoment(longer[i], IF i = 1 THEN Genesis ELSE longer[i - 1].digest)
    <2>1. CASE i = Len(moments) + 1
        <3>1. longer[i] = m
            BY <1>5, <2>1
        <3>2. Parent = IF i = 1 THEN Genesis ELSE longer[i - 1].digest
            <4>1. CASE Len(moments) = 0
                BY <1>8, <2>1, <4>1
            <4>2. CASE Len(moments) # 0
                <5>1. i # 1 /\ i - 1 = Len(moments) /\ Len(moments) \in 1..Len(moments)
                    BY <1>1, <2>1, <4>2
                <5> QED BY <1>5, <1>7, <4>2, <5>1
            <4> QED BY <4>1, <4>2
        <3> QED BY <1>4, <3>1, <3>2
    <2>2. CASE i \in 1..Len(moments)
        <3>1. ValidMoment(moments[i], IF i = 1 THEN Genesis ELSE moments[i - 1].digest)
            BY <1>1, <2>2 DEF IsLineage
        <3>2. longer[i] = moments[i] /\ (i # 1 => longer[i - 1] = moments[i - 1])
            BY <1>1, <1>5, <2>2
        <3> QED BY <3>1, <3>2
    <2> QED BY <1>1, <1>5, <1>9, <2>1, <2>2
<1>10. IsLineage(longer)
    BY <1>5, <1>9 DEF IsLineage
<1> QED BY <1>4, <1>6, <1>10 DEF longer, m

\* The cells a peer sends are cells of well-formed Moments.
LEMMA PeerCellTypes ==
    ASSUME NEW cell \in PeerCells
    PROVE  IsCell(cell) /\ cell.from = "peer" /\ cell.moments \in Seq(Moment)
<1>1. ASSUME NEW parent \in Digests PROVE <<PeerMoment(parent)>> \in Seq(Moment)
    <2>1. Append(parent, 1) \in Digests
        BY <1>1 DEF Digests
    <2>2. PeerMoment(parent) \in Moment
        BY <1>1, <2>1 DEF PeerMoment, Moment
    <2> HIDE DEF PeerMoment
    <2> QED BY <2>2
<1>2. <<>> \in Digests /\ <<0>> \in Digests
    BY DEF Digests
<1>3. <<PeerMoment(Genesis)>> \in Seq(Moment) /\ <<PeerMoment(<<0>>)>> \in Seq(Moment)
    BY <1>1, <1>2 DEF Genesis
<1> DEFINE held == <<PeerMoment(Genesis)>>
           other == <<PeerMoment(<<0>>)>>
<1>4. \/ cell = [moments |-> held, evidence |-> <<1>>, digest |-> <<held, <<1>>>>,
                 from |-> "peer"]
      \/ cell = [moments |-> held, evidence |-> <<>>, digest |-> <<held, <<1>>>>,
                 from |-> "peer"]
      \/ cell = [moments |-> other, evidence |-> <<1>>, digest |-> <<other, <<1>>>>,
                 from |-> "peer"]
    BY DEF PeerCells, PeerCell
<1>5. held \in Seq(Moment) /\ other \in Seq(Moment)
    BY <1>3
<1> HIDE DEF held, other
<1> QED BY <1>4, <1>5 DEF IsCell

\* The page before anything was captured.
LEMMA TheaterInitially == TheaterInit => TheaterInv
<1> SUFFICES ASSUME TheaterInit PROVE TheaterInv
    OBVIOUS
<1>1. IsLineage(moments)
    BY DEF TheaterInit, IsLineage
<1>2. IsCell(sealed) /\ ~aliased /\ SealedHereStaysBound
    BY DEF TheaterInit, NoCell, IsCell, SealedHereStaysBound
<1> QED BY <1>1, <1>2 DEF TheaterInit, TheaterInv, NoDecision, Decision

\* A step that commits nothing, seals nothing and forgets nothing.
LEMMA CellsUnchanged ==
    ASSUME TheaterInv, UNCHANGED cellVars,
           decision' \in Decision, snapshot' \in Nat,
           arriving' \subseteq arriving, sealing' \subseteq sealing
    PROVE  TheaterInv'
BY DEF TheaterInv, cellVars, IsLineage, ValidMoment, IsCell, SealedHereStaysBound,
    VerifiesReceived

\* A commit, automatic or by the button; the draft of a seal copies it.
LEMMA CommitKeeps ==
    ASSUME TheaterInv, Commits(NewMoment(snapshot', decision')),
           decision' \in Decision, decision'.moment, snapshot' \in Nat,
           UNCHANGED arriving,
           \/ UNCHANGED sealing
           \/ /\ decision'.seal
              /\ sealing' = sealing \cup {[draft |-> Draft(moments', evidence'), waits |-> TRUE]}
    PROVE  TheaterInv'
<1>1. /\ IsLineage(moments') /\ moments' # <<>>
      /\ Last(moments').body.seal = decision'.seal
    BY CommitLengthens DEF TheaterInv, Commits
<1>2. sealed' = NoCell /\ ~aliased'
    BY DEF Commits
<1>3. IsCell(sealed') /\ SealedHereStaysBound'
    BY <1>2 DEF NoCell, IsCell, SealedHereStaysBound
<1>4. \A s \in sealing' : ~s.draft.shares /\ IsSealable(s.draft.moments)
    BY <1>1 DEF TheaterInv, Draft, IsSealable
<1> HIDE DEF IsCell
<1> QED BY <1>1, <1>2, <1>3, <1>4 DEF TheaterInv

\* One frame's result.
LEMMA FrameResultKeeps ==
    ASSUME TheaterInv, NEW revision \in 0..MaxFrames, NEW d \in Decisions,
           NEW paused \in BOOLEAN, NEW same \in BOOLEAN,
           FrameResult(revision, d, paused, same)
    PROVE  TheaterInv'
<1>1. d \in Decision /\ revision \in Nat
    BY TheaterAssumption DEF Decisions, Decision, TheaterInv
<1>2. /\ decision' = d /\ snapshot' \in Nat
      /\ UNCHANGED arriving
    BY <1>1 DEF FrameResult, TheaterInv
<1>3. CASE CommitsByItself(d, snapshot', revision, paused, same)
    <2>1. d.moment
        BY <1>3 DEF CommitsByItself, CanCommitMoment
    <2> QED BY <1>1, <1>2, <1>3, <2>1, CommitKeeps DEF FrameResult
<1>4. CASE ~CommitsByItself(d, snapshot', revision, paused, same)
    <2>1. /\ sealed' = IF aliased THEN [sealed EXCEPT !.evidence = evidence'] ELSE sealed
          /\ UNCHANGED <<moments, aliased, sealing>>
        BY <1>4 DEF FrameResult
    <2>2. IsCell(sealed') /\ sealed'.from = sealed.from /\ (~aliased => sealed' = sealed)
        BY <2>1 DEF TheaterInv, IsCell
    <2>3. SealedHereStaysBound'
        BY <2>1, <2>2 DEF TheaterInv, SealedHereStaysBound, VerifiesReceived
    <2> QED BY <1>1, <1>2, <2>1, <2>2, <2>3 DEF TheaterInv
<1> QED BY <1>3, <1>4

\* The answers of the bridge, the cells of peers and a new kernel.
LEMMA AwaitedKeep ==
    ASSUME TheaterInv,
           \/ Seal
           \/ \E s \in sealing : SealAnswers(s)
           \/ \E cell \in PeerCells : FinalizeReceive(cell)
           \/ \E cell \in arriving : ReceivedVerifies(cell)
           \/ \E k \in resets : ResetLoaded(k)
    PROVE  TheaterInv'
<1>1. CASE Seal
    <2>1. IsSealable(moments)
        BY <1>1 DEF Seal, SealReady, TheaterInv, IsSealable
    <2>2. \A s \in sealing' : ~s.draft.shares /\ IsSealable(s.draft.moments)
        BY <1>1, <2>1 DEF Seal, TheaterInv, Draft
    <2> QED BY <1>1, <2>2 DEF Seal, TheaterInv, frameVars, resultVars, cellVars,
                SealedHereStaysBound, VerifiesReceived
<1>2. ASSUME NEW s \in sealing, SealAnswers(s) PROVE TheaterInv'
    <2>1. ~s.draft.shares /\ IsSealable(s.draft.moments)
        BY DEF TheaterInv
    <2>2. /\ sealed'.moments = s.draft.moments /\ sealed'.from = "page" /\ IsCell(sealed')
          /\ sealed'.digest = <<sealed'.moments, sealed'.evidence>>
        BY <1>2 DEF SealAnswers, IsCell
    <2>3. VerifiesReceived(sealed')
        BY <2>1, <2>2, SealableVerifies
    <2>4. SealedHereStaysBound'
        BY <2>3 DEF SealedHereStaysBound, VerifiesReceived
    <2> QED BY <1>2, <2>1, <2>2, <2>4 DEF SealAnswers, TheaterInv, frameVars, resultVars
<1>3. ASSUME NEW cell \in PeerCells, FinalizeReceive(cell) PROVE TheaterInv'
    <2>1. IsCell(cell) /\ cell.from = "peer" /\ cell.moments \in Seq(Moment)
        BY <1>3, PeerCellTypes
    <2>2. IsLineage(cell.moments)
        BY <1>3, <2>1 DEF FinalizeReceive, VerifiesReceived, IsLineage
    <2> QED BY <1>3, <2>1, <2>2 DEF FinalizeReceive, TheaterInv, frameVars, resultVars,
                cellVars, SealedHereStaysBound, VerifiesReceived
<1>4. ASSUME NEW cell \in arriving, ReceivedVerifies(cell) PROVE TheaterInv'
    <2>1. IsCell(cell) /\ cell.from = "peer" /\ IsLineage(cell.moments)
        BY DEF TheaterInv
    <2>2. SealedHereStaysBound'
        BY <1>4, <2>1 DEF ReceivedVerifies, SealedHereStaysBound
    <2> QED BY <1>4, <2>1, <2>2 DEF ReceivedVerifies, TheaterInv, frameVars
<1>5. ASSUME NEW k \in resets, ResetLoaded(k) PROVE TheaterInv'
    <2>1. IsLineage(moments') /\ IsCell(sealed') /\ ~aliased' /\ SealedHereStaysBound'
        BY <1>5 DEF ResetLoaded, IsLineage, IsCell, NoCell, SealedHereStaysBound
    <2> QED BY <1>5, <2>1 DEF ResetLoaded, TheaterInv, frameVars, NoDecision, Decision
<1> QED BY <1>1, <1>2, <1>3, <1>4, <1>5

\* Every step keeps the invariant.
LEMMA TheaterStep == TheaterInv /\ [TheaterNext]_theaterVars => TheaterInv'
<1> SUFFICES ASSUME TheaterInv, [TheaterNext]_theaterVars
             PROVE  TheaterInv'
    OBVIOUS
<1>1. decision \in Decision /\ snapshot \in Nat
    BY DEF TheaterInv
<1>2. CASE StartCamera \/ StopCamera \/ OnVideoFrame \/ FrameFails \/ IngestFrame
           \/ ShowMoment \/ Reset
    BY <1>1, <1>2, CellsUnchanged DEF StartCamera, StopCamera, OnVideoFrame, FrameFails,
        IngestFrame, ShowMoment, Reset, frameVars, resultVars
<1>3. ASSUME NEW same \in BOOLEAN, CommitMoment(same) PROVE TheaterInv'
    <2>1. decision.moment
        BY <1>3 DEF CommitMoment, CanCommitMoment
    <2>2. UNCHANGED <<decision, snapshot, sealing, arriving>>
        BY <1>3 DEF CommitMoment, frameVars, resultVars
    <2>3. Commits(NewMoment(snapshot', decision'))
        BY <1>3, <2>2 DEF CommitMoment
    <2> QED BY <1>1, <2>1, <2>2, <2>3, CommitKeeps
<1>4. ASSUME NEW s \in sealing, SealFails(s) PROVE TheaterInv'
    BY <1>1, <1>4, CellsUnchanged DEF SealFails, frameVars, resultVars
<1>5. ASSUME NEW cell \in arriving, ReceivedRejected(cell) PROVE TheaterInv'
    BY <1>1, <1>5, CellsUnchanged DEF ReceivedRejected, frameVars, resultVars
<1>6. ASSUME NEW k \in resets, ResetFails(k) PROVE TheaterInv'
    BY <1>1, <1>6, CellsUnchanged DEF ResetFails, frameVars, resultVars
<1>7. CASE UNCHANGED theaterVars
    BY <1>1, <1>7, CellsUnchanged DEF theaterVars, frameVars, resultVars
<1> QED BY <1>2, <1>3, <1>4, <1>5, <1>6, <1>7, FrameResultKeeps, AwaitedKeep
        DEF TheaterNext

\* The Moments of the page are one authorised lineage, whatever answers late.
THEOREM MomentsFormLineageHolds == TheaterSpec => []MomentsFormLineage
<1>1. TheaterInv => MomentsFormLineage
    BY DEF TheaterInv, IsLineage, MomentsFormLineage
<1> QED BY <1>1, TheaterInitially, TheaterStep, PTL DEF TheaterSpec

\* A cell that was sealed here stays what its digest was computed over.
THEOREM SealedHereStaysBoundHolds == TheaterSpec => []SealedHereStaysBound
<1>1. TheaterInv => SealedHereStaysBound
    BY DEF TheaterInv
<1> QED BY <1>1, TheaterInitially, TheaterStep, PTL DEF TheaterSpec
=============================================================================
