-------------------------------- MODULE World --------------------------------
(***************************************************************************)
(* world.ts (TessarynWorld) with the trace drawer that main.ts opens from   *)
(* it.  The scene holds the reference world for ever and shows it, or what  *)
(* was loaded over it.  What is visible of a node is not computed from the  *)
(* state when a frame is drawn: it lies in the objects of the scene graph,  *)
(* and every method has to bring the flags of the nodes it affects up to    *)
(* date.  Nodes that are not attached keep the flags they had.  Geometry,   *)
(* colours, the camera and what is computed anew for every frame (the links *)
(* between nodes) are left out.                                             *)
(***************************************************************************)
EXTENDS Naturals, FiniteSets

CONSTANTS
    Cells,          \* the nodes of the reference world
    Observations,   \* the nodes of a temporal Locus
    Single,         \* the only node of a cinematic object or a capture
    Moments,        \* the Moments of the reference world and of a Locus
    MomentOf,       \* [Cells \cup Observations -> SUBSET Moments]
    Present,        \* "moment-c"
    Disputed,       \* the cells whose evidence is disputed
    Unspoken,       \* the cells that are restricted or have no summary
    SemanticOnly,   \* the cells whose meaning is not an ambient one
    Constrained,    \* whether the renderer is a software one
    Layers,         \* the inspection layers of the trace tabs
    Modes,          \* modes of the scale buttons: "object", "room", "site"
    Depths,         \* depths of the scale slider, in hundredths
    NoNode

VARIABLES
    kind,           \* what was loaded last
    hiding,         \* prepareCinematicLoad has hidden it
    at,             \* this.moment
    chronofold, evidenceOn,
    scaleMode, target,  \* scale, targetScaleDepth
    chosen, hovered,            \* selected and hovered
    layer, trace,               \* inspectionLayer, the trace drawer
    condensed,      \* the reference cells that have condensed
    boundary,       \* the nodes whose cell-boundary is visible
    meaning,        \* the nodes whose constellation is visible
    rootprint       \* the nodes whose rootprint-memory is visible

flagVars == <<boundary, meaning, rootprint>>
scaleVars == <<scaleMode, target>>
worldVars == <<kind, hiding, at, chronofold, evidenceOn, scaleVars, chosen,
               hovered, layer, trace, condensed, flagVars>>

\* this.nodes, as the last load left it.
NodesOf(k) ==
    CASE k = "reference" -> Cells
      [] k = "temporal" -> Observations
      [] k = "geometry" -> {}
      [] OTHER -> {Single}
Nodes == NodesOf(kind)
\* Depths of the scale slider, in hundredths.
Preset(mode) == CASE mode = "object" -> 0 [] mode = "room" -> 50 [] OTHER -> 100
\* The Moment a cinematic object opens at, one of its own.
Opening == "opening"
ModeOf(d) == IF d < 28 THEN "object" ELSE IF d > 74 THEN "site" ELSE "room"

-----------------------------------------------------------------------------
(* The flags.                                                              *)

\* updateCellTargets: the boundaries of the attached nodes.  (It returns
\* before them for a capture and a cinematic object.)
SelectedBounded(k, on, selection, pointed, fold, moment) ==
    \* fault: the selected node keeps its boundary
    CASE k = "reference" ->
           {c \in Cells : c = selection \/ (on /\ (c = pointed \/ c \in Disputed))}
      [] k = "temporal" -> {o \in Observations : o = selection \/ (on /\ fold)}
      [] OTHER -> boundary \cap NodesOf(k)
Detailed(c, fold, moment) ==
    ~Constrained \/ ~fold \/ moment \in MomentOf[c] \/ c \in Disputed
Bounded(k, on, selection, pointed, fold, moment) ==
    CASE k = "reference" ->
           {c \in Cells : /\ on /\ Detailed(c, fold, moment)
                          /\ c \in {selection, pointed} \/ c \in Disputed}
      [] k = "temporal" -> {o \in Observations : on /\ (o = selection \/ fold)}
      [] OTHER -> boundary \cap NodesOf(k)

\* updateMeaningFields.
Meant(k, on, selection, pointed) ==
    {n \in NodesOf(k) \ {Single} :
        on /\ n \notin Unspoken /\ n \in SemanticOnly \cup {selection, pointed}}

Refreshed(flags, k, fresh) == (flags \ NodesOf(k)) \cup fresh
UpdateMeaningFields(k, on, selection, pointed) ==
    meaning' = Refreshed(meaning, k, Meant(k, on, selection, pointed))
UpdateCellTargets(selection, fold, moment) ==
    /\ boundary' = Refreshed(boundary, kind,
                     Bounded(kind, evidenceOn, selection, hovered, fold, moment))
    /\ UpdateMeaningFields(kind, evidenceOn, selection, hovered)

\* setInspectionLayer: the rootprint of the selection in the lineage layer.
Rootprints(to, k, selection) ==
    Refreshed(rootprint, k,
              {n \in NodesOf(k) \cap Observations : to = "lineage" /\ n = selection})

\* A cell is shown by updateCellTargets only once it has condensed.
CondensedNodes(k) == IF k = "reference" THEN condensed ELSE NodesOf(k)

-----------------------------------------------------------------------------
(* The methods.                                                            *)

\* findVisibleArchive: the archive cell of the Moment, or none.
VisibleArchives(k, moment) ==
    LET seen == {c \in NodesOf(k) \cap Cells : moment \in MomentOf[c]} IN
    IF seen = {} THEN {NoNode} ELSE seen

\* The constructor: buildWorld, with every cell still to condense.
WorldInit ==
    /\ kind = "reference" /\ hiding = FALSE
    /\ at = Present
    /\ chronofold = FALSE /\ evidenceOn = TRUE
    /\ scaleMode = "object" /\ target = 0
    /\ chosen \in VisibleArchives("reference", Present) /\ hovered = NoNode
    /\ layer = "none" /\ trace = FALSE
    /\ condensed = {}
    /\ boundary = Bounded("reference", TRUE, chosen, NoNode, FALSE, Present)
    /\ meaning = Meant("reference", TRUE, chosen, NoNode)
    /\ rootprint = {}

\* The rail of Moments: populateMoments and populateTemporalMoments.
Rail == IF kind \in {"reference", "temporal"} THEN Moments ELSE {}

\* In a Locus the selection goes with the Moment, the inspection layer stays.
SetMoment(moment) ==
    /\ moment \in Rail
    /\ at' = moment
    /\ chosen' \in IF kind = "temporal"
                   THEN LET seen == {o \in Observations : moment \in MomentOf[o]}
                        IN IF seen = {} THEN {chosen} ELSE seen
                   ELSE {chosen}
    /\ UpdateCellTargets(chosen', chronofold, moment)
    /\ UNCHANGED <<kind, hiding, chronofold, evidenceOn, scaleVars, hovered,
                   layer, trace, condensed, rootprint>>

\* setScale: the mode and its depth.
Scaled(mode) == scaleMode' = mode /\ target' = Preset(mode)
SetScale(mode) ==
    /\ Scaled(mode)
    /\ UpdateCellTargets(chosen, chronofold, at)
    /\ UNCHANGED <<kind, hiding, at, chronofold, evidenceOn, chosen, hovered,
                   layer, trace, condensed, rootprint>>

\* setScaleDepth, by the slider and the wheel: the mode follows the depth.
SetScaleDepth(value) ==
    /\ target' = value
    /\ scaleMode' = ModeOf(value)
    /\ UNCHANGED <<kind, hiding, at, chronofold, evidenceOn, chosen, hovered,
                   layer, trace, condensed, flagVars>>

\* setInspectionLayer.
SetInspectionLayer(to) ==
    /\ layer' = to
    /\ rootprint' = Rootprints(to, kind, chosen)
    /\ UpdateMeaningFields(kind, evidenceOn, chosen, hovered)
    /\ UNCHANGED <<kind, hiding, at, chronofold, evidenceOn, scaleVars, chosen,
                   hovered, trace, condensed, boundary>>

\* The tabs can be reached while the trace is open; it is inert otherwise.
ActivateTraceTab(to) == trace /\ SetInspectionLayer(to)

\* openTrace: at the evidence tab, with the selection pulled to depth 0.
OpenTrace ==
    /\ trace' = TRUE /\ layer' = "state"
    /\ target' = 0 /\ scaleMode' = ModeOf(0)

\* closeTrace.
CloseTrace ==
    /\ trace' = FALSE /\ layer' = "none"
    /\ rootprint' = Rootprints("none", kind, chosen)
    /\ UpdateMeaningFields(kind, evidenceOn, chosen, hovered)
    /\ UNCHANGED <<kind, hiding, at, chronofold, evidenceOn, scaleVars, chosen,
                   hovered, condensed, boundary>>

\* setChronofold, by the button, which begins anew with every construction
\* that is opened, while the scene is still the old one.
SetChronofold ==
    /\ kind \in {"reference", "temporal", "cinematic"}
    /\ chronofold' \in BOOLEAN
    /\ UpdateCellTargets(chosen, chronofold', at)
    /\ UNCHANGED <<kind, hiding, at, evidenceOn, scaleVars, chosen, hovered, layer,
                   trace, condensed, rootprint>>

\* setEvidence, by the button: every boundary, the meaning, and then what
\* updateCellTargets makes of them.
SetEvidence ==
    /\ evidenceOn' = ~evidenceOn
    /\ boundary' = Refreshed(boundary, kind,
                     IF kind \in {"reference", "temporal"}
                     THEN Bounded(kind, evidenceOn', chosen, hovered, chronofold, at)
                     ELSE {n \in Nodes : evidenceOn'})
    /\ UpdateMeaningFields(kind, evidenceOn', chosen, hovered)
    /\ UNCHANGED <<kind, hiding, at, chronofold, scaleVars, chosen, hovered, layer,
                   trace, condensed, rootprint>>

\* selectCell, whose callback is openTrace.
SelectCell(node) ==
    /\ node \in CondensedNodes(kind)
    /\ chosen' = node
    /\ OpenTrace
    /\ UpdateCellTargets(node, chronofold, at)
    /\ rootprint' = Rootprints("state", kind, node)
    /\ UNCHANGED <<kind, hiding, at, chronofold, evidenceOn, hovered,
                   condensed>>

\* setHovered: boundaries wait for the next updateCellTargets.
SetHovered(node) ==
    /\ node \in CondensedNodes(kind) \cup {NoNode} /\ node # hovered
    /\ hovered' = node
    /\ UpdateMeaningFields(kind, evidenceOn, chosen, node)
    /\ UNCHANGED <<kind, hiding, at, chronofold, evidenceOn, scaleVars, chosen, layer,
                   trace, condensed, boundary, rootprint>>

\* reset, with the closeTrace after it.  (What main.ts does instead for most
\* constructions is LoadReferenceWorld.)
ResetView ==
    /\ chosen' = NoNode /\ Scaled("room")
    /\ at' = IF kind = "cinematic" THEN Opening ELSE at
    /\ trace' = FALSE /\ layer' = "none"
    /\ UpdateCellTargets(NoNode, chronofold, at)
    /\ rootprint' = Rootprints("none", kind, NoNode)
    /\ UNCHANGED <<kind, hiding, chronofold, evidenceOn, hovered, condensed>>

-----------------------------------------------------------------------------
(* Loading.  Where clearActiveConstruction comes right before, its          *)
(* closeTrace is part of the step: the meaning of the old nodes is brought  *)
(* up to date, then what was imported goes.                                 *)

\* disposeImportedRoot: what was imported is gone with its flags.
Disposed(flags) == flags \ (Observations \cup {Single})
ClosesTrace == trace' = FALSE /\ layer' = "none"
ClosedMeaning == Refreshed(meaning, kind, Meant(kind, evidenceOn, chosen, hovered))

\* restoreReferenceOrigin: loadReferenceWorld brings the nodes back with the
\* flags they left with, and evidence is switched on.
LoadReferenceWorld ==
    /\ ClosesTrace
    /\ kind' = "reference" /\ hiding' = FALSE
    /\ at' = Present /\ chronofold' = FALSE /\ evidenceOn' = TRUE
    /\ chosen' \in VisibleArchives("reference", Present) /\ hovered' = NoNode
    /\ Scaled("room")
    /\ boundary' = Refreshed(Disposed(boundary), "reference",
                     Bounded("reference", TRUE, chosen', NoNode, FALSE, Present))
    /\ meaning' = Refreshed(Disposed(meaning), "reference",
                     Meant("reference", TRUE, chosen', NoNode))
    /\ rootprint' = Disposed(rootprint)
    /\ UNCHANGED condensed

\* prepareCinematicLoad hides the roots; the nodes stay.
PrepareCinematicLoad ==
    /\ ClosesTrace
    /\ hiding' = TRUE
    /\ chosen' = NoNode /\ hovered' = NoNode
    /\ rootprint' = Rootprints("none", kind, chosen)
    /\ meaning' = ClosedMeaning
    /\ UNCHANGED <<kind, at, chronofold, evidenceOn, scaleVars, condensed, boundary>>

\* loadCinematicObject until it awaits the visual, which hides what is there.
\* Its first Moment is one of its own.
LoadCinematicObject ==
    /\ hiding
    /\ kind' = "cinematic" /\ hiding' = FALSE
    /\ chosen' = Single
    /\ at' = Opening /\ chronofold' = FALSE
    /\ Scaled("room")
    /\ boundary' = IF evidenceOn THEN Disposed(boundary) \cup {Single} ELSE Disposed(boundary)
    /\ meaning' = Disposed(meaning) /\ rootprint' = Disposed(rootprint)
    /\ UNCHANGED <<evidenceOn, hovered, layer, trace, condensed>>

\* loadSourceGeometry, once the file is parsed and indexed: no node at all.
LoadSourceGeometry ==
    /\ kind' = "geometry" /\ hiding' = FALSE
    /\ chosen' = NoNode /\ hovered' = NoNode
    /\ chronofold' = FALSE /\ Scaled("room")
    /\ boundary' = Disposed(boundary) /\ meaning' = Disposed(meaning)
    /\ rootprint' = Disposed(rootprint)
    /\ UNCHANGED <<at, evidenceOn, layer, trace, condensed>>

\* loadSurfelObservation: the boundary of the capture is built visible,
\* whether evidence is shown or not, and its trace opens.
LoadSurfelObservation ==
    /\ kind' = "surfel" /\ hiding' = FALSE
    /\ chosen' = Single /\ chronofold' = FALSE
    /\ OpenTrace
    /\ boundary' = Disposed(boundary) \cup {Single}
    /\ meaning' = Disposed(ClosedMeaning) /\ rootprint' = Disposed(rootprint)
    /\ UNCHANGED <<at, evidenceOn, hovered, condensed>>

\* loadTemporalObservations, from a file or as the validation origin, which
\* switches evidence on; main.ts then goes to the present Moment.
LoadTemporalObservations(on) ==
    /\ ClosesTrace
    /\ kind' = "temporal" /\ hiding' = FALSE
    /\ at' = Present /\ chronofold' = FALSE /\ evidenceOn' = on
    /\ chosen' \in {o \in Observations : Present \in MomentOf[o]}
    /\ Scaled("room")
    /\ boundary' = Disposed(boundary)
                     \cup Bounded("temporal", on, chosen', hovered, FALSE, Present)
    /\ meaning' = Disposed(ClosedMeaning) \cup Meant("temporal", on, chosen', hovered)
    /\ rootprint' = Disposed(rootprint)
    /\ UNCHANGED <<hovered, condensed>>
LoadImportedLocus == LoadTemporalObservations(evidenceOn)
LoadValidationLocus == LoadTemporalObservations(TRUE)

-----------------------------------------------------------------------------
(* Frames.                                                                 *)

\* animate: the next cell of the reference world condenses, while it is there.
Condense(c) ==
    /\ kind = "reference" /\ c \notin condensed
    /\ condensed' = condensed \cup {c}
    /\ UpdateCellTargets(chosen, chronofold, at)
    /\ UNCHANGED <<kind, hiding, at, chronofold, evidenceOn, scaleVars, chosen,
                   hovered, layer, trace, rootprint>>

\* updateScaleBreathing: on its way to the target the depth brings the flags
\* up to date.
Breathe ==
    /\ UpdateCellTargets(chosen, chronofold, at)
    /\ UNCHANGED <<kind, hiding, at, chronofold, evidenceOn, scaleVars, chosen,
                   hovered, layer, trace, condensed, rootprint>>

WorldNext ==
    \/ \E moment \in Moments : SetMoment(moment)
    \/ \E mode \in Modes : SetScale(mode)
    \/ \E value \in Depths : SetScaleDepth(value)
    \/ \E to \in Layers : ActivateTraceTab(to)
    \/ CloseTrace \/ SetChronofold \/ SetEvidence \/ ResetView
    \/ \E node \in Nodes : SelectCell(node)
    \/ \E node \in Nodes \cup {NoNode} : SetHovered(node)
    \/ LoadReferenceWorld \/ PrepareCinematicLoad \/ LoadCinematicObject
    \/ LoadSourceGeometry \/ LoadSurfelObservation
    \/ LoadImportedLocus \/ LoadValidationLocus
    \/ \E c \in Cells : Condense(c)
    \/ Breathe

WorldSpec == WorldInit /\ [][WorldNext]_worldVars

-----------------------------------------------------------------------------
\* With evidence off no boundary and no meaning of what is shown is visible,
\* whatever was selected, hovered, folded, loaded and brought back since
\* (setEvidence, updateCellTargets, updateMeaningFields, loadReferenceWorld).
\* A capture is the exception: its boundary is built visible.
EvidenceOffHidesEvidence ==
    ~evidenceOn =>
        /\ kind # "surfel" => boundary \cap Nodes = {}
        /\ meaning \cap Nodes = {}
=============================================================================
