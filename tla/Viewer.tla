------------------------------- MODULE Viewer -------------------------------
(***************************************************************************)
(* main.ts: what the Origin page shows.  Files come from the picker, from a *)
(* drop, a handoff, the Personal Weave or the public Object Weave.  Every   *)
(* import awaits bytes, a verification, a scene or an index; the intake is  *)
(* not closed meanwhile, so that imports overlap and each installs itself   *)
(* over whatever is there when its promise is fulfilled.  A local file is   *)
(* indexed by a task that its closing cancels.  (OffThread models the task, *)
(* Publisher the publication, World the scene.)                             *)
(***************************************************************************)
EXTENDS Naturals, FiniteSets

CONSTANTS
    Files,          \* the files a person or the Object Weave may offer
    KindOf,         \* [Files -> Kinds], the handler that claims each of them
    Sound,          \* the files whose verification or parsing can succeed
    MaxImports,     \* bound: imports of one page
    NoFile         \* no file

Kinds == {"cinematic", "reconstruction", "locus", "geometry", "json", "other"}
Imports == 1..MaxImports

ASSUME ViewerAssumption ==
    /\ KindOf \in [Files -> Kinds] /\ Sound \subseteq Files
    /\ MaxImports \in Nat /\ NoFile \notin Files

VARIABLES
    boot,       \* "fetching", "verifying", "entering", "ready" or "failed"
    page,       \* the active construction: the globals of main.ts
    stage,      \* what the scene was last told to show
    imports,    \* the imports, each awaiting something
    index,      \* the index of each import's local file
    open,       \* activeLocalImport: the import whose file it is, or 0
    task,       \* activeLocalTask: the import whose index it is, or 0
    previous,   \* activeLocalImport.previousSource
    dialog,     \* the publish dialog and the construction that it shows
    publishing  \* the publication of publishActiveObject, awaiting something

viewerVars ==
    <<boot, page, stage, imports, index, open, task, previous, dialog, publishing>>

NoImport == [at |-> "unused", file |-> NoFile, entry |-> NoFile]
NoConstruction ==
    [source |-> "reference", cinematic |-> NoFile, imported |-> NoFile,
     locus |-> NoFile, geometry |-> NoFile, artifact |-> NoFile,
     entry |-> NoFile, report |-> NoFile]
NoDialog == [at |-> "closed", shown |-> NoFile]
NoPublication == [at |-> "none", file |-> NoFile, cell |-> NoFile, form |-> NoFile]

ViewerInit ==
    /\ boot = "fetching"
    /\ page = NoConstruction
    /\ stage = "reference"
    /\ imports = [i \in Imports |-> NoImport]
    /\ index = [i \in Imports |-> "none"]
    /\ open = 0 /\ task = 0
    /\ previous = "reference"
    /\ dialog = NoDialog
    /\ publishing = NoPublication

Begins(i, at, file, entry) ==
    imports' = [imports EXCEPT ![i] = [at |-> at, file |-> file, entry |-> entry]]
Moves(i, at) == imports' = [imports EXCEPT ![i].at = at]
Acts == boot \in {"entering", "ready"}    \* bindControls has run
\* showModal makes what is beneath the dialog inert, but for what is dropped on it.
Presses == Acts /\ dialog.at = "closed"

-----------------------------------------------------------------------------
(* The parts the handlers share.                                           *)

\* closeLocalFile: the task is cancelled, its promise rejected.
UncancelledIndex == index   \* fault: the task is forgotten, not cancelled
ClosedIndex ==
    IF task # 0 /\ index[task] = "running"
    THEN [index EXCEPT ![task] = "returned"] ELSE index
CloseLocalFile ==
    /\ index' = ClosedIndex
    /\ open' = 0 /\ task' = 0 /\ UNCHANGED previous

\* clearActiveConstruction, but for the local file it closes.
ClearedButImported ==   \* fault: importedArtifact stays
    [NoConstruction EXCEPT !.source = page.source, !.imported = page.imported]
Cleared == [NoConstruction EXCEPT !.source = page.source]

\* restoreReferenceOrigin.
RestoreReferenceOrigin ==
    /\ CloseLocalFile
    /\ page' = [Cleared EXCEPT !.source = "reference"]
    /\ stage' = "reference"

\* openFileBackedArtifact until it awaits the task.  A local file opened over
\* another one keeps what the first one hid.
OpenFileBackedArtifact(i, shown, hidden) ==
    /\ index' = [ClosedIndex EXCEPT ![i] = "running"]
    /\ open' = i /\ task' = i
    /\ previous' = hidden
    /\ page' = [shown EXCEPT !.source = "local-file"]
Hidden == IF open # 0 THEN previous ELSE page.source

\* The task settles: its state takes the identity or the error, if it is
\* still the open one.
IndexCompletes(i, indexed) ==
    /\ index[i] = "running"
    /\ index' = [index EXCEPT ![i] = IF open # i THEN "returned"
                                     ELSE IF indexed THEN "indexed" ELSE "error"]
    /\ task' = IF open = i THEN 0 ELSE task
    /\ UNCHANGED <<boot, page, stage, imports, open, previous, dialog, publishing>>

\* The first part of each import, up to its first await.
BeginCinematic(i, file, entry) ==
    /\ Begins(i, "verifying", file, entry)
    /\ OpenFileBackedArtifact(i, Cleared, "cinematic-loading")
    /\ stage' = "empty"
BeginVerification(i, file, entry) ==
    /\ Begins(i, "verifying", file, entry)
    /\ UNCHANGED <<page, stage, index, open, task, previous>>
BeginSourceGeometry(i, file) ==
    /\ Begins(i, "parsing", file, NoFile)
    /\ OpenFileBackedArtifact(i, Cleared, page.source)
    /\ UNCHANGED stage
BeginReading(i, file) ==
    /\ Begins(i, "reading", file, NoFile)
    /\ UNCHANGED <<page, stage, index, open, task, previous>>
BeginIndex(i, file) ==
    /\ Begins(i, "done", file, NoFile)
    /\ OpenFileBackedArtifact(i, page, Hidden)
    /\ UNCHANGED stage

\* The next import.
NextUnused(i) == imports[i] = NoImport /\ \A j \in 1..(i - 1) : imports[j] # NoImport

-----------------------------------------------------------------------------
(* Boot and the first construction.                                        *)

\* The five manifests are fetched together and have the right shape.
BootFetched ==
    /\ boot = "fetching" /\ boot' = "verifying"
    /\ UNCHANGED <<page, stage, imports, index, open, task, previous, dialog, publishing>>

\* The reference world and the validation Locus have verified: the scene is
\* there, the controls are bound and initializeObjectWeave begins.
BootVerified ==
    /\ boot = "verifying" /\ boot' = "entering"
    /\ UNCHANGED <<page, stage, imports, index, open, task, previous, dialog, publishing>>

BootRejected ==
    /\ boot \in {"fetching", "verifying"} /\ boot' = "failed"
    /\ UNCHANGED <<page, stage, imports, index, open, task, previous, dialog, publishing>>

\* The handler of a file by its kind.
RouteLocalFile(i, file) ==
    CASE KindOf[file] = "cinematic" -> BeginCinematic(i, file, NoFile)
      [] KindOf[file] = "geometry" -> BeginSourceGeometry(i, file)
      [] KindOf[file] = "other" -> BeginIndex(i, file)
      [] OTHER -> BeginReading(i, file)

\* routeLocalFiles: the picker, a drop; the intake is never closed to them.
RouteLocalFiles(i, file) ==
    /\ Acts /\ NextUnused(i)
    /\ RouteLocalFile(i, file)
    /\ UNCHANGED <<boot, dialog, publishing>>

\* loadPublicObject and openPersonalObject: the bytes are awaited.
BeginFetch(i, entry) ==
    /\ KindOf[entry] \in {"cinematic", "reconstruction"}
    /\ Begins(i, "fetching", NoFile, entry)
    /\ UNCHANGED <<page, stage, index, open, task, previous>>
LoadPublicObject(i, entry) ==
    /\ Presses /\ NextUnused(i)
    /\ BeginFetch(i, entry)
    /\ UNCHANGED <<boot, dialog, publishing>>

OpenPersonalObject(i, record) ==
    /\ Presses /\ NextUnused(i)
    /\ KindOf[record] \in {"cinematic", "reconstruction"}
    /\ Begins(i, "opening", record, NoFile)
    /\ UNCHANGED <<boot, page, stage, index, open, task, previous, dialog, publishing>>

\* The artifact must have the digest of its publication; its kind is the
\* entry's.
PublicObjectArrives(i, file) ==
    /\ imports[i].at = "fetching" /\ file = imports[i].entry
    /\ IF KindOf[file] = "reconstruction"
       THEN BeginVerification(i, file, file) ELSE BeginCinematic(i, file, file)
    /\ UNCHANGED <<boot, dialog, publishing>>

PersonalFileArrives(i) ==
    /\ imports[i].at = "opening"
    /\ IF KindOf[imports[i].file] = "reconstruction"
       THEN BeginVerification(i, imports[i].file, NoFile)
       ELSE BeginCinematic(i, imports[i].file, NoFile)
    /\ UNCHANGED <<boot, dialog, publishing>>

\* Unreachable, another digest, no such record.
BytesFail(i) ==
    /\ imports[i].at \in {"fetching", "opening", "reading"}
    /\ Moves(i, "done")
    /\ UNCHANGED <<boot, page, stage, index, open, task, previous, dialog, publishing>>

\* openValidationOrigin.
ShowValidation ==
    /\ CloseLocalFile
    /\ page' = [Cleared EXCEPT !.source = "validation"]
    /\ stage' = "validation"

OpenValidationOrigin ==
    /\ Presses
    /\ ShowValidation
    /\ UNCHANGED <<boot, imports, dialog, publishing>>

\* initializeObjectWeave, once the catalog and the handoff have answered: the
\* file handed over, the validation Locus, the object of the address or none.
EnterOrigin ==
    /\ boot = "entering" /\ boot' = "ready"
    /\ \/ \E i \in Imports, file \in Files :
            NextUnused(i) /\ (RouteLocalFile(i, file) \/ BeginFetch(i, file))
       \/ ShowValidation /\ UNCHANGED imports
       \/ UNCHANGED <<page, stage, imports, index, open, task, previous>>
    /\ UNCHANGED <<dialog, publishing>>

-----------------------------------------------------------------------------
(* Imports.                                                                *)

\* The text of a JSON file has been read: a native schema goes to its own
\* import, other JSON is a local file.
FileRead(i) ==
    /\ imports[i].at = "reading"
    /\ IF KindOf[imports[i].file] = "json"
       THEN BeginIndex(i, imports[i].file)
       ELSE BeginVerification(i, imports[i].file, NoFile)
    /\ UNCHANGED <<boot, dialog, publishing>>

\* importReconstructionFile after the verification, up to the one that its
\* showVerification awaits.
ReconstructionVerified(i) ==
    /\ imports[i].at = "verifying" /\ KindOf[imports[i].file] = "reconstruction"
    /\ imports[i].file \in Sound
    /\ Moves(i, "reporting")
    /\ CloseLocalFile
    /\ page' = [Cleared EXCEPT !.source = "imported", !.imported = imports[i].file,
                   !.artifact = imports[i].file, !.entry = imports[i].entry,
                   !.report = imports[i].file]
    /\ stage' = imports[i].file
    /\ UNCHANGED <<boot, dialog, publishing>>

\* Rejected, or the worker failed: what was active stays.
ReconstructionRejected(i) ==
    /\ imports[i].at = "verifying" /\ KindOf[imports[i].file] = "reconstruction"
    /\ Moves(i, "done")
    /\ UNCHANGED <<boot, page, stage, index, open, task, previous, dialog, publishing>>

\* The report showVerification asked for replaces the one that is there,
\* whatever was installed in between.
ReportAnswers(i) ==
    /\ imports[i].at = "reporting"
    /\ Moves(i, "done")
    /\ page' = [page EXCEPT !.report = imports[i].file]
    /\ UNCHANGED <<boot, stage, index, open, task, previous, dialog, publishing>>

LocusVerified(i) ==
    /\ imports[i].at = "verifying" /\ KindOf[imports[i].file] = "locus"
    /\ imports[i].file \in Sound
    /\ Moves(i, "done")
    /\ CloseLocalFile
    /\ page' = [Cleared EXCEPT !.source = "imported-validation",
                   !.locus = imports[i].file, !.artifact = imports[i].file]
    /\ stage' = imports[i].file
    /\ UNCHANGED <<boot, dialog, publishing>>

\* Rejected, or the worker failed: the reference Origin comes back.
LocusRejected(i) ==
    /\ imports[i].at = "verifying" /\ KindOf[imports[i].file] = "locus"
    /\ Moves(i, "done")
    /\ RestoreReferenceOrigin
    /\ UNCHANGED <<boot, dialog, publishing>>

\* importCinematicFile: the object is parsed and verified.
CinematicVerified(i) ==
    /\ imports[i].at = "verifying" /\ KindOf[imports[i].file] = "cinematic"
    /\ imports[i].file \in Sound
    /\ \E entry \in {imports[i].entry, imports[i].file} :
         imports' = [imports EXCEPT ![i].at = "loading", ![i].entry = entry]
    /\ page' = [page EXCEPT !.imported = NoFile, !.report = NoFile]
    /\ stage' = imports[i].file
    /\ UNCHANGED <<boot, index, open, task, previous, dialog, publishing>>

\* The visual is ready.
CinematicLoaded(i) ==
    /\ imports[i].at = "loading"
    /\ Moves(i, "joining")
    /\ page' = [page EXCEPT !.cinematic = imports[i].file, !.artifact = imports[i].file,
                            !.entry = imports[i].entry]
    /\ UNCHANGED <<boot, stage, index, open, task, previous, dialog, publishing>>

\* And the local file indexed, refused or closed.
CinematicIndexed(i) ==
    /\ imports[i].at = "joining" /\ index[i] # "running"
    /\ Moves(i, "done")
    /\ page' = [page EXCEPT !.source = "cinematic"]
    /\ UNCHANGED <<boot, stage, index, open, task, previous, dialog, publishing>>

\* The catch: the task of the moment is cancelled, whose ever it is.
CinematicFails(i) ==
    /\ \/ imports[i].at = "loading"
       \/ imports[i].at = "verifying" /\ KindOf[imports[i].file] = "cinematic"
    /\ Moves(i, "failing")
    /\ index' = ClosedIndex
    /\ UNCHANGED <<boot, page, stage, open, task, previous, dialog, publishing>>

CinematicFailed(i) ==
    /\ imports[i].at = "failing" /\ index[i] # "running"
    /\ Moves(i, "done")
    /\ RestoreReferenceOrigin
    /\ UNCHANGED <<boot, dialog, publishing>>

\* importSourceGeometry: parsing and index are both awaited.
GeometryParsed(i, parsed) ==
    /\ imports[i].at = "parsing" /\ (parsed => imports[i].file \in Sound)
    /\ Moves(i, IF parsed THEN "parsed" ELSE "unparsed")
    /\ UNCHANGED <<boot, page, stage, index, open, task, previous, dialog, publishing>>

\* The state that openFileBackedArtifact returned must hold an identity.
Identified(i) == index[i] = "indexed"

GeometryStaged(i) ==
    /\ imports[i].at = "parsed" /\ Identified(i)
    /\ Moves(i, "done")
    /\ page' = [Cleared EXCEPT !.source = "source-geometry", !.geometry = imports[i].file]
    /\ stage' = imports[i].file
    /\ UNCHANGED <<boot, index, open, task, previous, dialog, publishing>>

GeometryRejected(i) ==
    /\ imports[i].at \in {"parsed", "unparsed"} /\ index[i] # "running"
    /\ imports[i].at = "unparsed" \/ ~Identified(i)
    /\ Moves(i, "done")
    /\ UNCHANGED <<boot, page, stage, index, open, task, previous, dialog, publishing>>

-----------------------------------------------------------------------------
(* The buttons.                                                            *)

Constructed == {page.cinematic, page.geometry, page.locus, page.imported} # {NoFile}

\* closeLocalFile with what the file hid.
UncoverSource ==
    /\ open # 0
    /\ CloseLocalFile
    /\ page' = [page EXCEPT !.source = previous]
    /\ UNCHANGED stage

\* closePublishDialog aborts what is being sent; a publication that was accepted
\* goes on being kept and recorded.
HidePublishDialog ==
    /\ dialog' = NoDialog
    /\ publishing' = IF publishing.at = "sending" THEN NoPublication ELSE publishing

\* Escape closes a local file even over a construction, and the publish dialog.
Escape ==
    /\ Acts /\ (open # 0 \/ dialog.at # "closed")
    /\ IF open # 0 THEN UncoverSource
       ELSE UNCHANGED <<page, stage, index, open, task, previous>>
    /\ HidePublishDialog
    /\ UNCHANGED <<boot, imports>>

CloseLocal ==
    /\ Presses /\ (Constructed \/ open # 0)
    /\ IF Constructed THEN RestoreReferenceOrigin ELSE UncoverSource
    /\ UNCHANGED <<boot, imports, dialog, publishing>>

ResetOrigin ==
    /\ Presses
    /\ IF Constructed \/ (open = 0 /\ page.source = "validation")
       THEN RestoreReferenceOrigin ELSE UncoverSource
    /\ UNCHANGED <<boot, imports, dialog, publishing>>

\* activePublicationMetadata: the construction that the publish dialog would
\* describe.
Described ==
    IF page.cinematic # NoFile THEN page.cinematic ELSE page.imported

\* showVerification: what the verification dialog reports on.
Subject ==
    IF open # 0 /\ page.source = "local-file" THEN imports[open].file
    ELSE IF page.cinematic # NoFile THEN page.cinematic
    ELSE IF page.locus # NoFile THEN page.locus
    ELSE IF open # 0 THEN imports[open].file
    ELSE page.imported

\* openPublishDialog writes down what the construction of that moment is called
\* and which Cell it is; one that has an entry is shared instead.
OpenPublishDialog ==
    /\ Presses /\ page.entry = NoFile
    /\ page.artifact # NoFile /\ Described # NoFile
    /\ dialog' = [at |-> "open", shown |-> Described]
    /\ UNCHANGED <<boot, page, stage, imports, index, open, task, previous, publishing>>

\* publishConsent, which setPublishBusy disables while a publication runs.
Consent ==
    /\ dialog.at # "closed" /\ publishing = NoPublication
    /\ \E at \in {"open", "authorized"} \ {dialog.at} : dialog' = [dialog EXCEPT !.at = at]
    /\ UNCHANGED <<boot, page, stage, imports, index, open, task, previous, publishing>>

\* publishActiveObject takes the file, its Cell and its branch from the page at
\* the click, and the names from the form, as the dialog was opened (or its
\* owner changed them).
\* BOUND: one publication runs; a dialog opened anew waits for it.
PublishFile ==
    /\ dialog.at = "authorized" /\ publishing = NoPublication
    /\ page.artifact # NoFile /\ Described # NoFile
    /\ publishing' = [at |-> "sending", file |-> page.artifact, cell |-> Described,
                      form |-> dialog.shown]
    /\ UNCHANGED <<boot, page, stage, imports, index, open, task, previous, dialog>>

\* The receipt: the object is kept and marked, which no signal ends.
PublicationAccepted ==
    /\ publishing.at = "sending"
    /\ publishing' = [publishing EXCEPT !.at = "keeping"]
    /\ UNCHANGED <<boot, page, stage, imports, index, open, task, previous, dialog>>

\* Its entry becomes that of whatever is then active; the dialog stays open.
PublicationRecorded ==
    /\ publishing.at = "keeping"
    /\ publishing' = NoPublication
    /\ page' = [page EXCEPT !.entry = publishing.file]
    /\ UNCHANGED <<boot, stage, imports, index, open, task, previous, dialog>>

\* A rejection, or a device without room, leaves the dialog open too.
PublicationFails ==
    /\ publishing # NoPublication
    /\ publishing' = NoPublication
    /\ UNCHANGED <<boot, page, stage, imports, index, open, task, previous, dialog>>

ClosePublishDialog ==
    /\ dialog.at # "closed"
    /\ HidePublishDialog
    /\ UNCHANGED <<boot, page, stage, imports, index, open, task, previous>>

-----------------------------------------------------------------------------
ImportNext(i) ==
    \/ \E indexed \in BOOLEAN : IndexCompletes(i, indexed)
    \/ \E file \in Files : PublicObjectArrives(i, file)
    \/ PersonalFileArrives(i) \/ BytesFail(i) \/ FileRead(i)
    \/ ReconstructionVerified(i) \/ ReconstructionRejected(i) \/ ReportAnswers(i)
    \/ LocusVerified(i) \/ LocusRejected(i)
    \/ CinematicVerified(i) \/ CinematicLoaded(i) \/ CinematicIndexed(i)
    \/ CinematicFails(i) \/ CinematicFailed(i)
    \/ \E parsed \in BOOLEAN : GeometryParsed(i, parsed)
    \/ GeometryStaged(i) \/ GeometryRejected(i)

ViewerNext ==
    \/ BootFetched \/ BootVerified \/ BootRejected \/ EnterOrigin
    \/ \E i \in Imports, file \in Files :
         \/ RouteLocalFiles(i, file)
         \/ LoadPublicObject(i, file)
         \/ OpenPersonalObject(i, file)
    \/ \E i \in Imports : ImportNext(i)
    \/ OpenValidationOrigin \/ Escape \/ CloseLocal \/ ResetOrigin
    \/ OpenPublishDialog \/ Consent \/ PublishFile \/ ClosePublishDialog
    \/ PublicationAccepted \/ PublicationRecorded \/ PublicationFails

ViewerSpec == ViewerInit /\ [][ViewerNext]_viewerVars

-----------------------------------------------------------------------------
\* What is uploaded is the file of the construction whose Cell and branch are
\* recorded with it, and that construction is the one the page describes and,
\* unless a local file covers it, the one whose verification it shows, however
\* imports overlap (activePublicationMetadata reads the construction,
\* publishActiveObject uploads activeArtifactFile, showVerification goes by its
\* own order).
PublishesWhatItDescribes ==
    /\ Described # NoFile =>
          page.artifact = Described /\ (open = 0 => Subject = Described)
    /\ publishing.file = publishing.cell

\* "Local artifacts remain private unless their owner explicitly chooses PUBLISH
\* TO WEAVE and authorizes disclosure" (README.md): what is uploaded is what the
\* dialog showed to its owner, who authorized it.  An import that ends beneath
\* the open dialog puts another file under the description, the names and the
\* consent (openPublishDialog, publishActiveObject).
DisclosesWhatWasAuthorized == publishing.file = publishing.form

\* Only the open local file is being indexed, by the task that its closing
\* cancels: a file that was replaced or closed is not read on
\* (openFileBackedArtifact, closeLocalFile, activeLocalTask).
OnlyOpenFileIndexed ==
    \A i \in Imports : index[i] = "running" => open = i /\ task = i

=============================================================================
