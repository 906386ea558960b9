----------------------------- MODULE PageProofs -----------------------------
(***************************************************************************)
(* The Origin page, for any number of files, imports, nodes, releases,      *)
(* edited fields and branches: what it publishes, what it goes on reading   *)
(* (Viewer), what its scene shows when evidence is off (World), what is     *)
(* served while it is offline (ServiceWorker), and what it accepts of the   *)
(* documents and graphs it is given (Verification, Lineage).               *)
(***************************************************************************)
EXTENDS Viewer, World, ServiceWorker, Verification, Lineage, FiniteSetTheorems,
        WellFoundedInduction, TLAPS

-----------------------------------------------------------------------------
(* Imports and the scene *)

\* A construction is the artifact that would be published: a cinematic object,
\* or a capture while there is none, which leaves no room for a Locus.
Coherent(p) ==
    /\ p.cinematic # NoFile => p.artifact = p.cinematic
    /\ p.cinematic = NoFile /\ p.imported # NoFile =>
          p.artifact = p.imported /\ p.locus = NoFile

Pages == [source : {"reference", "cinematic-loading", "local-file", "validation",
                    "imported", "imported-validation", "cinematic", "source-geometry"},
          cinematic : Files \cup {NoFile}, imported : Files \cup {NoFile},
          locus : Files \cup {NoFile}, geometry : Files \cup {NoFile},
          artifact : Files \cup {NoFile}, entry : Files \cup {NoFile},
          report : Files \cup {NoFile}]

Awaits == {"unused", "fetching", "opening", "reading", "verifying", "reporting",
           "loading", "joining", "failing", "parsing", "parsed", "unparsed", "done"}
Indexes == {"none", "running", "returned", "indexed", "error"}

\* An object that was verified has a file.
ImportTypes ==
    /\ imports \in [Imports -> [at : Awaits, file : Files \cup {NoFile},
                                entry : Files \cup {NoFile}]]
    /\ \A i \in Imports : imports[i].at = "loading" => imports[i].file \in Files

\* The dialog and the publication; the Cell of a publication is its file's.
Publications == [at : {"none", "sending", "keeping"}, file : Files \cup {NoFile},
                 cell : Files \cup {NoFile}, form : Files \cup {NoFile}]
PublicationInv ==
    /\ dialog \in [at : {"closed", "open", "authorized"}, shown : Files \cup {NoFile}]
    /\ publishing \in Publications
    /\ publishing.file = publishing.cell

ViewerTypes ==
    /\ page \in Pages
    /\ ImportTypes
    /\ index \in [Imports -> Indexes]
    /\ open \in Imports \cup {0} /\ task \in Imports \cup {0}
    /\ previous \in {p.source : p \in Pages}
    /\ PublicationInv

ViewerInv == ViewerTypes /\ Coherent(page) /\ OnlyOpenFileIndexed

-----------------------------------------------------------------------------
\* Whatever closes the local file leaves no index running.
LEMMA ClosingCancels ==
    ASSUME ViewerInv
    PROVE  /\ ClosedIndex \in [Imports -> Indexes]
           /\ \A i \in Imports : ClosedIndex[i] # "running"
BY DEF ViewerInv, ViewerTypes, ClosedIndex, OnlyOpenFileIndexed, Indexes, Imports

\* Closing the local file leaves no index running.
LEMMA ClosedIsKept ==
    ASSUME ViewerInv, CloseLocalFile
    PROVE  /\ index' \in [Imports -> Indexes] /\ open' = 0 /\ task' = 0
           /\ previous' = previous /\ OnlyOpenFileIndexed'
BY ClosingCancels DEF CloseLocalFile, OnlyOpenFileIndexed

\* Opening a file closes the one before it: only the new one is indexed.
LEMMA OpenedIsIndexed ==
    ASSUME ViewerInv, NEW i \in Imports, NEW shown, NEW hidden,
           OpenFileBackedArtifact(i, shown, hidden)
    PROVE  /\ index' \in [Imports -> Indexes] /\ open' = i /\ task' = i
           /\ previous' = hidden /\ OnlyOpenFileIndexed'
BY ClosingCancels DEF OpenFileBackedArtifact, OnlyOpenFileIndexed, Indexes

\* The pages that handlers install.
LEMMA InstalledPages ==
    ASSUME ViewerInv, NEW f \in Files \cup {NoFile}, NEW e \in Files \cup {NoFile}
    PROVE  /\ Cleared \in Pages /\ Coherent(Cleared)
           /\ \A s \in {"reference", "local-file", "validation"} :
                 /\ [Cleared EXCEPT !.source = s] \in Pages
                 /\ Coherent([Cleared EXCEPT !.source = s])
           /\ \A s \in {"local-file", "cinematic", previous} :
                 /\ [page EXCEPT !.source = s] \in Pages
                 /\ Coherent([page EXCEPT !.source = s])
           /\ [page EXCEPT !.report = f] \in Pages /\ Coherent([page EXCEPT !.report = f])
           /\ [page EXCEPT !.entry = e] \in Pages /\ Coherent([page EXCEPT !.entry = e])
<1>1. page \in Pages /\ Coherent(page) /\ previous \in {p.source : p \in Pages}
    BY DEF ViewerInv, ViewerTypes
<1>2. Cleared \in Pages /\ Coherent(Cleared)
    BY <1>1 DEF Cleared, NoConstruction, Pages, Coherent
<1>3. \A p \in Pages, s \in {"reference", "local-file", "validation", "cinematic", previous} :
         Coherent(p) => [p EXCEPT !.source = s] \in Pages /\ Coherent([p EXCEPT !.source = s])
    BY <1>1 DEF Pages, Coherent
<1>4. [page EXCEPT !.report = f] \in Pages /\ Coherent([page EXCEPT !.report = f])
    BY <1>1 DEF Pages, Coherent
<1>5. [page EXCEPT !.entry = e] \in Pages /\ Coherent([page EXCEPT !.entry = e])
    BY <1>1 DEF Pages, Coherent
<1> QED BY <1>1, <1>2, <1>3, <1>4, <1>5

\* An import that begins installs nothing; it may clear what is there.
LEMMA BeginningKeeps ==
    ASSUME ViewerInv, NEW i \in Imports, NEW file \in Files \cup {NoFile},
           NEW entry \in Files \cup {NoFile}, UNCHANGED <<dialog, publishing>>,
           \/ BeginCinematic(i, file, entry) \/ BeginVerification(i, file, entry)
           \/ BeginSourceGeometry(i, file) \/ BeginReading(i, file) \/ BeginIndex(i, file)
           \/ BeginFetch(i, file)
    PROVE  ViewerInv'
<1>0. PublicationInv'
    BY DEF PublicationInv, ViewerInv, ViewerTypes
<1>1. ImportTypes
    BY DEF ImportTypes, ViewerInv, ViewerTypes
<1>2. page \in Pages /\ Hidden \in {p.source : p \in Pages}
      /\ page.source \in {p.source : p \in Pages}
    BY DEF Hidden, ViewerInv, ViewerTypes
<1>3. "cinematic-loading" \in {p.source : p \in Pages}
    <2>1. [page EXCEPT !.source = "cinematic-loading"] \in Pages
        BY <1>2 DEF Pages
    <2>2. [page EXCEPT !.source = "cinematic-loading"].source = "cinematic-loading"
        BY <1>2 DEF Pages
    <2> QED BY <1>0, <2>1, <2>2
<1>4. CASE BeginCinematic(i, file, entry)
    <2>1. page' = [Cleared EXCEPT !.source = "local-file"]
        BY <1>4 DEF BeginCinematic, OpenFileBackedArtifact
    <2>2. ImportTypes'
        BY <1>1, <1>4 DEF BeginCinematic, Begins, ImportTypes, Awaits
    <2>3. page' \in Pages /\ Coherent(page')
        BY <2>1, InstalledPages
    <2> QED BY <1>0, <1>3, <1>4, <2>2, <2>3, OpenedIsIndexed
            DEF BeginCinematic, ViewerInv, ViewerTypes, ImportTypes
<1>5. CASE BeginVerification(i, file, entry)
    <2>1. ImportTypes'
        BY <1>1, <1>5 DEF BeginVerification, Begins, ImportTypes, Awaits
    <2> QED BY <1>0, <1>5, <2>1 DEF BeginVerification, ViewerInv, ViewerTypes, ImportTypes,
            OnlyOpenFileIndexed
<1>6. CASE BeginSourceGeometry(i, file)
    <2>1. page' = [Cleared EXCEPT !.source = "local-file"]
        BY <1>6 DEF BeginSourceGeometry, OpenFileBackedArtifact
    <2>2. ImportTypes'
        BY <1>1, <1>6 DEF BeginSourceGeometry, Begins, ImportTypes, Awaits
    <2>3. page' \in Pages /\ Coherent(page')
        BY <2>1, InstalledPages
    <2> QED BY <1>0, <1>2, <1>6, <2>2, <2>3, OpenedIsIndexed
            DEF BeginSourceGeometry, ViewerInv, ViewerTypes, ImportTypes
<1>7. CASE BeginReading(i, file)
    <2>1. ImportTypes'
        BY <1>1, <1>7 DEF BeginReading, Begins, ImportTypes, Awaits
    <2> QED BY <1>0, <1>7, <2>1 DEF BeginReading, ViewerInv, ViewerTypes, ImportTypes,
            OnlyOpenFileIndexed
<1>8. CASE BeginIndex(i, file)
    <2>1. page' = [page EXCEPT !.source = "local-file"]
        BY <1>8 DEF BeginIndex, OpenFileBackedArtifact
    <2>2. ImportTypes'
        BY <1>1, <1>8 DEF BeginIndex, Begins, ImportTypes, Awaits
    <2>3. page' \in Pages /\ Coherent(page')
        BY <2>1, InstalledPages
    <2> QED BY <1>0, <1>2, <1>8, <2>2, <2>3, OpenedIsIndexed
            DEF BeginIndex, ViewerInv, ViewerTypes, ImportTypes
<1>9. CASE BeginFetch(i, file)
    <2>1. ImportTypes'
        BY <1>1, <1>9 DEF BeginFetch, Begins, ImportTypes, Awaits
    <2> QED BY <1>0, <1>9, <2>1 DEF BeginFetch, ViewerInv, ViewerTypes, ImportTypes,
            OnlyOpenFileIndexed
<1> QED BY <1>4, <1>5, <1>6, <1>7, <1>8, <1>9

\* What an import does to its own entry.
LEMMA MovingKeeps ==
    ASSUME ViewerInv, NEW i \in Imports, NEW next \in Awaits \ {"loading"}, Moves(i, next)
    PROVE  ImportTypes'
BY DEF Moves, ImportTypes, ViewerInv, ViewerTypes

\* Steps that leave the local file and its index alone.
LEMMA PageStep ==
    ASSUME ViewerInv, ImportTypes', page' \in Pages, Coherent(page'),
           PublicationInv', UNCHANGED <<index, open, task, previous>>
    PROVE  ViewerInv'
BY DEF ViewerInv, ViewerTypes, ImportTypes, OnlyOpenFileIndexed

\* Steps that close the local file.
LEMMA ClosingStep ==
    ASSUME ViewerInv, ImportTypes', page' \in Pages, Coherent(page'),
           PublicationInv', CloseLocalFile
    PROVE  ViewerInv'
BY ClosedIsKept DEF ViewerInv, ViewerTypes, ImportTypes

-----------------------------------------------------------------------------
\* The steps of one import: what it installs is described and published
\* together, whatever other imports installed meanwhile.
LEMMA ImportStep ==
    ASSUME ViewerInv, NEW i \in Imports, ImportNext(i)
    PROVE  ViewerInv'
<1>p. PublicationInv'
    <2>1. UNCHANGED <<dialog, publishing>>
        BY DEF ImportNext, IndexCompletes, PublicObjectArrives, PersonalFileArrives,
            BytesFail, FileRead, ReconstructionVerified, ReconstructionRejected,
            ReportAnswers, LocusVerified, LocusRejected, CinematicVerified,
            CinematicLoaded, CinematicIndexed, CinematicFails, CinematicFailed,
            GeometryParsed, GeometryStaged, GeometryRejected
    <2> QED BY <2>1 DEF PublicationInv, ViewerInv, ViewerTypes
<1>0. /\ page \in Pages /\ Coherent(page)
      /\ imports[i].file \in Files \cup {NoFile} /\ imports[i].entry \in Files \cup {NoFile}
      /\ ImportTypes
    BY DEF ViewerInv, ViewerTypes, ImportTypes
<1> USE DEF Awaits
<1> DEFINE Rest == UNCHANGED <<page, index, open, task, previous>>
<1>a. ASSUME NEW next \in Awaits \ {"loading"}, Moves(i, next), Rest PROVE ViewerInv'
    BY <1>p, <1>0, <1>a, MovingKeeps, PageStep
<1>1. ASSUME NEW indexed \in BOOLEAN, IndexCompletes(i, indexed) PROVE ViewerInv'
    <2>0. index \in [Imports -> Indexes]
        BY DEF ViewerInv, ViewerTypes
    <2>1. /\ index' \in [Imports -> Indexes] /\ index'[i] # "running"
          /\ \A j \in Imports \ {i} : index'[j] = index[j]
          /\ task' \in {0, task} /\ (open # i => task' = task)
        BY <1>1, <2>0 DEF IndexCompletes, Indexes
    <2>2. OnlyOpenFileIndexed'
        BY <1>1, <2>1 DEF IndexCompletes, ViewerInv, OnlyOpenFileIndexed
    <2> QED BY <1>p, <1>1, <2>1, <2>2 DEF IndexCompletes, ViewerInv, ViewerTypes, ImportTypes
<1>2. ASSUME NEW file \in Files, PublicObjectArrives(i, file) PROVE ViewerInv'
    BY <1>2, BeginningKeeps DEF PublicObjectArrives
<1>3. CASE PersonalFileArrives(i)
    BY <1>0, <1>3, BeginningKeeps DEF PersonalFileArrives
<1>4. CASE BytesFail(i)
    BY <1>4, <1>a DEF BytesFail
<1>5. CASE FileRead(i)
    BY <1>0, <1>5, BeginningKeeps DEF FileRead
<1>6. CASE ReconstructionVerified(i)
    <2>1. page' \in Pages
        BY <1>0, <1>6 DEF ReconstructionVerified, Pages, Cleared, NoConstruction
    <2>2. /\ page'.cinematic = NoFile /\ page'.locus = NoFile
          /\ page'.imported = page'.artifact
        BY <1>6 DEF ReconstructionVerified, Cleared, NoConstruction
    <2> QED BY <1>p, <1>0, <1>6, <2>1, <2>2, MovingKeeps, ClosingStep
            DEF ReconstructionVerified, Coherent
<1>7. CASE ReconstructionRejected(i)
    BY <1>7, <1>a DEF ReconstructionRejected
<1>8. CASE ReportAnswers(i)
    <2>1. page' \in Pages /\ Coherent(page')
        BY <1>0, <1>8, InstalledPages DEF ReportAnswers
    <2> QED BY <1>p, <1>0, <1>8, <2>1, MovingKeeps, PageStep DEF ReportAnswers
<1>9. CASE LocusVerified(i)
    <2>1. page' \in Pages
        BY <1>0, <1>9 DEF LocusVerified, Pages, Cleared, NoConstruction
    <2>2. page'.cinematic = NoFile /\ page'.imported = NoFile
        BY <1>9 DEF LocusVerified, Cleared, NoConstruction
    <2> QED BY <1>p, <1>0, <1>9, <2>1, <2>2, MovingKeeps, ClosingStep
            DEF LocusVerified, Coherent
<1>10. CASE LocusRejected(i)
    <2>1. page' \in Pages /\ Coherent(page') /\ CloseLocalFile
        BY <1>10, InstalledPages DEF LocusRejected, RestoreReferenceOrigin
    <2> QED BY <1>p, <1>0, <1>10, <2>1, MovingKeeps, ClosingStep DEF LocusRejected
<1>11. CASE CinematicVerified(i)
    <2>1. PICK entry \in {imports[i].entry, imports[i].file} :
             imports' = [imports EXCEPT ![i].at = "loading", ![i].entry = entry]
        BY <1>11 DEF CinematicVerified
    <2>2. ImportTypes'
        <3>1. entry \in Files \cup {NoFile} /\ imports[i].file \in Files
            BY <1>0, <1>11, ViewerAssumption DEF CinematicVerified
        <3> QED BY <1>0, <2>1, <3>1 DEF ImportTypes
    <2>3. page' \in Pages /\ Coherent(page')
        BY <1>0, <1>11 DEF CinematicVerified, Pages, Coherent
    <2> QED BY <1>p, <1>0, <1>11, <2>2, <2>3, PageStep DEF CinematicVerified
<1>12. CASE CinematicLoaded(i)
    <2>1. page' \in Pages
        BY <1>0, <1>12 DEF CinematicLoaded, Pages
    <2>2. page'.artifact = imports[i].file /\ page'.cinematic = imports[i].file
        BY <1>0, <1>12 DEF CinematicLoaded, Pages
    <2>3. imports[i].file # NoFile
        BY <1>0, <1>12, ViewerAssumption DEF CinematicLoaded, ImportTypes
    <2> QED BY <1>p, <1>0, <1>12, <2>1, <2>2, <2>3, MovingKeeps, PageStep
            DEF CinematicLoaded, Coherent
<1>13. CASE CinematicIndexed(i)
    <2>1. page' \in Pages /\ Coherent(page')
        BY <1>0, <1>13, InstalledPages DEF CinematicIndexed
    <2> QED BY <1>p, <1>0, <1>13, <2>1, MovingKeeps, PageStep DEF CinematicIndexed
<1>14. CASE CinematicFails(i)
    <2>1. ImportTypes'
        BY <1>14, MovingKeeps DEF CinematicFails
    <2>2. index' \in [Imports -> Indexes] /\ OnlyOpenFileIndexed'
        BY <1>14, ClosingCancels DEF CinematicFails, OnlyOpenFileIndexed
    <2> QED BY <1>p, <1>14, <2>1, <2>2 DEF CinematicFails, ViewerInv, ViewerTypes, ImportTypes
<1>15. CASE CinematicFailed(i)
    <2>1. page' \in Pages /\ Coherent(page') /\ CloseLocalFile
        BY <1>15, InstalledPages DEF CinematicFailed, RestoreReferenceOrigin
    <2> QED BY <1>p, <1>0, <1>15, <2>1, MovingKeeps, ClosingStep DEF CinematicFailed
<1>16. ASSUME NEW parsed \in BOOLEAN, GeometryParsed(i, parsed) PROVE ViewerInv'
    BY <1>16, <1>a DEF GeometryParsed
<1>17. CASE GeometryStaged(i)
    <2>1. page' \in Pages /\ Coherent(page')
        BY <1>0, <1>17 DEF GeometryStaged, Pages, Coherent, Cleared, NoConstruction
    <2> QED BY <1>p, <1>0, <1>17, <2>1, MovingKeeps, PageStep DEF GeometryStaged
<1>18. CASE GeometryRejected(i)
    BY <1>18, <1>a DEF GeometryRejected
<1> QED BY <1>1, <1>2, <1>3, <1>4, <1>5, <1>6, <1>7, <1>8, <1>9, <1>10, <1>11, <1>12,
        <1>13, <1>14, <1>15, <1>16, <1>17, <1>18 DEF ImportNext

\* The page when it opens, and its buttons.
LEMMA ViewerInitially == ViewerInit => ViewerInv
BY DEF ViewerInit, ViewerInv, ViewerTypes, ImportTypes, Awaits, Indexes, Pages, Coherent,
    NoConstruction, NoImport, OnlyOpenFileIndexed, PublicationInv, Publications, NoDialog,
    NoPublication

\* The buttons that close the local file and show the reference world.
LEMMA ClosingToReference ==
    ASSUME ViewerInv, RestoreReferenceOrigin \/ ShowValidation \/ UncoverSource,
           imports' = imports, PublicationInv'
    PROVE  ViewerInv'
<1>1. page' \in Pages /\ Coherent(page') /\ CloseLocalFile
    BY InstalledPages DEF RestoreReferenceOrigin, ShowValidation, UncoverSource
<1> QED BY <1>1, ClosingStep DEF ViewerInv, ViewerTypes, ImportTypes

\* Every handler of the page keeps the invariant.
LEMMA ViewerStep == ViewerInv /\ [ViewerNext]_viewerVars => ViewerInv'
<1> SUFFICES ASSUME ViewerInv, [ViewerNext]_viewerVars PROVE ViewerInv'
    OBVIOUS
<1>0. PublicationInv /\ page \in Pages /\ Coherent(page) /\ ImportTypes
    BY DEF ViewerInv, ViewerTypes
<1>u. ASSUME UNCHANGED <<dialog, publishing>> PROVE PublicationInv'
    BY <1>0, <1>u DEF PublicationInv
<1>1. ASSUME UNCHANGED <<page, imports, index, open, task, previous>>, PublicationInv'
      PROVE  ViewerInv'
    BY <1>1 DEF ViewerInv, ViewerTypes, ImportTypes, OnlyOpenFileIndexed
<1>2. CASE BootFetched \/ BootVerified \/ BootRejected
    BY <1>u, <1>1, <1>2 DEF BootFetched, BootVerified, BootRejected
<1>3. ASSUME NEW i \in Imports, NEW file \in Files, UNCHANGED <<dialog, publishing>>,
             RouteLocalFile(i, file) \/ BeginFetch(i, file)
      PROVE  ViewerInv'
    BY <1>3, BeginningKeeps DEF RouteLocalFile
<1>4. CASE EnterOrigin
    <2>0. PublicationInv'
        BY <1>u, <1>4 DEF EnterOrigin
    <2>1. CASE \E i \in Imports, file \in Files :
                  NextUnused(i) /\ (RouteLocalFile(i, file) \/ BeginFetch(i, file))
        BY <1>3, <1>4, <2>1 DEF EnterOrigin
    <2>2. CASE ShowValidation /\ UNCHANGED imports
        BY <2>0, <2>2, ClosingToReference
    <2>3. CASE UNCHANGED <<page, stage, imports, index, open, task, previous>>
        BY <1>1, <2>0, <2>3
    <2> QED BY <1>4, <2>1, <2>2, <2>3 DEF EnterOrigin
<1>5. ASSUME NEW i \in Imports, NEW file \in Files,
             RouteLocalFiles(i, file) \/ LoadPublicObject(i, file)
      PROVE  ViewerInv'
    BY <1>3, <1>5 DEF RouteLocalFiles, LoadPublicObject
<1>6. ASSUME NEW i \in Imports, NEW file \in Files, OpenPersonalObject(i, file)
      PROVE  ViewerInv'
    <2>1. PublicationInv'
        BY <1>u, <1>6 DEF OpenPersonalObject
    <2> QED BY <1>6, <2>1 DEF OpenPersonalObject, Begins, ViewerInv, ViewerTypes,
            ImportTypes, Awaits, OnlyOpenFileIndexed
<1>7. CASE \E i \in Imports : ImportNext(i)
    BY <1>7, ImportStep
<1>h. ASSUME HidePublishDialog PROVE PublicationInv'
    BY <1>0, <1>h DEF HidePublishDialog, PublicationInv, Publications, NoDialog, NoPublication
<1>8. CASE OpenValidationOrigin \/ CloseLocal \/ ResetOrigin
    <2>1. PublicationInv'
        BY <1>u, <1>8 DEF OpenValidationOrigin, CloseLocal, ResetOrigin
    <2> QED BY <1>8, <2>1, ClosingToReference DEF OpenValidationOrigin, CloseLocal, ResetOrigin
<1>9. CASE Escape
    <2>1. PublicationInv' /\ imports' = imports
        BY <1>h, <1>9 DEF Escape
    <2>2. CASE UncoverSource
        BY <2>1, <2>2, ClosingToReference
    <2>3. CASE UNCHANGED <<page, stage, index, open, task, previous>>
        BY <1>1, <2>1, <2>3
    <2> QED BY <1>9, <2>2, <2>3 DEF Escape
<1>10. CASE OpenPublishDialog \/ Consent
    <2>1. page.cinematic \in Files \cup {NoFile} /\ page.imported \in Files \cup {NoFile}
        BY <1>0 DEF Pages
    <2>2. dialog' \in [at : {"closed", "open", "authorized"}, shown : Files \cup {NoFile}]
        BY <1>0, <1>10, <2>1 DEF OpenPublishDialog, Consent, Described, PublicationInv
    <2>3. PublicationInv'
        BY <1>0, <1>10, <2>2 DEF OpenPublishDialog, Consent, PublicationInv
    <2> QED BY <1>1, <1>10, <2>3 DEF OpenPublishDialog, Consent
<1>11. CASE PublishFile
    <2>1. /\ page.artifact = Described
          /\ page.artifact \in Files \cup {NoFile} /\ dialog.shown \in Files \cup {NoFile}
        BY <1>0, <1>11 DEF PublishFile, Coherent, Described, Pages, PublicationInv
    <2>2. PublicationInv'
        BY <1>0, <1>11, <2>1 DEF PublishFile, PublicationInv, Publications
    <2> QED BY <1>1, <1>11, <2>2 DEF PublishFile
<1>12. CASE PublicationAccepted \/ PublicationFails \/ ClosePublishDialog
    <2>1. PublicationInv'
        BY <1>0, <1>h, <1>12 DEF PublicationAccepted, PublicationFails, ClosePublishDialog,
            PublicationInv, Publications, NoPublication
    <2> QED BY <1>1, <1>12, <2>1 DEF PublicationAccepted, PublicationFails,
            ClosePublishDialog
<1>13. CASE PublicationRecorded
    <2>1. PublicationInv' /\ publishing.file \in Files \cup {NoFile}
        BY <1>0, <1>13 DEF PublicationRecorded, PublicationInv, Publications, NoPublication
    <2>2. page' \in Pages /\ Coherent(page')
        BY <1>13, <2>1, InstalledPages DEF PublicationRecorded
    <2> QED BY <1>0, <1>13, <2>1, <2>2, PageStep DEF PublicationRecorded, ImportTypes
<1>14. CASE UNCHANGED viewerVars
    BY <1>u, <1>1, <1>14 DEF viewerVars
<1> QED BY <1>2, <1>4, <1>5, <1>6, <1>7, <1>8, <1>9, <1>10, <1>11, <1>12, <1>13, <1>14
        DEF ViewerNext

\* OnlyOpenFileIndexed: the file that was replaced or closed is not read on,
\* whichever of the handlers closed it.
THEOREM OnlyOpenFileIndexedHolds == ViewerSpec => []OnlyOpenFileIndexed
<1>1. ViewerInv => OnlyOpenFileIndexed
    BY DEF ViewerInv
<1> QED BY <1>1, ViewerInitially, ViewerStep, PTL DEF ViewerSpec

\* PublishesWhatItDescribes: however imports overlap, and whenever the publish
\* dialog was opened, the uploaded file is the one whose Cell is recorded with it,
\* which the page described and had verified at the click.
THEOREM PublishesWhatItDescribesHolds == ViewerSpec => []PublishesWhatItDescribes
<1>1. ViewerInv => PublishesWhatItDescribes
    BY DEF ViewerInv, ViewerTypes, PublicationInv, Coherent, PublishesWhatItDescribes,
        Described, Subject
<1> QED BY <1>1, ViewerInitially, ViewerStep, PTL DEF ViewerSpec

-----------------------------------------------------------------------------
(* What is shown was verified *)

\* A part of the page is empty or a file of its kind whose verification, or
\* parsing, succeeded.
Verified(f, k) == f # NoFile => f \in Sound /\ KindOf[f] = k
PageVerified(p) ==
    /\ Verified(p.cinematic, "cinematic") /\ Verified(p.imported, "reconstruction")
    /\ Verified(p.locus, "locus") /\ Verified(p.geometry, "geometry")
    /\ Verified(p.report, "reconstruction")
    /\ p.artifact # NoFile => p.artifact \in Sound

\* Only verified cinematic objects and captures are described and published.
Publishable(f) ==
    f # NoFile => f \in Sound /\ KindOf[f] \in {"cinematic", "reconstruction"}

\* Whatever construction, scene or report the page shows, and whatever the
\* publish dialog shows or uploads, was verified or parsed by an import of this
\* page first.
ShowsVerified ==
    /\ PageVerified(page)
    /\ stage \in Sound \cup {"reference", "empty", "validation"}
    /\ Publishable(dialog.shown) /\ Publishable(publishing.file)

\* An import past its verification holds a file that passed it.
ImportVerified(m) ==
    /\ m.at = "loading" => m.file \in Sound /\ KindOf[m.file] = "cinematic"
    /\ m.at = "reporting" => m.file \in Sound /\ KindOf[m.file] = "reconstruction"
    /\ m.at \in {"parsing", "parsed", "unparsed"} => KindOf[m.file] = "geometry"
    /\ m.at = "parsed" => m.file \in Sound
ShownInv == ShowsVerified /\ \A i \in Imports : ImportVerified(imports[i])

\* Only these differ between imports: what else they do is to other variables.
LEMMA OneImportMoves ==
    ASSUME ShownInv, NEW i \in Imports, ImportVerified(imports'[i]),
           \A j \in Imports \ {i} : imports'[j] = imports[j], PageVerified(page'),
           UNCHANGED <<dialog, publishing>>,
           stage' \in Sound \cup {"reference", "empty", "validation"}
    PROVE  ShownInv'
BY DEF ShownInv, ShowsVerified

\* Clearing the page, and naming another source or entry, installs nothing.
LEMMA NothingInstalled ==
    ASSUME page \in Pages, PageVerified(page)
    PROVE  /\ PageVerified(Cleared)
           /\ \A s : PageVerified([Cleared EXCEPT !.source = s])
           /\ \A s : PageVerified([page EXCEPT !.source = s])
           /\ \A e : PageVerified([page EXCEPT !.entry = e])
<1>1. \A s : \A p \in Pages : PageVerified(p) => PageVerified([p EXCEPT !.source = s])
    BY DEF PageVerified, Pages
<1>2. \A e : \A p \in Pages : PageVerified(p) => PageVerified([p EXCEPT !.entry = e])
    BY DEF PageVerified, Pages
<1>3. Cleared \in Pages /\ PageVerified(Cleared)
    BY DEF Cleared, NoConstruction, Pages, PageVerified, Verified
<1> QED BY <1>1, <1>2, <1>3

\* An import that begins has verified nothing, and shows nothing.
LEMMA BeginningShows ==
    ASSUME ViewerInv, ShownInv, NEW i \in Imports, NEW file \in Files \cup {NoFile},
           NEW entry \in Files \cup {NoFile}, UNCHANGED <<dialog, publishing>>,
           \/ BeginCinematic(i, file, entry) \/ BeginVerification(i, file, entry)
           \/ BeginSourceGeometry(i, file) /\ KindOf[file] = "geometry"
           \/ BeginReading(i, file) \/ BeginIndex(i, file) \/ BeginFetch(i, file)
    PROVE  ShownInv'
<1>1. /\ imports \in [Imports -> [at : Awaits, file : Files \cup {NoFile},
                                  entry : Files \cup {NoFile}]]
      /\ page \in Pages /\ PageVerified(page)
      /\ stage \in Sound \cup {"reference", "empty", "validation"}
    BY DEF ViewerInv, ViewerTypes, ImportTypes, ShownInv, ShowsVerified
<1>2. /\ \A j \in Imports \ {i} : imports'[j] = imports[j]
      /\ ImportVerified(imports'[i])
    BY <1>1 DEF BeginCinematic, BeginVerification, BeginSourceGeometry, BeginReading,
        BeginIndex, BeginFetch, Begins, ImportVerified
<1>3. PageVerified(page') /\ stage' \in Sound \cup {"reference", "empty", "validation"}
    BY <1>1, NothingInstalled DEF BeginCinematic, BeginVerification, BeginSourceGeometry,
        BeginReading, BeginIndex, BeginFetch, OpenFileBackedArtifact
<1> QED BY <1>2, <1>3, OneImportMoves

\* The steps of an import: what it installs, its verification has passed.
LEMMA ImportShows ==
    ASSUME ViewerInv, ShownInv, NEW i \in Imports, ImportNext(i)
    PROVE  ShownInv'
<1> DEFINE file == imports[i].file
           shown == Sound \cup {"reference", "empty", "validation"}
<1>0. /\ imports \in [Imports -> [at : Awaits, file : Files \cup {NoFile},
                                  entry : Files \cup {NoFile}]]
      /\ page \in Pages /\ PageVerified(page) /\ stage \in shown
      /\ ImportVerified(imports[i]) /\ imports[i].entry \in Files \cup {NoFile}
      /\ file \in Files \cup {NoFile} /\ Sound \subseteq Files
    BY ViewerAssumption DEF ViewerInv, ViewerTypes, ImportTypes, ShownInv, ShowsVerified
<1>1. ASSUME NEW to, Moves(i, to)
      PROVE  /\ \A j \in Imports \ {i} : imports'[j] = imports[j]
             /\ imports'[i].at = to /\ imports'[i].file = file
    BY <1>0, <1>1 DEF Moves
<1>2. ASSUME NEW to \in {"done", "failing", "joining"}, Moves(i, to), UNCHANGED <<dialog, publishing>>,
             PageVerified(page'), stage' \in shown
      PROVE  ShownInv'
    BY <1>1, <1>2, OneImportMoves DEF ImportVerified
<1>3. CASE \/ BytesFail(i) \/ ReconstructionRejected(i) \/ GeometryRejected(i)
           \/ CinematicFails(i)
    BY <1>0, <1>2, <1>3 DEF BytesFail, ReconstructionRejected, GeometryRejected, CinematicFails
<1>4. ASSUME NEW indexed \in BOOLEAN, IndexCompletes(i, indexed) PROVE ShownInv'
    BY <1>0, <1>4 DEF IndexCompletes, ShownInv, ShowsVerified
<1>5. ASSUME NEW f \in Files, PublicObjectArrives(i, f) PROVE ShownInv'
    BY <1>5, BeginningShows DEF PublicObjectArrives
<1>6. CASE PersonalFileArrives(i) \/ FileRead(i)
    BY <1>0, <1>6, BeginningShows DEF PersonalFileArrives, FileRead
<1>7. CASE ReconstructionVerified(i)
    <2>1. Moves(i, "reporting") /\ file \in Sound /\ KindOf[file] = "reconstruction"
        BY <1>7 DEF ReconstructionVerified
    <2>2. PageVerified(page') /\ stage' = file
        BY <1>7, <2>1 DEF ReconstructionVerified, PageVerified, Verified, Cleared, NoConstruction
    <2>3. ImportVerified(imports'[i])
        BY <1>1, <2>1 DEF ImportVerified
    <2> QED BY <1>1, <1>7, <2>1, <2>2, <2>3, OneImportMoves DEF ReconstructionVerified
<1>8. CASE ReportAnswers(i)
    <2>1. PageVerified(page')
        BY <1>0, <1>8 DEF ReportAnswers, ImportVerified, PageVerified, Verified, Pages
    <2> QED BY <1>0, <1>2, <1>8, <2>1 DEF ReportAnswers
<1>9. CASE LocusVerified(i)
    <2>1. PageVerified(page') /\ stage' \in shown
        BY <1>9 DEF LocusVerified, PageVerified, Verified, Cleared, NoConstruction
    <2> QED BY <1>2, <1>9, <2>1 DEF LocusVerified
<1>10. CASE LocusRejected(i) \/ CinematicFailed(i)
    BY <1>0, <1>2, <1>10, NothingInstalled DEF LocusRejected, CinematicFailed,
        RestoreReferenceOrigin
<1>11. CASE CinematicVerified(i)
    <2>1. /\ file \in Sound /\ KindOf[file] = "cinematic"
          /\ stage' = file /\ UNCHANGED <<dialog, publishing>>
        BY <1>11 DEF CinematicVerified
    <2>2. PageVerified(page')
        BY <1>0, <1>11 DEF CinematicVerified, PageVerified, Verified, Pages
    <2>3. /\ \A j \in Imports \ {i} : imports'[j] = imports[j]
          /\ imports'[i].at = "loading" /\ imports'[i].file = file
        BY <1>0, <1>11 DEF CinematicVerified
    <2>4. ImportVerified(imports'[i])
        BY <2>1, <2>3 DEF ImportVerified
    <2> QED BY <2>1, <2>2, <2>3, <2>4, OneImportMoves
<1>12. CASE CinematicLoaded(i)
    <2>1. PageVerified(page')
        BY <1>0, <1>12 DEF CinematicLoaded, ImportVerified, PageVerified, Verified, Pages
    <2> QED BY <1>0, <1>2, <1>12, <2>1 DEF CinematicLoaded
<1>13. CASE CinematicIndexed(i)
    BY <1>0, <1>2, <1>13, NothingInstalled DEF CinematicIndexed
<1>14. ASSUME NEW parsed \in BOOLEAN, GeometryParsed(i, parsed) PROVE ShownInv'
    <2>1. /\ Moves(i, IF parsed THEN "parsed" ELSE "unparsed")
          /\ KindOf[file] = "geometry" /\ (parsed => file \in Sound)
          /\ UNCHANGED <<page, stage>> /\ UNCHANGED <<dialog, publishing>>
        BY <1>0, <1>14 DEF GeometryParsed, ImportVerified
    <2>2. ImportVerified(imports'[i])
        BY <1>1, <2>1 DEF ImportVerified
    <2> QED BY <1>0, <1>1, <2>1, <2>2, OneImportMoves
<1>15. CASE GeometryStaged(i)
    <2>1. PageVerified(page') /\ stage' \in shown
        BY <1>0, <1>15 DEF GeometryStaged, ImportVerified, PageVerified, Verified, Cleared,
            NoConstruction
    <2> QED BY <1>2, <1>15, <2>1 DEF GeometryStaged
<1> QED BY <1>3, <1>4, <1>5, <1>6, <1>7, <1>8, <1>9, <1>10, <1>11, <1>12, <1>13, <1>14,
        <1>15 DEF ImportNext

\* The handlers of the page show what imports have verified, or nothing.
LEMMA ShownStep ==
    ASSUME ViewerInv, ShownInv, [ViewerNext]_viewerVars
    PROVE  ShownInv'
<1> DEFINE shown == Sound \cup {"reference", "empty", "validation"}
<1>0. page \in Pages /\ PageVerified(page) /\ stage \in shown
    BY DEF ViewerInv, ViewerTypes, ShownInv, ShowsVerified
<1>p. Publishable(dialog.shown) /\ Publishable(publishing.file) /\ PublicationInv
    BY DEF ViewerInv, ViewerTypes, ShownInv, ShowsVerified
<1>1. ASSUME UNCHANGED imports, Publishable(dialog'.shown), Publishable(publishing'.file),
             PageVerified(page'), stage' \in shown
      PROVE  ShownInv'
    BY <1>1 DEF ShownInv, ShowsVerified
<1>h. ASSUME HidePublishDialog
      PROVE  Publishable(dialog'.shown) /\ Publishable(publishing'.file)
    BY <1>p, <1>h DEF HidePublishDialog, Publishable, NoDialog, NoPublication
<1>2. CASE \/ BootFetched \/ BootVerified \/ BootRejected \/ UNCHANGED viewerVars
    BY <1>0, <1>p, <1>1, <1>2 DEF BootFetched, BootVerified, BootRejected, viewerVars
<1>3. ASSUME NEW i \in Imports, NEW file \in Files, UNCHANGED <<dialog, publishing>>,
             RouteLocalFile(i, file) \/ BeginFetch(i, file)
      PROVE  ShownInv'
    BY <1>3, BeginningShows DEF RouteLocalFile
<1>4. ASSUME ShowValidation \/ RestoreReferenceOrigin \/ UncoverSource, UNCHANGED imports,
             Publishable(dialog'.shown), Publishable(publishing'.file)
      PROVE  ShownInv'
    BY <1>0, <1>1, <1>4, NothingInstalled DEF ShowValidation, RestoreReferenceOrigin,
        UncoverSource
<1>5. CASE EnterOrigin
    BY <1>0, <1>p, <1>1, <1>3, <1>4, <1>5 DEF EnterOrigin
<1>6. ASSUME NEW i \in Imports, NEW file \in Files,
             RouteLocalFiles(i, file) \/ LoadPublicObject(i, file)
      PROVE  ShownInv'
    BY <1>3, <1>6 DEF RouteLocalFiles, LoadPublicObject
<1>7. ASSUME NEW i \in Imports, NEW file \in Files, OpenPersonalObject(i, file)
      PROVE  ShownInv'
    <2>1. /\ \A j \in Imports \ {i} : imports'[j] = imports[j]
          /\ ImportVerified(imports'[i])
          /\ UNCHANGED <<page, stage>> /\ UNCHANGED <<dialog, publishing>>
        BY <1>7 DEF OpenPersonalObject, Begins, ImportVerified, ViewerInv, ViewerTypes,
            ImportTypes
    <2> QED BY <1>0, <2>1, OneImportMoves
<1>8. CASE \E i \in Imports : ImportNext(i)
    BY <1>8, ImportShows
<1>9. CASE OpenValidationOrigin \/ CloseLocal \/ ResetOrigin
    BY <1>p, <1>4, <1>9 DEF OpenValidationOrigin, CloseLocal, ResetOrigin
<1>10. CASE Escape
    <2>1. /\ Publishable(dialog'.shown) /\ Publishable(publishing'.file)
          /\ imports' = imports
        BY <1>h, <1>10 DEF Escape
    <2> QED BY <1>0, <1>1, <1>4, <1>10, <2>1 DEF Escape
<1>11. CASE OpenPublishDialog \/ Consent \/ PublishFile
    <2>1. Publishable(Described) /\ (Described # NoFile => page.artifact = Described)
        BY <1>0 DEF Described, PageVerified, Verified, Publishable, ViewerInv, Coherent
    <2>2. Publishable(dialog'.shown) /\ Publishable(publishing'.file)
        BY <1>p, <1>11, <2>1 DEF OpenPublishDialog, Consent, PublishFile, PublicationInv
    <2> QED BY <1>0, <1>1, <1>11, <2>2 DEF OpenPublishDialog, Consent, PublishFile
<1>12. CASE PublicationAccepted \/ PublicationFails \/ ClosePublishDialog
    <2>1. Publishable(dialog'.shown) /\ Publishable(publishing'.file)
        BY <1>p, <1>h, <1>12 DEF PublicationAccepted, PublicationFails, ClosePublishDialog,
            PublicationInv, Publications, NoPublication, Publishable
    <2> QED BY <1>0, <1>1, <1>12, <2>1 DEF PublicationAccepted, PublicationFails,
            ClosePublishDialog
<1>13. CASE PublicationRecorded
    <2>1. Publishable(dialog'.shown) /\ Publishable(publishing'.file)
        BY <1>p, <1>13 DEF PublicationRecorded, NoPublication, Publishable
    <2> QED BY <1>0, <1>1, <1>13, <2>1, NothingInstalled DEF PublicationRecorded
<1> QED BY <1>2, <1>5, <1>6, <1>7, <1>8, <1>9, <1>10, <1>11, <1>12, <1>13 DEF ViewerNext

\* ShowsVerified: however imports, buttons and publications overlap, nothing
\* is shown as a construction, reported on or published before it was verified.
THEOREM ShowsVerifiedHolds == ViewerSpec => []ShowsVerified
<1>1. ViewerInit => ShownInv
    BY DEF ViewerInit, ShownInv, ShowsVerified, PageVerified, Verified, ImportVerified,
        Publishable, NoConstruction, NoImport, NoDialog, NoPublication
<1>2. ShownInv => ShowsVerified
    BY DEF ShownInv
<1>3. ViewerInv /\ ShownInv /\ [ViewerNext]_viewerVars => ShownInv'
    BY ShownStep
<1> QED BY <1>1, <1>2, <1>3, ViewerInitially, ViewerStep, PTL DEF ViewerSpec

-----------------------------------------------------------------------------
(* The scene.                                                              *)

Kinds3D == {"reference", "temporal", "cinematic", "surfel", "geometry"}

\* What is visible of the nodes that are shown.
SceneInv ==
    /\ kind \in Kinds3D /\ evidenceOn \in BOOLEAN
    /\ EvidenceOffHidesEvidence

\* With evidence off the flags are brought up to date to nothing.
LEMMA NothingMeant ==
    ASSUME NEW k, NEW selection, NEW pointed,
           UpdateMeaningFields(k, FALSE, selection, pointed)
    PROVE  meaning' \cap NodesOf(k) = {}
BY DEF UpdateMeaningFields, Refreshed, Meant

\* With evidence off no boundary is drawn in a world of cells, and a refresh to
\* nothing leaves no node of the scene marked.
LEMMA NothingBounded ==
    ASSUME NEW k \in Kinds3D, NEW selection, NEW pointed, NEW fold, NEW moment
    PROVE  /\ k \in {"reference", "temporal"} =>
                  Bounded(k, FALSE, selection, pointed, fold, moment) = {}
           /\ \A flags : (Refreshed(flags, k, {}) \cap NodesOf(k)) = {}
BY DEF Bounded, Refreshed

\* updateCellTargets, over every kind of scene.
LEMMA TargetsUpdated ==
    ASSUME SceneInv, NEW selection, NEW fold, NEW moment,
           UpdateCellTargets(selection, fold, moment),
           UNCHANGED <<kind, evidenceOn>>
    PROVE  SceneInv'
<1>1. CASE evidenceOn
    BY <1>1 DEF SceneInv, EvidenceOffHidesEvidence
<1>2. CASE ~evidenceOn
    <2>1. evidenceOn = FALSE
        BY <1>2 DEF SceneInv
    <2>2. meaning' \cap NodesOf(kind) = {}
        BY <2>1, NothingMeant DEF UpdateCellTargets
    <2>3. kind # "surfel" => boundary' \cap NodesOf(kind) = {}
        BY <2>1 DEF UpdateCellTargets, Bounded, Refreshed, SceneInv,
            EvidenceOffHidesEvidence, Nodes, Kinds3D
    <2> QED BY <1>2, <2>2, <2>3 DEF SceneInv, EvidenceOffHidesEvidence, Nodes
<1> QED BY <1>1, <1>2

\* updateMeaningFields, over every kind of scene.
LEMMA MeaningUpdated ==
    ASSUME SceneInv, NEW selection, NEW pointed,
           UpdateMeaningFields(kind, evidenceOn, selection, pointed),
           UNCHANGED <<kind, evidenceOn, boundary>>
    PROVE  SceneInv'
<1>1. CASE evidenceOn
    BY <1>1 DEF SceneInv, EvidenceOffHidesEvidence
<1>2. CASE ~evidenceOn
    <2>1. meaning' \cap NodesOf(kind) = {}
        <3>1. evidenceOn = FALSE
            BY <1>2 DEF SceneInv
        <3> QED BY <3>1, NothingMeant
    <2> QED BY <1>2, <2>1 DEF SceneInv, EvidenceOffHidesEvidence, Nodes
<1> QED BY <1>1, <1>2

\* setEvidence, over every kind of scene.
LEMMA EvidenceUpdated == SceneInv /\ SetEvidence => SceneInv'
<1> SUFFICES ASSUME SceneInv, SetEvidence PROVE SceneInv'
    OBVIOUS
<1>0. kind \in Kinds3D /\ kind' = kind /\ evidenceOn' \in BOOLEAN
    BY DEF SceneInv, SetEvidence
<1>1. CASE evidenceOn'
    BY <1>0, <1>1 DEF SceneInv, EvidenceOffHidesEvidence
<1>2. CASE ~evidenceOn'
    <2>1. evidenceOn' = FALSE
        BY <1>0, <1>2
    <2>2. meaning' \cap NodesOf(kind) = {}
        BY <2>1, NothingMeant DEF SetEvidence
    <2>3. boundary' \cap NodesOf(kind) = {}
        BY <1>0, <2>1, NothingBounded DEF SetEvidence, Refreshed, Nodes
    <2> QED BY <1>0, <2>2, <2>3 DEF SceneInv, EvidenceOffHidesEvidence, Nodes
<1> QED BY <1>1, <1>2

\* Every load, selection and switch of the scene keeps the invariant.
LEMMA SceneStep == SceneInv /\ [WorldNext]_worldVars => SceneInv'
<1> SUFFICES ASSUME SceneInv, [WorldNext]_worldVars PROVE SceneInv'
    OBVIOUS
<1>0. kind \in Kinds3D /\ evidenceOn \in BOOLEAN
    BY DEF SceneInv
<1>1. ASSUME UNCHANGED <<kind, evidenceOn, boundary, meaning>>
      PROVE  SceneInv'
    BY <1>1 DEF SceneInv, EvidenceOffHidesEvidence, Nodes
<1>2. ASSUME NEW moment \in Moments, SetMoment(moment) PROVE SceneInv'
    BY <1>2, TargetsUpdated DEF SetMoment
<1>3. ASSUME NEW mode \in Modes, SetScale(mode) PROVE SceneInv'
    BY <1>3, TargetsUpdated DEF SetScale
<1>4. ASSUME NEW value \in Depths, SetScaleDepth(value) PROVE SceneInv'
    BY <1>1, <1>4 DEF SetScaleDepth, flagVars
<1>5. ASSUME NEW to \in Layers, ActivateTraceTab(to) PROVE SceneInv'
    BY <1>5, MeaningUpdated DEF ActivateTraceTab, SetInspectionLayer
<1>6. CASE CloseTrace
    BY <1>6, MeaningUpdated DEF CloseTrace
<1>7. CASE SetChronofold
    BY <1>7, TargetsUpdated DEF SetChronofold
<1>8. CASE SetEvidence
    BY <1>8, EvidenceUpdated
<1>9. CASE ResetView
    BY <1>9, TargetsUpdated DEF ResetView
<1>10. ASSUME NEW node \in Nodes, SelectCell(node) PROVE SceneInv'
    BY <1>10, TargetsUpdated DEF SelectCell
<1>11. ASSUME NEW node \in Nodes \cup {NoNode}, SetHovered(node) PROVE SceneInv'
    BY <1>11, MeaningUpdated DEF SetHovered
<1>12. CASE LoadReferenceWorld
    BY <1>12 DEF LoadReferenceWorld, SceneInv, EvidenceOffHidesEvidence, Kinds3D
<1>13. CASE PrepareCinematicLoad
    BY <1>13, MeaningUpdated DEF PrepareCinematicLoad, ClosedMeaning, UpdateMeaningFields
<1>14. CASE LoadCinematicObject
    BY <1>0, <1>14 DEF LoadCinematicObject, Disposed, SceneInv, EvidenceOffHidesEvidence,
        Nodes, NodesOf, Kinds3D
<1>15. CASE LoadSourceGeometry
    BY <1>0, <1>15 DEF LoadSourceGeometry, SceneInv, EvidenceOffHidesEvidence, Nodes,
        NodesOf, Kinds3D
<1>16. CASE LoadSurfelObservation
    BY <1>0, <1>16 DEF LoadSurfelObservation, Disposed, SceneInv,
        EvidenceOffHidesEvidence, Nodes, NodesOf, Kinds3D
<1>17. ASSUME NEW on \in BOOLEAN, LoadTemporalObservations(on) PROVE SceneInv'
    BY <1>0, <1>17 DEF LoadTemporalObservations, Disposed, Bounded, Meant, SceneInv,
        EvidenceOffHidesEvidence, Nodes, NodesOf, Kinds3D
<1>18. ASSUME NEW c \in Cells, Condense(c) PROVE SceneInv'
    BY <1>18, TargetsUpdated DEF Condense
<1>19. CASE Breathe
    BY <1>19, TargetsUpdated DEF Breathe
<1>20. CASE UNCHANGED worldVars
    BY <1>1, <1>20 DEF worldVars, flagVars
<1> QED BY <1>2, <1>3, <1>4, <1>5, <1>6, <1>7, <1>8, <1>9, <1>10, <1>11, <1>12, <1>13,
        <1>0, <1>14, <1>15, <1>16, <1>17, <1>18, <1>19, <1>20 DEF WorldNext, LoadImportedLocus,
        LoadValidationLocus

\* EvidenceOffHidesEvidence: with evidence off nothing of it is visible, after
\* any number of loads, selections and Moments.
THEOREM EvidenceOffHidesEvidenceHolds == WorldSpec => []EvidenceOffHidesEvidence
<1>1. WorldInit => SceneInv
    BY DEF WorldInit, SceneInv, EvidenceOffHidesEvidence, Kinds3D
<1>2. SceneInv => EvidenceOffHidesEvidence
    BY DEF SceneInv
<1> QED BY <1>1, <1>2, SceneStep, PTL DEF WorldSpec

-----------------------------------------------------------------------------
(* The service worker *)

Puts == [by : Releases, path : Paths, fallback : Paths,
         otherwise : {"cached", "error", "next time"}]

ServiceTypes ==
    /\ deployed \in Releases
    /\ installing \in Releases \cup {0} /\ active \in Releases \cup {0}
    /\ fetched \subseteq Core
    /\ caches \in [Releases -> SUBSET Paths]
    /\ inFlight \subseteq Puts

\* The cache of the active release holds every CORE path, that of the release
\* being installed every path it has fetched, and the two are different ones.
CachesComplete ==
    /\ active # 0 => Core \subseteq caches[active]
    /\ installing # 0 => installing # active /\ fetched \subseteq caches[installing]

\* A page waits for a put only under a worker, and a CORE path always has a
\* copy to fall back on.
PutsAnswered ==
    \A put \in inFlight : active # 0 /\ (put.path \in Core => put.otherwise # "error")

ServiceInv == ServiceTypes /\ CachesComplete /\ PutsAnswered /\ CoreIsServed

\* Releases count from 1, so that none is the absence of one.
LEMMA ReleaseTypes ==
    /\ Releases \subseteq Nat /\ 0 \notin Releases /\ 1 \in Releases
    /\ \A r \in Releases : r < Release => r + 1 \in Releases
<1>1. Release \in Nat \ {0}
    BY ServiceWorkerAssumption, Zenon
<1> QED BY <1>1 DEF Releases

\* A CORE path is found in some cache.
LEMMA MatchFindsCore ==
    ASSUME ServiceInv, active # 0, NEW p \in Core
    PROVE  Match(p)
BY DEF ServiceInv, ServiceTypes, CachesComplete, Match

\* Deleting caches leaves the types, and every other cache as it was.
LEMMA DeletedCaches ==
    ASSUME ServiceTypes, NEW R \in SUBSET Releases
    PROVE  /\ Delete(R) \in [Releases -> SUBSET Paths]
           /\ \A r \in Releases \ R : Delete(R)[r] = caches[r]
BY DEF ServiceTypes, Delete

\* An answer that is good for a CORE path is what the contract asks for.
LEMMA GoodAnswer ==
    ASSUME NEW p, NEW good, Answer(p, good), p \in Core => good
    PROVE  CoreIsServed'
BY DEF Answer, CoreIsServed

\* A new put of an active worker, for a CORE path one with a copy behind it.
LEMMA PutKeeps ==
    ASSUME ServiceInv, active # 0, NEW p \in Paths, NEW fallback \in Paths,
           NEW otherwise \in {"cached", "error", "next time"},
           Put(p, fallback, otherwise), p \in Core => otherwise # "error",
           UNCHANGED active
    PROVE  inFlight' \subseteq Puts /\ PutsAnswered'
<1> DEFINE put == [by |-> active, path |-> p, fallback |-> fallback, otherwise |-> otherwise]
<1>1. put \in Puts /\ inFlight' = inFlight \cup {put}
    BY DEF Put, Puts, ServiceInv, ServiceTypes
<1>2. put.path = p /\ put.otherwise = otherwise
    OBVIOUS
<1> HIDE DEF put
<1> QED BY <1>1, <1>2 DEF ServiceInv, ServiceTypes, PutsAnswered

\* A request leaves the caches alone and is answered well.
LEMMA RequestStep ==
    ASSUME ServiceInv, Requests
    PROVE  ServiceInv'
<1>1. UNCHANGED <<deployed, online, installing, fetched, active, caches>> /\ active # 0
    BY DEF Requests, FetchWorldCell, ImmutableAuthority, NetworkFirst,
        StaleWhileRevalidate
<1>2. \A p \in Core : Match(p)
    BY <1>1, MatchFindsCore
<1>3. (UNCHANGED inFlight) => inFlight' \subseteq Puts /\ PutsAnswered'
    BY <1>1 DEF ServiceInv, ServiceTypes, PutsAnswered
<1>4. (UNCHANGED served) => CoreIsServed'
    BY DEF ServiceInv, CoreIsServed
<1>5. inFlight' \subseteq Puts /\ PutsAnswered' /\ CoreIsServed'
  <2>1. CASE FetchWorldCell
        BY <1>3, <2>1, GoodAnswer, ServiceWorkerAssumption DEF FetchWorldCell, Paths
  <2>2. ASSUME NEW p \in Other, ImmutableAuthority(p)
        PROVE  inFlight' \subseteq Puts /\ PutsAnswered' /\ CoreIsServed'
    <3>1. CASE ~Match(p) /\ online
        BY <1>1, <1>2, <1>4, <2>2, <3>1, PutKeeps DEF ImmutableAuthority, Paths
    <3>2. CASE ~(~Match(p) /\ online)
        BY <1>2, <1>3, <2>2, <3>2, GoodAnswer DEF ImmutableAuthority
    <3> QED BY <3>1, <3>2
  <2>3. ASSUME NEW p \in Paths, NEW fallback \in Core \cup {p}, NetworkFirst(p, fallback)
        PROVE  inFlight' \subseteq Puts /\ PutsAnswered' /\ CoreIsServed'
    <3>1. CASE online
        BY <1>1, <1>4, <2>3, <3>1, PutKeeps DEF NetworkFirst, Paths
    <3>2. CASE ~online
        BY <1>2, <1>3, <2>3, <3>2, GoodAnswer DEF NetworkFirst, FromCaches
    <3> QED BY <3>1, <3>2
  <2>4. ASSUME NEW p \in Paths, StaleWhileRevalidate(p)
        PROVE  inFlight' \subseteq Puts /\ PutsAnswered' /\ CoreIsServed'
    <3>1. CoreIsServed'
        BY <1>2, <1>4, <2>4, GoodAnswer DEF StaleWhileRevalidate
    <3>2. CASE online
        BY <1>1, <1>2, <2>4, <3>1, <3>2, PutKeeps DEF StaleWhileRevalidate
    <3>3. CASE ~online
        BY <1>3, <2>4, <3>1, <3>3 DEF StaleWhileRevalidate
    <3> QED BY <3>2, <3>3
  <2> QED BY <2>1, <2>2, <2>3, <2>4 DEF Requests
<1> QED BY <1>1, <1>5 DEF ServiceInv, ServiceTypes, CachesComplete

\* Installs, deployments and late answers empty no cache that is in use.
LEMMA ServiceStep == ServiceInv /\ [SWNext]_swVars => ServiceInv'
<1> SUFFICES ASSUME ServiceInv, [SWNext]_swVars PROVE ServiceInv'
    OBVIOUS
<1> USE DEF ServiceInv, PutsAnswered, CoreIsServed
<1>1. CASE Deploy
  <2>1. deployed' \in Releases
        BY <1>1, ReleaseTypes DEF Deploy, ServiceTypes
  <2> QED BY <1>1, <2>1 DEF Deploy, ServiceTypes, CachesComplete
<1>2. CASE Connectivity \/ UNCHANGED swVars
    BY <1>2 DEF Connectivity, swVars, ServiceTypes, CachesComplete
<1>3. CASE StartInstall
  <2>1. /\ deployed \in Releases /\ caches' = Delete({deployed})
        /\ installing' = deployed /\ fetched' = {} /\ active < deployed
        /\ active \in Releases \cup {0} /\ UNCHANGED <<deployed, online, active, inFlight, served>>
        BY <1>3 DEF StartInstall, ServiceTypes
  <2>2. active # deployed
        BY <2>1 DEF Releases
  <2>3. /\ caches' \in [Releases -> SUBSET Paths]
        /\ active # 0 => caches'[active] = caches[active]
        BY <2>1, <2>2, DeletedCaches
  <2> QED BY <2>1, <2>2, <2>3 DEF ServiceTypes, CachesComplete
<1>4. ASSUME NEW p \in Core, PopulateReleaseCache(p) PROVE ServiceInv'
  <2>1. /\ installing \in Releases /\ installing # active /\ p \in Paths
        /\ caches' = [caches EXCEPT ![installing] = @ \cup {p}]
        /\ fetched' = fetched \cup {p}
        /\ UNCHANGED <<deployed, online, installing, active, inFlight, served>>
        BY <1>4 DEF PopulateReleaseCache, ServiceTypes, CachesComplete, Paths
  <2>2. /\ caches' \in [Releases -> SUBSET Paths]
        /\ caches'[installing] = caches[installing] \cup {p}
        /\ active # 0 => caches'[active] = caches[active]
        BY <2>1 DEF ServiceTypes
  <2> QED BY <2>1, <2>2, ReleaseTypes DEF ServiceTypes, CachesComplete
<1>5. CASE InstallFails
  <2>1. /\ installing \in Releases /\ caches' = Delete({installing})
        /\ installing' = 0 /\ fetched' = {} /\ installing # active
        /\ UNCHANGED <<deployed, online, active, inFlight, served>>
        BY <1>5 DEF InstallFails, ServiceTypes, CachesComplete
  <2>2. /\ caches' \in [Releases -> SUBSET Paths]
        /\ active # 0 => caches'[active] = caches[active]
        BY <2>1, DeletedCaches DEF ServiceTypes
  <2> QED BY <2>1, <2>2 DEF ServiceTypes, CachesComplete
<1>6. CASE Activate
  <2>1. /\ installing \in Releases /\ caches' = Delete(Releases \ {installing})
        /\ installing' = 0 /\ fetched' = {} /\ active' = installing
        /\ Core \subseteq caches[installing] /\ active' # 0
        /\ UNCHANGED <<deployed, online, inFlight, served>>
        BY <1>6 DEF Activate, ServiceTypes, CachesComplete
  <2>2. caches' \in [Releases -> SUBSET Paths] /\ caches'[installing] = caches[installing]
        BY <2>1, DeletedCaches
  <2> QED BY <2>1, <2>2 DEF ServiceTypes, CachesComplete
<1>7. ASSUME NEW put \in inFlight, FinishPut(put) PROVE ServiceInv'
  <2>1. /\ put.by \in Releases /\ put.path \in Paths
        /\ caches' = [caches EXCEPT ![put.by] = @ \cup {put.path}]
        /\ inFlight' \subseteq inFlight
        /\ UNCHANGED <<deployed, online, installing, fetched, active>>
        BY <1>7 DEF FinishPut, ServiceTypes, Puts
  <2>2. /\ caches' \in [Releases -> SUBSET Paths]
        /\ \A r \in Releases : caches[r] \subseteq caches'[r]
        BY <2>1 DEF ServiceTypes
  <2>3. CoreIsServed'
        BY <1>7, GoodAnswer DEF FinishPut
  <2> QED BY <2>1, <2>2, <2>3 DEF ServiceTypes, CachesComplete
<1>8. ASSUME NEW put \in inFlight, PutFails(put) PROVE ServiceInv'
  <2>1. /\ inFlight' \subseteq inFlight
        /\ UNCHANGED <<deployed, online, installing, fetched, active, caches>>
        /\ put.otherwise \in {"cached", "error", "next time"}
        /\ put.path \in Core => put.otherwise # "error" /\ Match(put.path)
        BY <1>8, MatchFindsCore DEF PutFails, ServiceTypes, Puts
  <2>2. CoreIsServed'
    <3>1. CASE put.otherwise = "cached"
        BY <1>8, <2>1, <3>1, GoodAnswer DEF PutFails, FromCaches
    <3>2. CASE put.otherwise = "error"
        BY <1>8, <2>1, <3>2, GoodAnswer DEF PutFails
    <3>3. CASE put.otherwise = "next time"
        BY <1>8, <3>3 DEF PutFails
    <3> QED BY <2>1, <3>1, <3>2, <3>3
  <2> QED BY <2>1, <2>2 DEF ServiceTypes, CachesComplete
<1> QED BY <1>1, <1>2, <1>3, <1>4, <1>5, <1>6, <1>7, <1>8, RequestStep DEF SWNext

\* CoreIsServed: offline, too, and through failed installs, deployments in the
\* middle of one, answers put late into deleted caches and puts that fail, for
\* any number of releases, paths and answers on their way.
THEOREM CoreIsServedHolds == SWSpec => []CoreIsServed
<1>1. SWInit => ServiceInv
    BY ReleaseTypes DEF SWInit, ServiceInv, ServiceTypes, CachesComplete, PutsAnswered,
        CoreIsServed, NoAnswer
<1>2. ServiceInv => CoreIsServed
    BY DEF ServiceInv
<1> QED BY <1>1, <1>2, ServiceStep, PTL DEF SWSpec

-----------------------------------------------------------------------------
(* The documents *)

\* What was accepted is accepted still: only an open document is edited.
VerdictInv ==
    subject \in Subjects /\ (verdict = "accepted" => Accepts)

\* An accepted document is held by its root: each digest it passes commits to
\* the next, down to what is shown.
LEMMA AcceptanceBinds ==
    ASSUME subject \in Subjects, Accepts, Root(subject) \in kept
    PROVE  legible /\ Shown(subject) \subseteq kept
<1>1. CASE subject = "world"
    BY <1>1 DEF Accepts, Legible, Root, Shown, WorldCellAccepted, CellIdentity, PhaBound,
        Determines, Embeds
<1>2. CASE subject = "capsule"
    BY <1>2 DEF Accepts, Legible, Root, Shown, CapsuleAccepted, CapsuleFields, Replays,
        Determines, Embeds
<1>3. CASE subject = "reconstruction"
    BY <1>3 DEF Accepts, Legible, Root, Shown, ReconstructionAccepted, ObservationCommitted,
        SdfCommitted, ReportCommitted, ProofsBound, LineageBinds, Replays, CellIdentity,
        Determines, Embeds
<1>4. CASE subject = "locus"
    BY <1>4 DEF Accepts, Legible, Root, Shown, LocusAccepted, SourceSelected,
        SourceCommitted, LocusLineageBinds, Replays, CellIdentity, Determines, Embeds,
        Times, Captures, StateCells, StateBranches
<1>5. CASE subject = "cinematic"
    BY <1>5 DEF Accepts, Legible, Root, Shown, CinematicAccepted, MediaCommitted,
        CellIdentity, PhaBound, Determines, Embeds
<1> QED BY <1>1, <1>2, <1>3, <1>4, <1>5 DEF Subjects

\* A verdict stays, and nothing is edited after it.
LEMMA VerdictStep == VerdictInv /\ [VerificationNext]_verificationVars => VerdictInv'
<1> SUFFICES ASSUME VerdictInv, [VerificationNext]_verificationVars PROVE VerdictInv'
    OBVIOUS
<1>1. ASSUME UNCHANGED documentVars PROVE Accepts' = Accepts
    BY <1>1 DEF documentVars, Accepts, Legible, WorldCellAccepted, CapsuleAccepted,
        ReconstructionAccepted, LocusAccepted, CinematicAccepted, CellIdentity, PhaBound,
        Replays, ObservationCommitted, SdfCommitted, ReportCommitted, ProofsBound,
        LineageBinds, SourceSelected, SourceCommitted, LocusLineageBinds, MediaCommitted,
        Determines, Embeds
<1>2. ASSUME NEW field \in kept, NEW wellFormed \in BOOLEAN, Edit(field, wellFormed)
      PROVE  VerdictInv'
    BY <1>2 DEF Edit, VerdictInv
<1>3. CASE Verify
    BY <1>1, <1>3 DEF Verify, VerdictInv, documentVars
<1>4. CASE ExecuteMutation \/ UNCHANGED verificationVars
    BY <1>1, <1>4 DEF ExecuteMutation, verificationVars, VerdictInv, documentVars
<1> QED BY <1>2, <1>3, <1>4 DEF VerificationNext

\* AcceptedIsBound: however many fields were edited, and however many of the
\* digests between computed anew.
THEOREM AcceptedIsBoundHolds == VerificationSpec => []AcceptedIsBound
<1>1. VerificationInit => VerdictInv
    BY DEF VerificationInit, VerdictInv
<1>2. VerdictInv => AcceptedIsBound
    BY AcceptanceBinds DEF VerdictInv, AcceptedIsBound
<1> QED BY <1>1, <1>2, VerdictStep, PTL DEF VerificationSpec

-----------------------------------------------------------------------------
(* The lineage *)

LineageTypes ==
    /\ rootBranch \in Branches
    /\ parents \in [Branches -> SUBSET Branches]
    /\ claimed \in [Branches -> Claims]
    /\ canonical \in [Branches -> Nat]
    /\ ordered \subseteq Branches

\* What the pass has not done has no place.  Among numbers it has done the
\* parents of every branch it has done, and placed the branch right after them.
PassInv ==
    /\ replay \in {"ordering", "replayed"} => \A b \in Branches : ParentsOrdered(b)
    /\ \A b \in Branches \ ordered : canonical[b] = 0
    /\ \A b \in ordered : NoFurther(canonical, b)
    /\ Numbered => \A b \in ordered :
         parents[b] \subseteq ordered /\ StandsAfterParents(canonical, b)
    /\ replay = "replayed" => ordered = Branches

LineageInv == LineageTypes /\ PassInv

\* Two numbers at most have a greatest one.
LEMMA GreatestOfTwo ==
    ASSUME NEW P, IsFiniteSet(P), Cardinality(P) <= 2, P # {},
           NEW f, \A p \in P : f[p] \in Nat
    PROVE  \E p \in P : /\ \A q \in P : f[q] <= f[p]
                        /\ Max({f[q] : q \in P}) = f[p]
<1>1. PICK a \in P : TRUE
    OBVIOUS
<1>2. /\ IsFiniteSet(P \ {a}) /\ Cardinality(P \ {a}) = Cardinality(P) - 1
      /\ Cardinality(P) \in Nat
    BY <1>1, FS_RemoveElement, FS_CardinalityType
<1>3. PICK b \in P : P = {a, b}
  <2>1. CASE P \ {a} = {}
        BY <1>1, <2>1
  <2>2. ASSUME NEW b \in P \ {a} PROVE P = {a, b}
    <3>1. /\ IsFiniteSet(P \ {a, b})
          /\ Cardinality((P \ {a}) \ {b}) = Cardinality(P \ {a}) - 1
          /\ Cardinality((P \ {a}) \ {b}) \in Nat
        BY <1>2, <2>2, FS_RemoveElement, FS_CardinalityType, FS_Subset
    <3>2. Cardinality((P \ {a}) \ {b}) = 0
        BY <1>2, <3>1
    <3>3. (P \ {a}) \ {b} = {}
        BY <1>2, <3>2, FS_RemoveElement, FS_EmptySet
    <3> QED BY <1>1, <2>2, <3>3
  <2> QED BY <2>1, <2>2
<1>4. PICK p \in P : \A q \in P : f[q] <= f[p]
    BY <1>1, <1>3
<1>5. \A y \in {f[q] : q \in P} : f[p] >= y
    BY <1>4
<1>6. f[p] \in {f[q] : q \in P}
    BY <1>4
<1>7. \A x \in {f[q] : q \in P} :
        (\A y \in {f[q] : q \in P} : x >= y) => x = f[p]
  <2> SUFFICES ASSUME NEW q \in P, f[q] >= f[p] PROVE f[q] = f[p]
    BY <1>6
  <2> QED BY <1>4
<1> QED BY <1>4, <1>5, <1>6, <1>7 DEF Max

\* A branch whose parents are in place is placed right after the last of them.
LEMMA PlaceAfterParents ==
    ASSUME LineageTypes, NEW b \in Branches, ParentsOrdered(b)
    PROVE  /\ Place(b) \in Nat
           /\ \A p \in parents[b] : canonical[p] < Place(b)
           /\ Place(b) > 0 => \E p \in parents[b] : Place(b) = canonical[p] + 1
           /\ Place(b) = 0 <=> parents[b] = {}
<1>1. /\ parents[b] \subseteq Branches /\ IsFiniteSet(parents[b])
      /\ Cardinality(parents[b]) <= 2
      /\ \A p \in parents[b] : canonical[p] \in Nat
    BY LineageAssumption, FS_Subset DEF LineageTypes, ParentsOrdered
<1>2. CASE parents[b] = {}
    BY <1>2 DEF Place
<1>3. CASE parents[b] # {}
  <2>1. PICK p \in parents[b] :
          /\ \A q \in parents[b] : canonical[q] <= canonical[p]
          /\ Max({canonical[q] : q \in parents[b]}) = canonical[p]
        BY <1>1, <1>3, GreatestOfTwo
  <2>2. Place(b) = 1 + canonical[p]
        BY <1>3, <2>1 DEF Place
  <2> QED BY <1>1, <2>1, <2>2
<1> QED BY <1>2, <1>3

\* Claims that are numbers are compared and subtracted as numbers, which is an
\* order of the branches.
LEMMA NumbersAreCompared ==
    ASSUME LineageTypes, Numbered, NEW a \in Branches, NEW b \in Branches
    PROVE  /\ claimed[a].value \in Int /\ claimed[b].value \in Int
           /\ AtLeast(claimed[a], claimed[b]) <=> claimed[a].value >= claimed[b].value
           /\ Precedes(a, b) <=>
                 \/ claimed[a].value < claimed[b].value
                 \/ (claimed[a].value = claimed[b].value /\ a < b)
<1>1. /\ claimed[a] \in Claims /\ claimed[a].type = "number"
      /\ claimed[b] \in Claims /\ claimed[b].type = "number"
    BY DEF LineageTypes, Numbered
<1>2. /\ claimed[a].value \in Int /\ claimed[b].value \in Int
      /\ NaN # claimed[a].value /\ NaN # claimed[b].value
    BY <1>1, LineageAssumption
<1>3. AtLeast(claimed[a], claimed[b]) <=> claimed[a].value >= claimed[b].value
    BY <1>1, <1>2 DEF AtLeast
<1>4. Differ(a, b) <=> claimed[a].value # claimed[b].value
    BY <1>2 DEF Differ
<1>5. /\ claimed[a].value < claimed[b].value => Differ(a, b)
      /\ ~Differ(a, b) <=> claimed[a].value = claimed[b].value
    BY <1>2, <1>4
<1> QED BY <1>2, <1>3, <1>5 DEF Precedes

LEMMA NumbersAreConsistent ==
    ASSUME LineageTypes, Numbered
    PROVE  Consistent
<1> SUFFICES ASSUME NEW a \in Branches, NEW b \in Branches, NEW c \in Branches,
                    Precedes(a, b), Precedes(b, c)
             PROVE  Precedes(a, c)
    BY DEF Consistent
<1> DEFINE n(x) == claimed[x].value
<1>1. \A x, y \in Branches :
        /\ n(x) \in Int
        /\ Precedes(x, y) <=> n(x) < n(y) \/ (n(x) = n(y) /\ x < y)
  <2> TAKE x, y \in Branches
  <2> QED BY NumbersAreCompared
<1>2. a \in Nat /\ b \in Nat /\ c \in Nat
    BY LineageAssumption
<1> HIDE DEF n
<1> QED BY <1>1, <1>2

\* A branch gets its place once.  Numbers that were checked put every parent
\* before its child in the pass.
LEMMA PassStep ==
    ASSUME LineageInv, NEW b \in Branches, OrderBranch(b)
    PROVE  LineageInv'
<1>1. /\ ParentsOrdered(b) /\ b \notin ordered
      /\ canonical' = [canonical EXCEPT ![b] = Place(b)]
      /\ ordered' = ordered \cup {b}
      /\ replay = "ordering" /\ replay' = replay
      /\ rootBranch' = rootBranch /\ parents' = parents /\ claimed' = claimed
    BY DEF OrderBranch, LineageInv, PassInv, graphVars
<1>2. /\ Place(b) \in Nat
      /\ \A p \in parents[b] : canonical[p] < Place(b)
      /\ Place(b) > 0 => \E p \in parents[b] : Place(b) = canonical[p] + 1
      /\ Place(b) = 0 <=> parents[b] = {}
    BY <1>1, PlaceAfterParents DEF LineageInv
<1>3. /\ canonical \in [Branches -> Nat] /\ canonical' \in [Branches -> Nat]
      /\ canonical[b] = 0 /\ canonical'[b] = Place(b)
      /\ \A a \in Branches \ {b} : canonical'[a] = canonical[a]
      /\ \A a \in Branches : canonical[a] <= canonical'[a]
      /\ \A a \in Branches : parents[a] \subseteq Branches
      /\ ordered \subseteq Branches
    BY <1>1, <1>2 DEF LineageInv, LineageTypes, PassInv
<1>4. LineageTypes' /\ Numbered' = Numbered
    BY <1>1, <1>3 DEF LineageInv, LineageTypes, Numbered
<1>5. \A a \in ordered' : NoFurther(canonical, a)'
  <2>1. ASSUME NEW a \in ordered PROVE NoFurther(canonical, a)'
    <3>1. NoFurther(canonical, a) /\ a # b
        BY <1>1 DEF LineageInv, PassInv
    <3>2. canonical'[a] = canonical[a]
        BY <1>3, <3>1
    <3>3. ASSUME parents[a] # {}
          PROVE  \E p \in parents[a] : canonical'[a] <= canonical'[p] + 1
      <4>1. PICK p \in parents[a] : canonical[a] <= canonical[p] + 1
            BY <3>1, <3>3 DEF NoFurther
      <4> QED BY <1>3, <3>2, <4>1
    <3> QED BY <1>1, <3>1, <3>2, <3>3 DEF NoFurther
  <2>2. NoFurther(canonical, b)'
    <3>1. ASSUME parents[b] # {}
          PROVE  \E p \in parents[b] : canonical'[b] <= canonical'[p] + 1
      <4>1. PICK p \in parents[b] : Place(b) = canonical[p] + 1
            BY <1>2, <3>1
      <4> QED BY <1>2, <1>3, <4>1
    <3> QED BY <1>1, <1>2, <1>3, <3>1 DEF NoFurther
  <2> QED BY <1>1, <2>1, <2>2
<1>6. ASSUME Numbered
      PROVE  \A a \in ordered' : parents'[a] \subseteq ordered'
                                /\ StandsAfterParents(canonical, a)'
  <2>1. parents[b] \subseteq ordered
    <3> SUFFICES ASSUME NEW p \in parents[b], p \notin ordered PROVE FALSE
      OBVIOUS
    <3>1. p \in Branches /\ ~AtLeast(claimed[p], claimed[b])
          BY <1>1, <1>3 DEF ParentsOrdered
    <3>2. p = b \/ Precedes(b, p)
          BY <1>6, <3>1, NumbersAreConsistent DEF OrderBranch, LineageInv
    <3>3. claimed[p].value < claimed[b].value
          BY <1>6, <3>1, NumbersAreCompared DEF LineageInv
    <3> QED BY <1>6, <3>1, <3>2, <3>3, NumbersAreCompared DEF LineageInv
  <2>2. ASSUME NEW a \in ordered PROVE StandsAfterParents(canonical, a)'
    <3>1. parents[a] \subseteq ordered /\ StandsAfterParents(canonical, a)
        BY <1>6 DEF LineageInv, PassInv
    <3> QED BY <1>1, <1>3, <3>1 DEF StandsAfterParents
  <2>3. StandsAfterParents(canonical, b)'
        BY <1>1, <1>2, <1>3, <2>1 DEF StandsAfterParents
  <2> QED BY <1>1, <1>6, <2>1, <2>2, <2>3 DEF LineageInv, PassInv
<1>7. \A a \in Branches' \ ordered' : canonical'[a] = 0
    BY <1>1, <1>3 DEF LineageInv, PassInv
<1> QED BY <1>1, <1>4, <1>5, <1>6, <1>7 DEF LineageInv, PassInv, ParentsOrdered

\* A graph is checked once, and nothing of it changes then.
LEMMA LineageStep == LineageInv /\ [LineageNext]_lineageVars => LineageInv'
<1> SUFFICES ASSUME LineageInv, [LineageNext]_lineageVars PROVE LineageInv'
    OBVIOUS
<1>1. CASE CheckGraph
    BY <1>1 DEF CheckGraph, graphVars, LineageInv, LineageTypes, PassInv, ParentsOrdered,
        NoFurther, StandsAfterParents, Numbered
<1>2. CASE Replay
    BY <1>2 DEF Replay, graphVars, LineageInv, LineageTypes, PassInv, ParentsOrdered,
        NoFurther, StandsAfterParents, Numbered
<1>3. CASE UNCHANGED lineageVars
    BY <1>3 DEF lineageVars, graphVars, LineageInv, LineageTypes, PassInv, ParentsOrdered,
        NoFurther, StandsAfterParents, Numbered
<1> QED BY <1>1, <1>2, <1>3, PassStep DEF LineageNext

LEMMA LineageInvariant == LineageSpec => []LineageInv
<1>1. LineageInit => LineageInv
    BY LineageAssumption DEF LineageInit, LineageInv, LineageTypes, PassInv
<1> QED BY <1>1, LineageStep, PTL DEF LineageSpec

\* ReplayFollowsParents: for any number of branches and any graph.  No claim, of
\* whatever type, moves a branch further from the root than right after its last
\* parent; claims that are numbers do not move it at all.
THEOREM ReplayFollowsParentsHolds == LineageSpec => []ReplayFollowsParents
<1>1. LineageInv => ReplayFollowsParents
    BY DEF LineageInv, PassInv, ReplayFollowsParents
<1> QED BY <1>1, LineageInvariant, PTL

-----------------------------------------------------------------------------
(* What the parents determine *)

\* A set of numbers has a least one: the intervals that end in it are finite,
\* and one of them contains no other.
LEMMA LeastNumber ==
    ASSUME NEW S, S \subseteq Nat, S # {}
    PROVE  \E n \in S : \A m \in S : n <= m
<1> DEFINE T == {0 .. n : n \in S}
<1>1. IsWellFoundedOn(StrictSubsetOrdering(Nat), FiniteSubsetsOf(Nat))
    BY FS_StrictSubsetOrderingWellFounded
<1>2. \A n \in S : 0 .. n \subseteq Nat /\ IsFiniteSet(0 .. n)
    BY FS_Interval
<1>3. T \subseteq FiniteSubsetsOf(Nat) /\ T # {}
    BY <1>2 DEF FiniteSubsetsOf
<1> HIDE DEF T
<1>4. PICK x \in T : \A y \in T : <<y, x>> \notin StrictSubsetOrdering(Nat)
    BY <1>1, <1>3, WFMin
<1>5. PICK n \in S : x = 0 .. n
    BY <1>4 DEF T
<1>6. ASSUME NEW m \in S, m < n PROVE FALSE
  <2>1. 0 .. m \in T /\ 0 .. m \subseteq Nat /\ 0 .. n \subseteq Nat
        BY DEF T
  <2>2. 0 .. m \subseteq 0 .. n /\ n \in 0 .. n /\ n \notin 0 .. m
        BY <1>6
  <2> QED BY <1>4, <1>5, <2>1, <2>2 DEF StrictSubsetOrdering
<1> QED BY <1>6

\* A branch of a set that stands before, or beside, every other of the set.
LEMMA FirstOfBranches ==
    ASSUME NEW places \in [Branches -> Nat], NEW S \in SUBSET Branches, S # {}
    PROVE  \E b \in S : \A a \in S : places[b] <= places[a]
<1> DEFINE N == {places[b] : b \in S}
<1>1. N \subseteq Nat /\ N # {}
    OBVIOUS
<1>2. PICK n \in N : \A m \in N : n <= m
  <2> HIDE DEF N
  <2> QED BY <1>1, LeastNumber
<1> QED BY <1>2

\* Two ways to put every branch right after its parents are the same: the first
\* branch they place differently would have parents they place alike.
LEMMA PlacesAreUnique ==
    ASSUME parents \in [Branches -> SUBSET Branches],
           NEW f \in [Branches -> Nat], NEW g \in [Branches -> Nat],
           \A b \in Branches : StandsAfterParents(f, b),
           \A b \in Branches : StandsAfterParents(g, b)
    PROVE  f = g
<1> DEFINE D == {b \in Branches : f[b] # g[b]}
<1> SUFFICES ASSUME D # {} PROVE FALSE
    OBVIOUS
<1>1. PICK b \in D : \A a \in D : f[b] <= f[a]
    BY FirstOfBranches
<1>2. /\ b \in Branches /\ f[b] \in Nat /\ g[b] \in Nat /\ f[b] # g[b]
      /\ \A p \in parents[b] : p \in Branches /\ f[p] \in Nat /\ g[p] \in Nat
    BY <1>1
<1>3. \A p \in parents[b] : f[p] < f[b] /\ g[p] < g[b]
    BY <1>2 DEF StandsAfterParents
<1>4. \A p \in parents[b] : f[p] = g[p]
    BY <1>1, <1>2, <1>3
<1>5. /\ f[b] > 0 => \E p \in parents[b] : f[b] = f[p] + 1
      /\ g[b] > 0 => \E p \in parents[b] : g[b] = g[p] + 1
    BY <1>2 DEF StandsAfterParents
<1> QED BY <1>2, <1>3, <1>4, <1>5

\* The places a replay has computed from claims that are numbers are the only
\* ones the parents allow.
ParentsDetermine ==
    replay = "replayed" /\ Numbered =>
      \A places \in [Branches -> Nat] :
        (\A b \in Branches : StandsAfterParents(places, b)) => canonical = places

\* What the replay fingerprint of verifyRootprint commits to is a function of
\* the parents where every claim is a number: two Rootprints with the same
\* branches and parents that are both replayed get the same places, whichever
\* numbers their writers claimed.  Texts and missing sequences, which the code
\* does not refuse, can give others.
THEOREM ReplayIsDetermined == LineageSpec => []ParentsDetermine
<1>1. LineageInv => ParentsDetermine
    BY PlacesAreUnique DEF LineageInv, LineageTypes, PassInv, ParentsDetermine
<1> QED BY <1>1, LineageInvariant, PTL

\* A set that lacks an element of a finite set around it has fewer.
LEMMA FewerElements ==
    ASSUME NEW B, IsFiniteSet(B), NEW A \in SUBSET B, NEW x \in B, x \notin A
    PROVE  Cardinality(A) < Cardinality(B)
<1>1. /\ IsFiniteSet(A) /\ Cardinality(A) <= Cardinality(B)
      /\ Cardinality(B) = Cardinality(A) => B = A
    BY FS_Subset
<1>2. Cardinality(A) \in Nat /\ Cardinality(B) \in Nat
    BY <1>1, FS_CardinalityType
<1> QED BY <1>1, <1>2

\* In a cycle whose claims are numbers, or all texts, some parent is not claimed
\* before its child: the branch of the cycle that has the fewest before it has a
\* parent in it.  What detectCycles is needed for are cycles with other claims,
\* and those that mix numbers and texts.
THEOREM OrderedClaimsHaveNoCycle ==
    ASSUME parents \in [Branches -> SUBSET Branches],
           claimed \in [Branches -> Claims],
           \A b \in Branches : ParentsOrdered(b),
           NEW type \in {"number", "text"},
           NEW S \in SUBSET Branches, S # {},
           \A b \in S : claimed[b].type = type
    PROVE  \E b \in S : parents[b] \cap S = {}
<1> DEFINE stands == [b \in S |-> IF type = "text" THEN claimed[b].rank
                                  ELSE claimed[b].value]
           Before(b) == {a \in S : stands[a] < stands[b]}
           N == {Cardinality(Before(b)) : b \in S}
<1>1. IsFiniteSet(S) /\ \A b \in S : b \in Branches /\ claimed[b] \in Claims
    BY LineageAssumption, FS_Subset
<1>2. \A b \in S : stands[b] \in Int
    BY <1>1, LineageAssumption
<1>3. \A a, b \in S : stands[a] >= stands[b] => AtLeast(claimed[a], claimed[b])
  <2> TAKE a, b \in S
  <2>1. CASE type = "text"
        BY <2>1 DEF AtLeast
  <2>2. CASE type = "number"
    <3>1. /\ claimed[a].value \in Int /\ claimed[b].value \in Int
          /\ claimed[a].value # NaN /\ claimed[b].value # NaN
          BY <1>1, <2>2, LineageAssumption
    <3> QED BY <2>2, <3>1 DEF AtLeast
  <2> QED BY <2>1, <2>2
<1> HIDE DEF stands
<1>4. \A b \in S : Cardinality(Before(b)) \in Nat
  <2> TAKE b \in S
  <2>1. Before(b) \in SUBSET S
        OBVIOUS
  <2> HIDE DEF Before
  <2> QED BY <1>1, <2>1, FS_Subset, FS_CardinalityType
<1>5. PICK b \in S : \A a \in S : Cardinality(Before(b)) <= Cardinality(Before(a))
  <2> HIDE DEF Before
  <2>1. N \subseteq Nat /\ N # {}
        BY <1>4
  <2> HIDE DEF N
  <2>2. PICK n \in N : \A m \in N : n <= m
        BY <2>1, LeastNumber
  <2> QED BY <2>2 DEF N
<1>6. ASSUME NEW p \in parents[b], p \in S PROVE FALSE
  <2>1. ~AtLeast(claimed[p], claimed[b])
        BY <1>1, <1>6 DEF ParentsOrdered
  <2>2. stands[p] < stands[b]
        BY <1>2, <1>3, <1>6, <2>1
  <2>3. Cardinality(Before(p)) < Cardinality(Before(b))
    <3>1. p \in S /\ b \in S /\ \A x \in S : stands[x] \in Int
        BY <1>2, <1>6
    <3>2. Before(p) \in SUBSET Before(b) /\ p \in Before(b) /\ p \notin Before(p)
        BY <2>2, <3>1
    <3>3. Before(b) \in SUBSET S
        OBVIOUS
    <3> HIDE DEF Before
    <3>4. IsFiniteSet(Before(b))
        BY <1>1, <3>3, FS_Subset
    <3> QED BY <3>2, <3>4, FewerElements
  <2> HIDE DEF Before
  <2> QED BY <1>4, <1>5, <1>6, <2>3
<1> QED BY <1>6
=============================================================================
