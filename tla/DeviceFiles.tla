---------------------------- MODULE DeviceFiles ----------------------------
(***************************************************************************)
(* keyxym-mobile.ts and personal-weave.ts over keyxym-personal-store.ts:    *)
(* source files kept on the device, with a journal of what a transfer to    *)
(* the (simulated) peer has acknowledged, so that an interrupted transfer   *)
(* resumes.  A store is changed by whole transactions; the pages that share *)
(* it are not told.  A transfer of the mobile page awaits each chunk and    *)
(* each journal, and goes by whatever object is active when it goes on.     *)
(***************************************************************************)
EXTENDS Naturals, FiniteSets

CONSTANTS
    MobileTabs,     \* tabs of the mobile page
    Objects,        \* source files, named by their digest
    ChunkCount,     \* [Objects -> Nat]
    NoObject

ASSUME DeviceFilesAssumption ==
    ChunkCount \in [Objects -> Nat \ {0}] /\ NoObject \notin Objects

ChunksIn(o) == 1..ChunkCount[o]

VARIABLES
    held,           \* META_STORE and BLOB_STORE
    journal,        \* JOURNAL_STORE: a record of each object, or NoJournal
    activeObject,   \* of each tab: an object, or NoObject
    buttons,        \* of each tab: "capture", and "object" for those that act on it
    syncRunning,    \* the flag of each tab
    ingest,         \* the file each tab ingests; bound: one at a time
    transfer,       \* the transfer each tab is in, or NoTransfer
    removal,        \* what each tab deletes, and how far it is
    replicated,     \* history: the chunks of each object the peer acknowledged
    mixed           \* history: objects that one transfer mixed up

storeVars == <<held, journal>>
historyVars == <<replicated, mixed>>
deviceFilesVars ==
    <<storeVars, activeObject, buttons, syncRunning, ingest, transfer, removal, historyVars>>

NoJournal == [acknowledged |-> {}, complete |-> FALSE, there |-> FALSE]
Journal(acknowledged, complete) ==
    [acknowledged |-> acknowledged, complete |-> complete, there |-> TRUE]
NoTransfer == [at |-> "none", object |-> NoObject, acknowledged |-> {}, missing |-> {}]
NoIngest == [at |-> "none", object |-> NoObject]
NoRemoval == [at |-> "none", objects |-> {}]

\* The page binds its buttons, then lists what is stored.
DeviceFilesInit ==
    /\ held = {} /\ journal = [o \in Objects |-> NoJournal]
    /\ activeObject = [p \in MobileTabs |-> NoObject]
    /\ buttons = [p \in MobileTabs |-> {"capture"}]
    /\ syncRunning = [p \in MobileTabs |-> FALSE]
    /\ ingest = [p \in MobileTabs |-> NoIngest]
    /\ transfer = [p \in MobileTabs |-> NoTransfer]
    /\ removal = [p \in MobileTabs |-> [at |-> "boot", objects |-> {}]]
    /\ replicated = [o \in Objects |-> {}] /\ mixed = {}

\* setControls, for an object or none.
Controls(enabled, object) ==
    IF ~enabled THEN {} ELSE IF object = NoObject THEN {"capture"} ELSE {"capture", "object"}

-----------------------------------------------------------------------------
(* Ingestion.                                                              *)

\* The picker and the sample: the file is read and hashed chunk by chunk.
IngestFile(p, o) ==
    /\ "capture" \in buttons[p] /\ ingest[p] = NoIngest
    /\ buttons' = [buttons EXCEPT ![p] = Controls(FALSE, activeObject[p])]
    /\ ingest' = [ingest EXCEPT ![p] = [at |-> "read", object |-> o]]
    /\ UNCHANGED <<storeVars, activeObject, syncRunning, transfer, removal, historyVars>>

\* Metadata, bytes and an empty journal, in one transaction; a file ingested
\* again starts its journal again.
PersistPersonalObject(p) ==
    /\ ingest[p].at = "read"
    /\ held' = held \cup {ingest[p].object}
    /\ journal' = [journal EXCEPT ![ingest[p].object] = Journal({}, FALSE)]
    /\ ingest' = [ingest EXCEPT ![p].at = "persisted"]
    /\ UNCHANGED <<activeObject, buttons, syncRunning, transfer, removal, historyVars>>

\* It becomes the active object, and the buttons come back.
ObjectAdmitted(p) ==
    /\ ingest[p].at = "persisted"
    /\ activeObject' = [activeObject EXCEPT ![p] = ingest[p].object]
    /\ buttons' = [buttons EXCEPT ![p] = Controls(TRUE, ingest[p].object)]
    /\ ingest' = [ingest EXCEPT ![p] = NoIngest]
    /\ UNCHANGED <<storeVars, syncRunning, transfer, removal, historyVars>>

\* The file cannot be read, or the store refuses it: nobody handles the
\* rejection, and the buttons stay off.
IngestFails(p) ==
    /\ ingest[p].at = "read"
    /\ ingest' = [ingest EXCEPT ![p] = NoIngest]
    /\ UNCHANGED <<storeVars, activeObject, buttons, syncRunning, transfer, removal,
                   historyVars>>

-----------------------------------------------------------------------------
(* Transfer: synchronize.                                                  *)

Synchronize(p) ==
    /\ "object" \in buttons[p] /\ activeObject[p] # NoObject /\ ~syncRunning[p]
    /\ syncRunning' = [syncRunning EXCEPT ![p] = TRUE]
    /\ buttons' = [buttons EXCEPT ![p] = Controls(FALSE, activeObject[p])]
    /\ transfer' = [transfer EXCEPT ![p] =
                       [NoTransfer EXCEPT !.at = "journal", !.object = activeObject[p]]]
    /\ UNCHANGED <<storeVars, activeObject, ingest, removal, historyVars>>

\* A transfer of one object goes on with another, which became active.
Mixes(p) ==
    IF activeObject[p] = transfer[p].object THEN mixed
    ELSE mixed \cup {activeObject[p], transfer[p].object}

UnacknowledgedButLast(o, acknowledged) == (ChunksIn(o) \ {ChunkCount[o]}) \ acknowledged
\* What the journal acknowledges is not sent again.
Unacknowledged(o, acknowledged) == ChunksIn(o) \ acknowledged
ReadJournal(p) ==
    /\ transfer[p].at = "journal" /\ activeObject[p] # NoObject
    /\ LET acknowledged == journal[transfer[p].object].acknowledged IN
       transfer' = [transfer EXCEPT ![p].at = "chunks",
                       ![p].acknowledged = acknowledged,
                       ![p].missing = Unacknowledged(activeObject[p], acknowledged)]
    /\ mixed' = Mixes(p)
    /\ UNCHANGED <<storeVars, activeObject, buttons, syncRunning, ingest, removal, replicated>>

\* persistJournal, for the object that is active now.
AllAcknowledged(o, acknowledged) == Cardinality(acknowledged) = ChunkCount[o]
PersistJournal(p, acknowledged, complete) ==
    /\ journal' = [journal EXCEPT ![activeObject[p]] = Journal(acknowledged, complete)]
    /\ mixed' = Mixes(p)

\* A transfer ends or pauses: setControls(true).
TransferStops(p) ==
    /\ transfer' = [transfer EXCEPT ![p] = NoTransfer]
    /\ syncRunning' = [syncRunning EXCEPT ![p] = FALSE]
    /\ buttons' = [buttons EXCEPT ![p] = Controls(TRUE, activeObject[p])]

\* One chunk, in order; its acknowledgement is in the journal before the next.
\* The interrupt button pauses the transfer after it.  renderObject offers the
\* buttons of the object in the middle of the transfer.
NextMissing(p) == CHOOSE c \in transfer[p].missing : \A d \in transfer[p].missing : c <= d
AcknowledgeChunk(p, interrupted) ==
    /\ transfer[p].at = "chunks" /\ transfer[p].missing # {}
    /\ activeObject[p] # NoObject /\ NextMissing(p) \in ChunksIn(activeObject[p])
    /\ LET o == activeObject[p]
           chunk == NextMissing(p)
           acknowledged == transfer[p].acknowledged \cup {chunk} IN
       /\ replicated' = [replicated EXCEPT ![o] = @ \cup {chunk}]
       /\ PersistJournal(p, acknowledged, AllAcknowledged(o, acknowledged))
       /\ IF interrupted
          THEN TransferStops(p)
          ELSE /\ transfer' = [transfer EXCEPT ![p].acknowledged = acknowledged,
                                               ![p].missing = @ \ {chunk}]
               /\ buttons' = [buttons EXCEPT ![p] = @ \cup {"object"}]
               /\ UNCHANGED syncRunning
    /\ UNCHANGED <<held, activeObject, ingest, removal>>

Converge(p) ==
    /\ transfer[p].at = "chunks" /\ transfer[p].missing = {} /\ activeObject[p] # NoObject
    /\ PersistJournal(p, transfer[p].acknowledged, TRUE)
    /\ TransferStops(p)
    /\ UNCHANGED <<held, activeObject, ingest, removal, replicated>>

\* The active object has gone or has no such chunk, or the store refuses a
\* journal: the transfer throws, and the page takes it for running from then on.
TransferThrows(p) ==
    /\ transfer[p].at # "none"
    /\ transfer' = [transfer EXCEPT ![p] = NoTransfer]
    /\ UNCHANGED <<storeVars, activeObject, buttons, syncRunning, ingest, removal, historyVars>>

-----------------------------------------------------------------------------
(* Deletion, by either page.                                               *)

Forget(objects) ==
    /\ held' = held \ objects
    /\ journal' = [o \in Objects |-> IF o \in objects THEN NoJournal ELSE journal[o]]

DeleteActiveObject(p) ==
    /\ "object" \in buttons[p] /\ activeObject[p] # NoObject /\ ~syncRunning[p]
    /\ removal[p] = NoRemoval
    /\ removal' = [removal EXCEPT ![p] = [at |-> "delete", objects |-> {activeObject[p]}]]
    /\ UNCHANGED <<storeVars, activeObject, buttons, syncRunning, ingest, transfer, historyVars>>

ClearAllObjects(p) ==
    /\ ~syncRunning[p] /\ removal[p] = NoRemoval
    /\ removal' = [removal EXCEPT ![p] = [at |-> "clear", objects |-> Objects]]
    /\ UNCHANGED <<storeVars, activeObject, buttons, syncRunning, ingest, transfer, historyVars>>

\* deletePersonalObject and clearPersonalWeave: one transaction each.
DeletePersonalObject(p) ==
    /\ removal[p].at \in {"delete", "clear"}
    /\ Forget(removal[p].objects)
    /\ removal' = [removal EXCEPT ![p].at = IF @ = "clear" THEN "cleared" ELSE "list"]
    /\ UNCHANGED <<activeObject, buttons, syncRunning, ingest, transfer, historyVars>>

\* The store refuses: what is shown stays as it is.
DeletionFails(p) ==
    /\ removal[p].at \in {"delete", "clear"}
    /\ removal' = [removal EXCEPT ![p] = NoRemoval]
    /\ UNCHANGED <<storeVars, activeObject, buttons, syncRunning, ingest, transfer, historyVars>>

\* After a deletion, and when the page boots, the newest object that is left
\* becomes active; any of them here.
ShowListed(p, o) ==
    /\ removal[p].at \in {"boot", "list", "cleared"}
    /\ IF removal[p].at = "cleared" \/ held = {} THEN o = NoObject ELSE o \in held
    /\ activeObject' = [activeObject EXCEPT ![p] = o]
    /\ buttons' = [buttons EXCEPT ![p] =
                      IF o # NoObject THEN @ \cup {"object"}
                      ELSE IF removal[p].at = "boot" THEN @ ELSE @ \ {"object"}]
    /\ removal' = [removal EXCEPT ![p] = NoRemoval]
    /\ UNCHANGED <<storeVars, syncRunning, ingest, transfer, historyVars>>

\* removeObject and clearAll of the Personal Weave page, whose list may be old.
RemoveObject(o) ==
    /\ Forget({o})
    /\ UNCHANGED <<activeObject, buttons, syncRunning, ingest, transfer, removal, historyVars>>
ClearAll ==
    /\ Forget(Objects)
    /\ UNCHANGED <<activeObject, buttons, syncRunning, ingest, transfer, removal, historyVars>>

DeviceFilesNext ==
    \/ \E p \in MobileTabs :
         \/ \E o \in Objects : IngestFile(p, o)
         \/ PersistPersonalObject(p) \/ ObjectAdmitted(p) \/ IngestFails(p)
         \/ Synchronize(p) \/ ReadJournal(p)
         \/ \E interrupted \in BOOLEAN : AcknowledgeChunk(p, interrupted)
         \/ Converge(p) \/ TransferThrows(p)
         \/ DeleteActiveObject(p) \/ ClearAllObjects(p)
         \/ DeletePersonalObject(p) \/ DeletionFails(p)
         \/ \E o \in Objects \cup {NoObject} : ShowListed(p, o)
    \/ \E o \in Objects : RemoveObject(o)
    \/ ClearAll

DeviceFilesSpec == DeviceFilesInit /\ [][DeviceFilesNext]_deviceFilesVars

-----------------------------------------------------------------------------
\* A journal acknowledges only chunks of its object that reached the peer, and
\* is complete only when all of them did, through interrupts, resumed and
\* concurrent transfers, files ingested again and deletions by other pages
\* (synchronize, persistJournal, persistPersonalObject).  The exception is an
\* object that became active in the middle of the transfer of another one: its
\* journal takes the acknowledgements of the other (mixed).
JournalCountsReplicated ==
    \A o \in Objects \ mixed :
        /\ journal[o].acknowledged \subseteq replicated[o]
        /\ journal[o].complete => replicated[o] = ChunksIn(o)
=============================================================================
