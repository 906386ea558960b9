------------------------------ MODULE WeaveNode ------------------------------
(***************************************************************************)
(* The Object Weave node (services/tessaryn-weave-node/src/lib.rs): the    *)
(* HTTP handlers that admit an artifact in resumable chunks, assemble and  *)
(* verify it, keep it by digest and issue a publication receipt.           *)
(*                                                                         *)
(* The state is the node's directory tree, which outlives the process, and *)
(* the position of the blocking tasks that work on it.  Two locks order    *)
(* those tasks: upload_lock (begin_upload, store_chunk and the commit      *)
(* marker) and commit_lock (commit_upload).  A step of this module is one  *)
(* durable change of the tree, or one read of it whose answer is used      *)
(* after other tasks may have run.                                         *)
(***************************************************************************)
EXTENDS WeavePolicy

CONSTANTS
  Commits,      \* names of commit_upload_blocking tasks
  Sent,         \* BOUND: whether a chunk sent may be right, wrong or either
  MaxAge,       \* BOUND: how old a directory may grow, 2 for no bound
  MaxCrashes,   \* BOUND: how often the process may be killed
  IoFailures,   \* whether a file operation may fail (a full disk)
  Disconnects,  \* whether a client may drop its commit request
  NoUpload, NoCommit

ASSUME NamesAssumption == NoUpload \notin Uploads /\ NoCommit \notin Commits
ASSUME FaultsAssumption == /\ Sent \subseteq BOOLEAN
                           /\ MaxAge \in 0 .. 2
                           /\ MaxCrashes \in Nat
                           /\ IoFailures \in BOOLEAN
                           /\ Disconnects \in BOOLEAN

VARIABLES
  dirs,        \* uploads/<id> directories that exist
  files,       \* the files in each of them
  age,         \* how long ago each of them was last modified
  objects,     \* digests with a file in objects/
  receipts,    \* uploads with a receipt in publications/
  temporary,   \* what tmp/<id>.artifact.tmp holds: nothing, the signed content or not
  begin,       \* the begin_upload that holds upload_lock, if any
  task,        \* the commit_upload_blocking tasks
  commitLock,  \* the task whose request holds commit_lock
  crashes

disk == <<dirs, files, age, objects, receipts, temporary>>
vars == <<disk, begin, task, commitLock, crashes>>

-----------------------------------------------------------------------------
(* Files *)

RetainedBytes == ByteSum(Size, objects)

\* A chunk of the declared length either belongs to the signed artifact or not:
\* store_chunk checks it against the digest sent with it, never the artifact's.
Chunk(i, right) == [name |-> "chunk", index |-> i, right |-> right]
SessionFile == [name |-> "session.json", index |-> 0, right |-> TRUE]
MarkerFile == [name |-> "commit.active", index |-> 0, right |-> TRUE]
File == [name : {"chunk", "session.json", "commit.active"},
         index : Nat, right : BOOLEAN]

HasSession(u) == SessionFile \in files[u]
HasMarker(u) == MarkerFile \in files[u]
HasChunk(u, i) == \E right \in BOOLEAN : Chunk(i, right) \in files[u]
ReadyToCommit(u) == \A i \in 1 .. ChunkCount(u) : HasChunk(u, i)

\* The assembled bytes have the signed digest and length.
Assembles(u) == /\ \A i \in 1 .. ChunkCount(u) : Chunk(i, TRUE) \in files[u]
                /\ Intent[u].bytes = Size[Intent[u].digest]

Stored(u) == Intent[u].digest \in objects
\* Each change of a directory, or of a file in it, renews its modification time.
SetFiles(u, F) == /\ files' = [files EXCEPT ![u] = F]
                  /\ age' = [age EXCEPT ![u] = 0]

\* Age 1 is past upload_ttl_seconds, age 2 past four times that.
PrunableSession(u) == HasSession(u) /\ age[u] >= 1          \* fault: no orphans
PrunableUnmarked(u) == age[u] >= 1 /\ ~HasMarker(u)         \* fault: one limit
Prunable(u) == \/ age[u] = 1 /\ ~HasMarker(u)
               \/ age[u] = 2

-----------------------------------------------------------------------------
(* begin_upload *)

IdleBegin == [at |-> "idle", on |-> NoUpload, todo |-> {}, victim |-> NoUpload,
              doomed |-> {}, counted |-> {}, retained |-> 0]
IdleTask == [at |-> "idle", on |-> NoUpload, left |-> {}]

Init ==
  /\ dirs = {}
  /\ files = [u \in Uploads |-> {}]
  /\ age = [u \in Uploads |-> 0]
  /\ objects = {}
  /\ receipts = {}
  /\ temporary = [u \in Uploads |-> "none"]
  /\ begin = IdleBegin
  /\ task = [c \in Commits |-> IdleTask]
  /\ commitLock = NoCommit
  /\ crashes = 0

UploadLockFree == begin.at = "idle"

\* The request is verified before the lock is taken; prune_stale_uploads then
\* walks the directories it lists.
BeginUpload(u) ==
  /\ UploadLockFree
  /\ Intent[u].bytes <= Policy["max_object_bytes"]
  /\ begin' = [IdleBegin EXCEPT !.at = "prune", !.on = u, !.todo = dirs]
  /\ UNCHANGED <<disk, task, commitLock, crashes>>

PruneVisit(d) ==
  /\ begin.at = "prune" /\ d \in begin.todo
  /\ begin' = IF d \in dirs /\ Prunable(d)
              THEN [begin EXCEPT !.at = "unlink", !.todo = @ \ {d},
                                 !.victim = d, !.doomed = files[d]]
              ELSE [begin EXCEPT !.todo = @ \ {d}]
  /\ UNCHANGED <<disk, task, commitLock, crashes>>

\* remove_dir_all unlinks the entries in the order the directory lists them.
PruneUnlink(f) ==
  /\ begin.at = "unlink"
  /\ begin' = [begin EXCEPT !.doomed = @ \ {f}]
  /\ SetFiles(begin.victim, files[begin.victim] \ {f})
  /\ UNCHANGED <<dirs, objects, receipts, temporary, task, commitLock, crashes>>

PruneRemove ==
  /\ begin.at = "unlink" /\ begin.doomed = {}
  /\ dirs' = dirs \ {begin.victim}
  /\ begin' = [begin EXCEPT !.at = "prune", !.victim = NoUpload]
  /\ UNCHANGED <<files, age, objects, receipts, temporary, task, commitLock,
                 crashes>>

\* A session that is already there is returned as it is.
FindSession ==
  /\ begin.at = "prune" /\ begin.todo = {}
  /\ begin' = IF HasSession(begin.on) THEN IdleBegin
              ELSE [begin EXCEPT !.at = "scan", !.todo = dirs]
  /\ UNCHANGED <<disk, task, commitLock, crashes>>

\* enforce_pending_upload_policy reads session.json of every directory it
\* lists: a directory that has none fails the request, and one that has gone
\* is skipped or fails it, as the removal falls before or after is_dir.
ScanVisit(d) ==
  /\ begin.at = "scan" /\ d \in begin.todo
  /\ \/ /\ HasSession(d)
        /\ begin' = [begin EXCEPT !.todo = @ \ {d}, !.counted = @ \cup {d}]
     \/ d \notin dirs /\ begin' = [begin EXCEPT !.todo = @ \ {d}]
     \/ ~HasSession(d) /\ begin' = IdleBegin
  /\ UNCHANGED <<disk, task, commitLock, crashes>>

\* fault: one session too many
PendingPolicyAllowsOneMore ==
  LET u == begin.on
  IN /\ Cardinality(begin.counted) < Policy["max_active_uploads"]
     /\ Cardinality(OfPublisher(begin.counted, u))
          <= Policy["max_active_uploads_per_publisher"]
     /\ ByteSum(Declared, begin.counted) + Intent[u].bytes
          <= Policy["max_pending_bytes"]
PendingPolicyAllows ==
  LET u == begin.on
  IN /\ Cardinality(begin.counted) < Policy["max_active_uploads"]
     /\ Cardinality(OfPublisher(begin.counted, u))
          < Policy["max_active_uploads_per_publisher"]
     /\ ByteSum(Declared, begin.counted) + Intent[u].bytes
          <= Policy["max_pending_bytes"]

\* The retained bytes are read after the pending sessions, while commits run.
ReadRetainedLater ==                          \* fault: the reading is lost
  /\ begin.at = "scan" /\ begin.todo = {}
  /\ begin' = IF PendingPolicyAllows THEN [begin EXCEPT !.at = "reserve"]
              ELSE IdleBegin
  /\ UNCHANGED <<disk, task, commitLock, crashes>>
ReadRetained ==
  /\ begin.at = "scan" /\ begin.todo = {}
  /\ begin' = IF PendingPolicyAllows
              THEN [begin EXCEPT !.at = "reserve", !.retained = RetainedBytes]
              ELSE IdleBegin
  /\ UNCHANGED <<disk, task, commitLock, crashes>>

\* publication_counts, and the first half of enforce_publisher_quota
ReceiptCapacityPlusOne(u) ==                  \* fault: off by one
  /\ Cardinality(receipts) <= Policy["max_publications"]
  /\ Cardinality(OfPublisher(receipts, u))
       <= Policy["max_publications_per_publisher"]
ReceiptCapacity(u) ==
  /\ Cardinality(receipts) < Policy["max_publications"]
  /\ Cardinality(OfPublisher(receipts, u))
       < Policy["max_publications_per_publisher"]

\* What an upload would add to the retained bytes.
Additional(u) == IF Stored(u) THEN 0 ELSE Intent[u].bytes

ReservesItselfOnly ==                         \* fault: no pending bytes
  begin.retained + Additional(begin.on) <= Policy["max_retained_bytes"]
Reserves ==
  begin.retained + ByteSum(Declared, begin.counted) + Additional(begin.on)
    <= Policy["max_retained_bytes"]

ReservationAllows == Reserves /\ ReceiptCapacity(begin.on)

\* The directory is created first and session.json written into it afterwards.
CreateDirectory ==
  /\ begin.at = "reserve" /\ ReservationAllows
  /\ dirs' = dirs \cup {begin.on}
  /\ age' = [age EXCEPT ![begin.on] = IF begin.on \in dirs THEN @ ELSE 0]
  /\ begin' = [begin EXCEPT !.at = "write"]
  /\ UNCHANGED <<files, objects, receipts, temporary, task, commitLock, crashes>>

RefuseReservation ==
  /\ begin.at = "reserve" /\ ~ReservationAllows
  /\ begin' = IdleBegin
  /\ UNCHANGED <<disk, task, commitLock, crashes>>

WriteSession ==
  /\ begin.at = "write"
  /\ begin.on \in dirs
  /\ SetFiles(begin.on, files[begin.on] \cup {SessionFile})
  /\ begin' = IdleBegin
  /\ UNCHANGED <<dirs, objects, receipts, temporary, task, commitLock, crashes>>

\* A commit of the same upload may have removed the directory since.
SessionUnwritten ==
  /\ begin.at = "write"
  /\ begin.on \notin dirs
  /\ begin' = IdleBegin
  /\ UNCHANGED <<disk, task, commitLock, crashes>>

BeginIoFailure ==
  /\ IoFailures /\ begin.at # "idle"
  /\ begin' = IdleBegin
  /\ UNCHANGED <<disk, task, commitLock, crashes>>

-----------------------------------------------------------------------------
(* store_chunk: under upload_lock from its first read to its write *)

AcceptsChunkAlways(u, i) == HasSession(u)     \* fault: no marker, no clash
AcceptsChunk(u, i) == HasSession(u) /\ ~HasMarker(u) /\ ~HasChunk(u, i)

StoreChunk(u, i, right) ==
  /\ UploadLockFree
  /\ AcceptsChunk(u, i)
  /\ SetFiles(u, files[u] \cup {Chunk(i, right)})
  /\ UNCHANGED <<dirs, objects, receipts, temporary, begin, task, commitLock,
                 crashes>>

-----------------------------------------------------------------------------
(* commit_upload and commit_upload_blocking *)

\* The task has passed begin_commit_marker and owns a CommitMarker.
Marked(c) == task[c].at \notin {"idle", "lookup", "mark"}

Goto(c, place) == task' = [task EXCEPT ![c].at = place]

\* The task ends: CommitMarker, if the task made one, is dropped and with it
\* whatever commit.active is now there; the request lets go of commit_lock.
FinishMarked(c, owns) ==                      \* fault: the marker is not dropped
  /\ task' = [task EXCEPT ![c] = IdleTask]
  /\ commitLock' = IF commitLock = c THEN NoCommit ELSE commitLock
  /\ UNCHANGED <<files, age>>
Finish(c, owns) ==
  LET u == task[c].on
  IN /\ task' = [task EXCEPT ![c] = IdleTask]
     /\ commitLock' = IF commitLock = c THEN NoCommit ELSE commitLock
     /\ IF owns /\ HasMarker(u) THEN SetFiles(u, files[u] \ {MarkerFile})
                                ELSE UNCHANGED <<files, age>>

\* A request that waits for commit_lock has not started.
CommitUpload(c, u) ==
  /\ commitLock = NoCommit /\ task[c].at = "idle"
  /\ commitLock' = c
  /\ task' = [task EXCEPT ![c] = [IdleTask EXCEPT !.at = "lookup", !.on = u]]
  /\ UNCHANGED <<disk, begin, crashes>>

PublishedAndClosed(u) == u \in receipts /\ ~HasSession(u)   \* fault: too strict
Published(u) == u \in receipts

\* An existing receipt is returned; the upload directory is left as it is.
LookupReceipt(c) ==
  /\ task[c].at = "lookup"
  /\ IF Published(task[c].on) THEN Finish(c, FALSE)
     ELSE Goto(c, "mark") /\ UNCHANGED <<commitLock, files, age>>
  /\ UNCHANGED <<dirs, objects, receipts, temporary, begin, crashes>>

\* The marker is created with create_new.
MayMarkAgain(u) == HasSession(u)              \* fault: create
MayMark(u) == HasSession(u) /\ ~HasMarker(u)

\* begin_commit_marker, under upload_lock.
BeginCommitMarker(c) ==
  LET u == task[c].on
  IN /\ task[c].at = "mark" /\ UploadLockFree
     /\ IF MayMark(u)
        THEN /\ SetFiles(u, files[u] \cup {MarkerFile})
             /\ Goto(c, "admit")
             /\ UNCHANGED commitLock
        ELSE Finish(c, FALSE)
     /\ UNCHANGED <<dirs, objects, receipts, temporary, begin, crashes>>

PublisherAlwaysFits(u) ==                     \* fault: earlier receipts forgotten
  Intent[u].bytes <= Policy["max_publisher_bytes"]
PublisherFits(u) ==
  LET own == DigestsOf(OfPublisher(receipts, u))
  IN ByteSum(Size, own)
       + (IF Intent[u].digest \in own THEN 0 ELSE Intent[u].bytes)
       <= Policy["max_publisher_bytes"]

\* enforce_publisher_quota
QuotaAllows(u) ==
  /\ ReceiptCapacity(u)
  /\ PublisherFits(u)
  /\ RetainedBytes + Additional(u) <= Policy["max_retained_bytes"]

CheckQuota(c) ==
  LET u == task[c].on
  IN /\ task[c].at = "admit"
     /\ IF HasSession(u) /\ ReadyToCommit(u) /\ QuotaAllows(u)
        THEN Goto(c, "assemble") /\ UNCHANGED <<commitLock, files, age>>
        ELSE Finish(c, TRUE)
     /\ UNCHANGED <<dirs, objects, receipts, temporary, begin, crashes>>

\* The signed digest and length match and verify_admitted_artifact agrees.
AdmitsUnhashed(u) == ReadyToCommit(u) /\ u \in Admitted \* fault
Admits(u) == Assembles(u) /\ u \in Admitted

\* The chunks are copied to a new file in tmp/ and hashed.  A digest or length
\* mismatch removes that file; a chunk that cannot be opened, or content that
\* verify_admitted_artifact rejects, leaves it there.
Assemble(c) ==
  LET u == task[c].on
      content == IF Assembles(u) THEN "right" ELSE "wrong"
  IN /\ task[c].at = "assemble"
     /\ \/ /\ Admits(u)
           /\ temporary' = [temporary EXCEPT ![u] = content]
           /\ Goto(c, "store") /\ UNCHANGED <<commitLock, files, age>>
        \/ /\ ~Admits(u)
           /\ temporary' = [temporary EXCEPT ![u] =
                              IF ReadyToCommit(u) /\ ~Assembles(u) THEN "none"
                              ELSE content]
           /\ Finish(c, TRUE)
     /\ UNCHANGED <<dirs, objects, receipts, begin, crashes>>

\* An object already there has its digest checked and is kept; otherwise the
\* assembled file is renamed to its digest.  Either way tmp/ no longer holds it.
StoreObject(c) ==
  LET u == task[c].on
  IN /\ task[c].at = "store"
     /\ IF temporary[u] = "none"
        THEN Finish(c, TRUE) /\ UNCHANGED <<objects, temporary>>
        ELSE /\ objects' = IF temporary[u] = "right"
                           THEN objects \cup {Intent[u].digest} ELSE objects
             /\ temporary' = [temporary EXCEPT ![u] = "none"]
             /\ Goto(c, "receipt") /\ UNCHANGED <<commitLock, files, age>>
     /\ UNCHANGED <<dirs, receipts, begin, crashes>>

WriteReceipt(c) ==
  /\ task[c].at = "receipt"
  /\ receipts' = receipts \cup {task[c].on}
  /\ task' = [task EXCEPT ![c].at = "unlink", ![c].left = files[task[c].on]]
  /\ UNCHANGED <<dirs, files, age, objects, temporary, begin, commitLock, crashes>>

\* remove_dir_all(upload_directory), outside upload_lock.
UnlinkFile(c, f) ==
  LET u == task[c].on
  IN /\ task[c].at = "unlink"
     /\ task' = [task EXCEPT ![c].left = @ \ {f}]
     /\ IF f \in files[u] THEN SetFiles(u, files[u] \ {f})
                          ELSE UNCHANGED <<files, age>>
     /\ UNCHANGED <<dirs, objects, receipts, temporary, begin, commitLock, crashes>>

\* A file that came after the listing makes the removal fail.
RemoveDirectory(c) ==
  LET u == task[c].on
  IN /\ task[c].at = "unlink" /\ task[c].left = {}
     /\ dirs' = IF files[u] = {} THEN dirs \ {u} ELSE dirs
     /\ Finish(c, TRUE)
     /\ UNCHANGED <<objects, receipts, temporary, begin, crashes>>

\* Any `?` on a file operation: the error is returned and the marker dropped.
CommitIoFailure(c) ==
  /\ IoFailures /\ task[c].at # "idle"
  /\ Finish(c, Marked(c))
  /\ UNCHANGED <<dirs, objects, receipts, temporary, begin, crashes>>

\* The marker file is created but not written: no CommitMarker will remove it.
MarkerIoFailure(c) ==
  LET u == task[c].on
  IN /\ IoFailures /\ task[c].at = "mark" /\ UploadLockFree
     /\ MayMark(u)
     /\ SetFiles(u, files[u] \cup {MarkerFile})
     /\ task' = [task EXCEPT ![c] = IdleTask]
     /\ commitLock' = IF commitLock = c THEN NoCommit ELSE commitLock
     /\ UNCHANGED <<dirs, objects, receipts, temporary, begin, crashes>>

\* The request's future is dropped with its client's connection.  Its guard of
\* commit_lock goes with it, the blocking task runs on.
Disconnect(c) ==
  /\ Disconnects /\ commitLock = c
  /\ commitLock' = NoCommit
  /\ UNCHANGED <<disk, begin, task, crashes>>

-----------------------------------------------------------------------------
(* The environment *)

\* A directory nobody touches passes upload_ttl_seconds, then four times that.
\* A commit is taken to end within four times the limit from its marker on.
GrowOld(u) ==
  /\ u \in dirs
  /\ age[u] < MaxAge
  /\ age[u] = 0 \/ \A c \in Commits : Marked(c) => task[c].on # u
  /\ age' = [age EXCEPT ![u] = @ + 1]
  /\ UNCHANGED <<dirs, files, objects, receipts, temporary, begin, task,
                 commitLock, crashes>>

\* The process is killed and opened again on the same tree.
Crash ==
  /\ crashes < MaxCrashes
  /\ crashes' = crashes + 1
  /\ begin' = IdleBegin
  /\ task' = [c \in Commits |-> IdleTask]
  /\ commitLock' = NoCommit
  /\ UNCHANGED disk

BeginStep ==
  \/ \E d \in Uploads : PruneVisit(d) \/ ScanVisit(d)
  \/ \E f \in begin.doomed : PruneUnlink(f)
  \/ PruneRemove \/ FindSession \/ ReadRetained
  \/ CreateDirectory \/ RefuseReservation
  \/ WriteSession \/ SessionUnwritten

CommitStep(c) ==
  \/ LookupReceipt(c) \/ BeginCommitMarker(c) \/ CheckQuota(c) \/ Assemble(c)
  \/ StoreObject(c) \/ WriteReceipt(c) \/ RemoveDirectory(c)
  \/ \E f \in task[c].left : UnlinkFile(c, f)

Next ==
  \/ \E u \in Uploads : BeginUpload(u) \/ GrowOld(u)
  \/ BeginStep \/ BeginIoFailure
  \/ \E u \in Uploads : \E i \in 1 .. ChunkCount(u), right \in Sent :
       StoreChunk(u, i, right)
  \/ \E c \in Commits, u \in Uploads : CommitUpload(c, u)
  \/ \E c \in Commits : \/ CommitStep(c) \/ Disconnect(c)
                       \/ CommitIoFailure(c) \/ MarkerIoFailure(c)
  \/ Crash

Spec == Init /\ [][Next]_vars

-----------------------------------------------------------------------------
(* Properties *)

\* Every part of the state has its type.
TypeOK ==
  /\ dirs \subseteq Uploads
  /\ \A u \in Uploads : files[u] # {} => u \in dirs
  /\ files \in [Uploads -> SUBSET File]
  /\ age \in [Uploads -> 0 .. 2]
  /\ objects \subseteq Digests
  /\ receipts \subseteq Uploads
  /\ temporary \in [Uploads -> {"none", "wrong", "right"}]
  /\ begin \in [at : {"idle", "prune", "unlink", "scan", "reserve", "write"},
                on : Uploads \cup {NoUpload}, todo : SUBSET Uploads,
                victim : Uploads \cup {NoUpload}, doomed : SUBSET File,
                counted : SUBSET Uploads, retained : Nat]
  /\ task \in [Commits -> [at : {"idle", "lookup", "mark", "admit", "assemble",
                                 "store", "receipt", "unlink"},
                           on : Uploads \cup {NoUpload}, left : SUBSET File]]
  /\ commitLock \in Commits \cup {NoCommit}
  /\ crashes \in 0 .. MaxCrashes

OpenSessions == {u \in Uploads : HasSession(u)}
Assembling(c) == task[c].at \in {"admit", "assemble", "store"}

\* A receipt answers for content the node holds: its object is stored, has the
\* signed length, and passed verify_admitted_artifact, whatever stopped the
\* commit that wrote it.
ReceiptsBacked ==
  \A u \in receipts : /\ Stored(u)
                      /\ u \in Admitted
                      /\ Intent[u].bytes = Size[Intent[u].digest]

\* The receipt counts stay within their limits: enforce_publisher_quota counts
\* the receipts long before its commit writes one more.
ReceiptsWithinPolicy ==
  /\ Cardinality(receipts) <= Policy["max_publications"]
  /\ \A u \in receipts : Cardinality(OfPublisher(receipts, u))
                           <= Policy["max_publications_per_publisher"]

\* The distinct content a publisher has receipts for stays within
\* max_publisher_bytes.
PublisherBytesWithinPolicy ==
  \A u \in receipts : ByteSum(Size, DigestsOf(OfPublisher(receipts, u)))
                        <= Policy["max_publisher_bytes"]

\* The node implements the publication ledger, which reserves, retains and
\* publishes in one step each, although begin_upload reads the sessions, the
\* objects and the receipts one after the other while commits change them.
Ledger == INSTANCE PublicationLedger WITH open <- OpenSessions
ImplementsLedger == Ledger!Spec

\* Its invariants are therefore the node's: nothing retained or reserved is
\* above the limits, and the sessions are within theirs.
Reserved == Ledger!Reserved
PendingWithinPolicy == Ledger!PendingWithinPolicy

\* A receipt is never written over an earlier one of the same upload: its
\* accepted_at_unix_us would change.
ReceiptWrittenOnce ==
  \A c \in Commits : task[c].at = "receipt" => task[c].on \notin receipts

\* commit.active keeps a second task from assembling an upload that has no
\* receipt yet, even when commit_lock no longer keeps it out.
OneCommitter ==
  \A c, d \in Commits :
    /\ c # d /\ task[c].on = task[d].on
    /\ Assembling(c) /\ Assembling(d)
    => task[c].on \in receipts

Chunks(F) == {f \in F : f.name = "chunk"}
KeepsChunks(c) ==
  LET u == task[c].on
  IN Assembling(c) /\ task'[c].on = u /\ u \notin receipts
       => Chunks(files'[u]) = Chunks(files[u])

\* The chunks that were complete when the commit was admitted are the chunks it
\* assembles: neither store_chunk nor pruning touches them in between.
AssembledChunksFrozen == [][\A c \in Commits : KeepsChunks(c)]_vars

\* Without a crash or a failed write, commit.active belongs to a running task:
\* no early return of commit_upload_blocking leaves an upload locked.
MarkerOwned ==
  crashes = 0 /\ ~IoFailures =>
    \A u \in Uploads : HasMarker(u) => \E c \in Commits : task[c].on = u

-----------------------------------------------------------------------------
(* Progress *)

\* The blocking tasks run, clients go on asking for uploads, and time passes
\* (SF: a commit only holds back the age at which its own directory counts as
\* abandoned).  Nothing is assumed of clients that own an upload.
Fairness ==
  /\ WF_vars(BeginStep)
  /\ \A c \in Commits : WF_vars(CommitStep(c))
  /\ WF_vars(\E u \in Uploads : BeginUpload(u))
  /\ \A u \in Uploads : SF_vars(GrowOld(u))
FairSpec == Spec /\ Fairness

\* A directory without session.json makes every begin_upload fail while its
\* sessions are scanned; pruning removes it in the end.
Orphan(u) == u \in dirs /\ ~HasSession(u)
OrphansRemoved == \A u \in Uploads : Orphan(u) ~> ~Orphan(u)

\* A session left behind by a published upload gives its reservation back.
PublishedSessionsReleased ==
  \A u \in Uploads : u \in receipts /\ HasSession(u) ~> ~HasSession(u)
=============================================================================
