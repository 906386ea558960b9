--------------------------- MODULE WeaveNodeProofs ---------------------------
(***************************************************************************)
(* Safety of the Object Weave node for any number of uploads, commit tasks *)
(* and crashes.  The invariants build on one another: the types, who owns  *)
(* commit.active, what backs a receipt; and, on its own, whose marker a    *)
(* marker is.                                                              *)
(***************************************************************************)
EXTENDS WeaveNode, FiniteSetTheorems, TLAPS

-----------------------------------------------------------------------------
(* Types *)

\* Whoever works on an upload works on a real one, and what a pruned directory
\* still holds is on the list of files to be unlinked.
BeginInv ==
  /\ begin.at # "idle" => begin.on \in Uploads
  /\ begin.at = "unlink" => /\ begin.victim \in Uploads
                            /\ files[begin.victim] \subseteq begin.doomed
TaskInv == \A c \in Commits : task[c].at # "idle" => task[c].on \in Uploads
TypeInv == TypeOK /\ BeginInv /\ TaskInv

\* The bytes of finitely many contents are a natural number.
LEMMA ByteSumNat ==
  ASSUME NEW S, IsFiniteSet(S), NEW f
  PROVE  ByteSum(f, S) \in Nat
<1>1. IsFiniteSet(1 .. MaxU64)
  BY FS_Interval, SizesAssumption
<1>2. IsFiniteSet(S \X (1 .. MaxU64))
  BY <1>1, FS_Product
<1>3. IsFiniteSet({b \in S \X (1 .. MaxU64) : b[2] <= f[b[1]]})
  BY <1>2, FS_Subset
<1> QED
  BY <1>3, FS_CardinalityType DEF ByteSum

\* The files of the model are files.
LEMMA FileTypes ==
  /\ SessionFile \in File /\ MarkerFile \in File
  /\ \A i \in Nat, right \in BOOLEAN : Chunk(i, right) \in File
  BY DEF SessionFile, MarkerFile, Chunk, File

\* An empty directory tree without tasks has its type.
LEMMA TypeInit == Init => TypeInv
  BY NamesAssumption, FaultsAssumption
     DEF Init, TypeInv, TypeOK, BeginInv, TaskInv, IdleBegin, IdleTask

\* An owned marker is dropped, or nothing changes in the directory.
LEMMA FinishType ==
  ASSUME TypeInv, NEW c \in Commits, task[c].at # "idle", NEW owns \in BOOLEAN,
         Finish(c, owns)
  PROVE  /\ files' \in [Uploads -> SUBSET File]
         /\ \A u \in Uploads : files'[u] \subseteq files[u]
         /\ age' \in [Uploads -> 0 .. 2]
         /\ task' \in [Commits -> [at : {"idle", "lookup", "mark", "admit",
                                         "assemble", "store", "receipt", "unlink"},
                                   on : Uploads \cup {NoUpload},
                                   left : SUBSET File]]
         /\ commitLock' \in Commits \cup {NoCommit}
         /\ TaskInv'
  BY DEF TypeInv, TypeOK, TaskInv, Finish, SetFiles, IdleTask, HasMarker

\* Giving a directory a new set of files renews its age and nothing else.
LEMMA SetFilesType ==
  ASSUME TypeInv, NEW u \in Uploads, NEW F \in SUBSET File, SetFiles(u, F)
  PROVE  /\ files' \in [Uploads -> SUBSET File]
         /\ files'[u] = F
         /\ \A v \in Uploads : v # u => files'[v] = files[v]
         /\ age' \in [Uploads -> 0 .. 2]
  BY DEF TypeInv, TypeOK, SetFiles

\* Every step keeps the types, and files in directories that exist.
LEMMA TypeStep == TypeInv /\ [Next]_vars => TypeInv'
<1> SUFFICES ASSUME TypeInv, [Next]_vars PROVE TypeInv'
  OBVIOUS
<1> USE NamesAssumption, FaultsAssumption DEF TypeInv, IdleBegin, IdleTask
<1>1. ASSUME NEW u \in Uploads, BeginUpload(u) PROVE TypeInv'
  BY <1>1 DEF BeginUpload, UploadLockFree, disk, TypeOK, BeginInv, TaskInv
<1>2. ASSUME NEW d \in Uploads, PruneVisit(d) PROVE TypeInv'
  BY <1>2 DEF PruneVisit, disk, TypeOK, BeginInv, TaskInv
<1>3. ASSUME NEW f \in begin.doomed, PruneUnlink(f) PROVE TypeInv'
  <2>1. /\ begin.victim \in Uploads
        /\ files[begin.victim] \ {f} \in SUBSET File
    BY <1>3 DEF PruneUnlink, TypeOK, BeginInv
  <2>2. /\ files' \in [Uploads -> SUBSET File]
        /\ files'[begin.victim] = files[begin.victim] \ {f}
        /\ \A v \in Uploads : v # begin.victim => files'[v] = files[v]
        /\ age' \in [Uploads -> 0 .. 2]
    BY <1>3, <2>1, SetFilesType DEF PruneUnlink
  <2> QED
    BY <1>3, <2>1, <2>2 DEF PruneUnlink, TypeOK, BeginInv, TaskInv
<1>4. CASE PruneRemove
  BY <1>4 DEF PruneRemove, TypeOK, BeginInv, TaskInv
<1>5. CASE FindSession
  BY <1>5 DEF FindSession, disk, TypeOK, BeginInv, TaskInv
<1>6. ASSUME NEW d \in Uploads, ScanVisit(d) PROVE TypeInv'
  <2>1. CASE begin' = [begin EXCEPT !.todo = @ \ {d}, !.counted = @ \cup {d}]
    BY <1>6, <2>1 DEF ScanVisit, disk, TypeOK, BeginInv, TaskInv
  <2>2. CASE begin' = [begin EXCEPT !.todo = @ \ {d}]
    BY <1>6, <2>2 DEF ScanVisit, disk, TypeOK, BeginInv, TaskInv
  <2>3. CASE begin' = IdleBegin
    BY <1>6, <2>3 DEF ScanVisit, disk, TypeOK, BeginInv, TaskInv
  <2> QED
    BY <1>6, <2>1, <2>2, <2>3 DEF ScanVisit
<1>7. CASE ReadRetained
  <2>1. RetainedBytes \in Nat
    BY FiniteAssumption, FS_Subset, ByteSumNat DEF TypeOK, RetainedBytes
  <2> QED
    BY <1>7, <2>1 DEF ReadRetained, disk, TypeOK, BeginInv, TaskInv
<1>8. CASE CreateDirectory
  BY <1>8 DEF CreateDirectory, TypeOK, BeginInv, TaskInv
<1>9. CASE RefuseReservation
  BY <1>9 DEF RefuseReservation, disk, TypeOK, BeginInv, TaskInv
<1>10. CASE WriteSession
  <2>1. /\ begin.on \in Uploads
        /\ files[begin.on] \cup {SessionFile} \in SUBSET File
    BY <1>10, FileTypes DEF WriteSession, TypeOK, BeginInv
  <2>2. /\ files' \in [Uploads -> SUBSET File]
        /\ \A v \in Uploads : v # begin.on => files'[v] = files[v]
        /\ age' \in [Uploads -> 0 .. 2]
    BY <1>10, <2>1, SetFilesType DEF WriteSession
  <2> QED
    BY <1>10, <2>1, <2>2 DEF WriteSession, TypeOK, BeginInv, TaskInv
<1>11. CASE SessionUnwritten
  BY <1>11 DEF SessionUnwritten, disk, TypeOK, BeginInv, TaskInv
<1>12. CASE BeginIoFailure
  BY <1>12 DEF BeginIoFailure, disk, TypeOK, BeginInv, TaskInv
<1>13. ASSUME NEW u \in Uploads, NEW i \in 1 .. ChunkCount(u),
              NEW right \in Sent, StoreChunk(u, i, right)
       PROVE  TypeInv'
  <2>1. u \in dirs /\ files[u] \cup {Chunk(i, right)} \in SUBSET File
    <3>1. Chunk(i, right) \in File
      BY FileTypes
    <3>2. u \in dirs
      BY <1>13 DEF StoreChunk, AcceptsChunk, HasSession, TypeOK
    <3> QED
      BY <3>1, <3>2 DEF TypeOK
  <2>2. /\ files' \in [Uploads -> SUBSET File]
        /\ \A v \in Uploads : v # u => files'[v] = files[v]
        /\ age' \in [Uploads -> 0 .. 2]
    BY <1>13, <2>1, SetFilesType DEF StoreChunk
  <2> QED
    BY <1>13, <2>1, <2>2
       DEF StoreChunk, UploadLockFree, TypeOK, BeginInv, TaskInv
<1>14. ASSUME NEW c \in Commits, NEW u \in Uploads, CommitUpload(c, u)
       PROVE  TypeInv'
  BY <1>14 DEF CommitUpload, disk, TypeOK, BeginInv, TaskInv
<1>15. ASSUME NEW c \in Commits, LookupReceipt(c) PROVE TypeInv'
  <2>1. CASE Published(task[c].on)
    BY <1>15, <2>1, FinishType DEF LookupReceipt, TypeOK, BeginInv
  <2>2. CASE ~Published(task[c].on)
    BY <1>15, <2>2 DEF LookupReceipt, Goto, TypeOK, BeginInv, TaskInv
  <2> QED
    BY <2>1, <2>2
<1>16. ASSUME NEW c \in Commits, BeginCommitMarker(c) PROVE TypeInv'
  <2>1. CASE MayMark(task[c].on)
    <3>1. /\ task[c].on \in Uploads /\ task[c].on \in dirs
          /\ files[task[c].on] \cup {MarkerFile} \in SUBSET File
      BY <1>16, <2>1, FileTypes
         DEF BeginCommitMarker, MayMark, HasSession, TaskInv, TypeOK
    <3>2. /\ files' \in [Uploads -> SUBSET File]
          /\ \A v \in Uploads : v # task[c].on => files'[v] = files[v]
          /\ age' \in [Uploads -> 0 .. 2]
      BY <1>16, <2>1, <3>1, SetFilesType DEF BeginCommitMarker
    <3> QED
      BY <1>16, <2>1, <3>1, <3>2
         DEF BeginCommitMarker, UploadLockFree, Goto, TypeOK, BeginInv, TaskInv
  <2>2. CASE ~MayMark(task[c].on)
    BY <1>16, <2>2, FinishType DEF BeginCommitMarker, TypeOK, BeginInv
  <2> QED
    BY <2>1, <2>2
<1>17. ASSUME NEW c \in Commits, CheckQuota(c) PROVE TypeInv'
  <2>1. CASE UNCHANGED <<commitLock, files, age>> /\ Goto(c, "assemble")
    BY <1>17, <2>1 DEF CheckQuota, Goto, TypeOK, BeginInv, TaskInv
  <2>2. CASE Finish(c, TRUE)
    BY <1>17, <2>2, FinishType DEF CheckQuota, TypeOK, BeginInv
  <2> QED
    BY <1>17, <2>1, <2>2 DEF CheckQuota
<1>18. ASSUME NEW c \in Commits, Assemble(c) PROVE TypeInv'
  <2>1. temporary' \in [Uploads -> {"none", "wrong", "right"}]
    BY <1>18 DEF Assemble, TypeOK
  <2>2. CASE UNCHANGED <<commitLock, files, age>> /\ Goto(c, "store")
    BY <1>18, <2>1, <2>2 DEF Assemble, Goto, TypeOK, BeginInv, TaskInv
  <2>3. CASE Finish(c, TRUE)
    BY <1>18, <2>1, <2>3, FinishType DEF Assemble, TypeOK, BeginInv
  <2> QED
    BY <1>18, <2>2, <2>3 DEF Assemble
<1>19. ASSUME NEW c \in Commits, StoreObject(c) PROVE TypeInv'
  <2>1. /\ temporary' \in [Uploads -> {"none", "wrong", "right"}]
        /\ objects' \subseteq Digests
    <3>1. task[c].on \in Uploads /\ Intent[task[c].on].digest \in Digests
      BY <1>19, IntentAssumption DEF StoreObject, TaskInv
    <3>2. CASE temporary[task[c].on] = "none"
      BY <1>19, <3>2 DEF StoreObject, TypeOK
    <3>3. CASE temporary[task[c].on] # "none"
      <4>1. temporary' = [temporary EXCEPT ![task[c].on] = "none"]
        BY <1>19, <3>3 DEF StoreObject
      <4>2. objects' \subseteq objects \cup {Intent[task[c].on].digest}
        BY <1>19, <3>3 DEF StoreObject
      <4> QED
        BY <3>1, <4>1, <4>2 DEF TypeOK
    <3> QED
      BY <3>2, <3>3
  <2>2. CASE UNCHANGED <<commitLock, files, age>> /\ Goto(c, "receipt")
    BY <1>19, <2>1, <2>2 DEF StoreObject, Goto, TypeOK, BeginInv, TaskInv
  <2>3. CASE Finish(c, TRUE)
    BY <1>19, <2>1, <2>3, FinishType DEF StoreObject, TypeOK, BeginInv
  <2> QED
    BY <1>19, <2>2, <2>3 DEF StoreObject
<1>20. ASSUME NEW c \in Commits, WriteReceipt(c) PROVE TypeInv'
  <2>1. task[c].on \in Uploads /\ files[task[c].on] \in SUBSET File
    BY <1>20 DEF WriteReceipt, TaskInv, TypeOK
  <2>2. task' = [task EXCEPT ![c] = [task[c] EXCEPT !.at = "unlink",
                                                     !.left = files[task[c].on]]]
    BY <1>20 DEF WriteReceipt, TypeOK
  <2> QED
    BY <1>20, <2>1, <2>2 DEF WriteReceipt, TypeOK, BeginInv, TaskInv
<1>21. ASSUME NEW c \in Commits, NEW f \in task[c].left, UnlinkFile(c, f)
       PROVE  TypeInv'
  <2>1. task[c].on \in Uploads /\ files[task[c].on] \ {f} \in SUBSET File
    BY <1>21 DEF UnlinkFile, TaskInv, TypeOK
  <2>2. /\ files' \in [Uploads -> SUBSET File]
        /\ \A v \in Uploads : files'[v] \subseteq files[v]
        /\ age' \in [Uploads -> 0 .. 2]
    BY <1>21, <2>1, SetFilesType DEF UnlinkFile, TypeOK
  <2> QED
    BY <1>21, <2>1, <2>2 DEF UnlinkFile, TypeOK, BeginInv, TaskInv
<1>22. ASSUME NEW c \in Commits, RemoveDirectory(c) PROVE TypeInv'
  BY <1>22, FinishType DEF RemoveDirectory, TypeOK, BeginInv
<1>23. ASSUME NEW c \in Commits, CommitIoFailure(c) PROVE TypeInv'
  BY <1>23, FinishType DEF CommitIoFailure, Marked, TypeOK, BeginInv
<1>24. ASSUME NEW c \in Commits, MarkerIoFailure(c) PROVE TypeInv'
  <2>1. /\ task[c].on \in Uploads /\ task[c].on \in dirs
        /\ files[task[c].on] \cup {MarkerFile} \in SUBSET File
    BY <1>24, FileTypes DEF MarkerIoFailure, MayMark, HasSession, TaskInv, TypeOK
  <2>2. /\ files' \in [Uploads -> SUBSET File]
        /\ \A v \in Uploads : v # task[c].on => files'[v] = files[v]
        /\ age' \in [Uploads -> 0 .. 2]
    BY <1>24, <2>1, SetFilesType DEF MarkerIoFailure
  <2> QED
    BY <1>24, <2>1, <2>2
       DEF MarkerIoFailure, UploadLockFree, TypeOK, BeginInv, TaskInv
<1>25. ASSUME NEW c \in Commits, Disconnect(c) PROVE TypeInv'
  BY <1>25 DEF Disconnect, disk, TypeOK, BeginInv, TaskInv
<1>26. ASSUME NEW u \in Uploads, GrowOld(u) PROVE TypeInv'
  BY <1>26 DEF GrowOld, TypeOK, BeginInv, TaskInv
<1>27. CASE Crash
  BY <1>27 DEF Crash, disk, TypeOK, BeginInv, TaskInv
<1>28. CASE UNCHANGED vars
  BY <1>28 DEF vars, disk, TypeOK, BeginInv, TaskInv
<1> QED
  BY <1>1, <1>2, <1>3, <1>4, <1>5, <1>6, <1>7, <1>8, <1>9, <1>10, <1>11, <1>12,
     <1>13, <1>14, <1>15, <1>16, <1>17, <1>18, <1>19, <1>20, <1>21, <1>22, <1>23,
     <1>24, <1>25, <1>26, <1>27, <1>28 DEF Next, BeginStep, CommitStep

\* Every part of the node's state keeps its type, and no file is without its
\* directory, whatever begin_upload, commits, disconnections and crashes do.
THEOREM NodeTypes == Spec => []TypeOK
<1>1. TypeInv => TypeOK
  BY DEF TypeInv
<1> QED
  BY TypeInit, TypeStep, <1>1, PTL DEF Spec

-----------------------------------------------------------------------------
(* Who owns commit.active *)

Owner(c) == task[c].at \in {"admit", "assemble", "store", "receipt"}

\* An upload without a receipt has at most one owner, who finds its marker in
\* place; a directory being removed has none, because the marker of an owner is
\* never old enough.
OwnerInv ==
  /\ \A c \in Commits :
       Owner(c) /\ task[c].on \notin receipts => HasMarker(task[c].on)
  /\ \A c, d \in Commits :
       c # d /\ Owner(c) /\ Owner(d) /\ task[c].on = task[d].on
         => task[c].on \in receipts
  /\ \A c \in Commits : task[c].at = "unlink" => task[c].on \in receipts
  /\ \A c \in Commits : Marked(c) => age[task[c].on] \in 0 .. 1
  /\ begin.at = "unlink" =>
       \A c \in Commits :
         Owner(c) /\ task[c].on = begin.victim => begin.victim \in receipts

\* A step keeps the ownership when it makes no owner, takes no marker from one,
\* ages no directory and begins no removal.
LEMMA OwnerFrame ==
  ASSUME TypeInv, TypeInv', OwnerInv,
         receipts \subseteq receipts',
         \A c \in Commits :
           Owner(c)' => Owner(c) /\ task'[c].on = task[c].on,
         \A c \in Commits :
           task'[c].at = "unlink" => /\ Marked(c)
                                     /\ task'[c].on = task[c].on
                                     /\ task'[c].on \in receipts',
         \A c \in Commits :
           Owner(c)' /\ task[c].on \notin receipts' /\ HasMarker(task[c].on)
             => HasMarker(task[c].on)',
         \A u \in Uploads : age'[u] = age[u] \/ age'[u] = 0,
         begin'.at = "unlink" => /\ begin.at = "unlink"
                                 /\ begin'.victim = begin.victim
  PROVE  OwnerInv'
<1> USE DEF OwnerInv
<1>1. \A c \in Commits :
        Owner(c)' /\ task'[c].on \notin receipts' => HasMarker(task[c].on)'
  BY DEF HasMarker
<1>2. \A c, d \in Commits :
        c # d /\ Owner(c)' /\ Owner(d)' /\ task'[c].on = task'[d].on
          => task'[c].on \in receipts'
  OBVIOUS
<1>3. \A c \in Commits : Marked(c)' => age'[task'[c].on] \in 0 .. 1
  <2> SUFFICES ASSUME NEW c \in Commits, Marked(c)'
               PROVE  age'[task'[c].on] \in 0 .. 1
    OBVIOUS
  <2>1. /\ Marked(c)
        /\ task'[c].on = task[c].on
        /\ task[c].on \in Uploads
    BY DEF Marked, Owner, TypeInv, TypeOK, TaskInv
  <2> QED
    BY <2>1
<1>4. begin'.at = "unlink" =>
        \A c \in Commits : Owner(c)' /\ task'[c].on = begin'.victim
                             => begin'.victim \in receipts'
  OBVIOUS
<1> QED
  BY <1>1, <1>2, <1>3, <1>4

\* A task that ends takes the marker only from an upload it owned alone, or one
\* that has its receipt.
LEMMA OwnerFinish ==
  ASSUME TypeInv, TypeInv', OwnerInv, NEW c \in Commits, task[c].at # "idle",
         NEW owns \in BOOLEAN, owns => Marked(c), Finish(c, owns),
         receipts' = receipts, begin' = begin
  PROVE  OwnerInv'
<1> USE DEF Finish, IdleTask
<1>1. \A d \in Commits : d # c => task'[d] = task[d]
  BY DEF TypeInv, TypeOK
<1>2. task'[c] = IdleTask
  BY DEF TypeInv, TypeOK
<1>3. \A d \in Commits : Owner(d)' => d # c /\ Owner(d) /\ task'[d].on = task[d].on
  BY <1>1, <1>2 DEF Owner
<1>4. \A d \in Commits :
        task'[d].at = "unlink" => /\ Marked(d)
                                  /\ task'[d].on = task[d].on
                                  /\ task'[d].on \in receipts'
  BY <1>1, <1>2 DEF Marked, OwnerInv
<1>5. \A u \in Uploads : age'[u] = age[u] \/ age'[u] = 0
  BY DEF SetFiles, TypeInv, TypeOK
<1>6. ASSUME NEW d \in Commits, Owner(d)', task[d].on \notin receipts',
             HasMarker(task[d].on)
      PROVE  HasMarker(task[d].on)'
  <2>1. d # c /\ Owner(d) /\ task[d].on \in Uploads
    BY <1>3, <1>6 DEF Owner, TypeInv, TaskInv
  <2>2. CASE owns /\ task[c].on = task[d].on
    <3>1. task[c].at = "unlink" \/ Owner(c)
      BY <2>2 DEF Marked, Owner, TypeInv, TypeOK
    <3> QED
      BY <1>6, <2>1, <2>2, <3>1 DEF OwnerInv
  <2>3. CASE ~owns \/ task[c].on # task[d].on
    BY <1>6, <2>1, <2>3 DEF SetFiles, HasMarker, TypeInv, TypeOK, TaskInv
  <2> QED
    BY <2>2, <2>3
<1> QED
  BY <1>3, <1>4, <1>5, <1>6, OwnerFrame

\* Nobody owns an upload at the start.
LEMMA OwnerInit == Init => OwnerInv
  BY DEF Init, OwnerInv, Owner, Marked, IdleBegin, IdleTask

\* A step of begin_upload that touches no file frames the ownership, unless it
\* begins a removal.
LEMMA OwnerBegin ==
  ASSUME TypeInv, TypeInv', OwnerInv,
         UNCHANGED <<files, receipts, task>>,
         \A u \in Uploads : age'[u] = age[u] \/ age'[u] = 0,
         begin'.at # "unlink"
  PROVE  OwnerInv'
<1>1. \A c \in Commits : Owner(c)' => Owner(c) /\ task'[c].on = task[c].on
  BY DEF Owner
<1>2. \A c \in Commits : task'[c].at = "unlink" => /\ Marked(c)
                                                  /\ task'[c].on = task[c].on
                                                  /\ task'[c].on \in receipts'
  BY DEF Marked, OwnerInv
<1>3. \A c \in Commits : HasMarker(task[c].on) => HasMarker(task[c].on)'
  BY DEF HasMarker
<1> QED
  BY <1>1, <1>2, <1>3, OwnerFrame

\* The removal of a directory begins only when no task owns it: its age is past
\* the limit and it has no marker, or it is past the limit of a marked one.
LEMMA OwnerPruneVisit ==
  ASSUME TypeInv, TypeInv', OwnerInv, NEW d \in Uploads, PruneVisit(d)
  PROVE  OwnerInv'
<1>1. UNCHANGED <<files, age, receipts, task>>
  BY DEF PruneVisit, disk
<1>2. CASE d \in dirs /\ Prunable(d)
  <2>1. begin' = [begin EXCEPT !.at = "unlink", !.todo = @ \ {d},
                               !.victim = d, !.doomed = files[d]]
    BY <1>2 DEF PruneVisit
  <2>2. begin'.victim = d
    BY <2>1 DEF TypeInv, TypeOK
  <2>3. ASSUME NEW c \in Commits, Owner(c), task[c].on = d PROVE d \in receipts
    <3>1. age[d] \in 0 .. 1
      BY <2>3 DEF OwnerInv, Owner, Marked
    <3>2. ~HasMarker(d)
      BY <1>2, <3>1 DEF Prunable
    <3> QED
      BY <2>3, <3>2 DEF OwnerInv
  <2> QED
    BY <1>1, <2>2, <2>3 DEF OwnerInv, Owner, Marked, HasMarker
<1>3. CASE ~(d \in dirs /\ Prunable(d))
  <2>1. begin'.at # "unlink"
    BY <1>3 DEF PruneVisit, TypeInv, TypeOK
  <2> QED
    BY <1>1, <2>1, OwnerBegin
<1> QED
  BY <1>2, <1>3

\* Files are unlinked only where nobody owns the marker: in a directory pruning
\* removes, or one whose upload has its receipt.
LEMMA OwnerUnlink ==
  ASSUME TypeInv, TypeInv', OwnerInv, NEW u \in Uploads, NEW f,
         \A c \in Commits : Owner(c) /\ task[c].on = u => u \in receipts,
         \/ SetFiles(u, files[u] \ {f})
         \/ UNCHANGED <<files, age>>,
         receipts' = receipts,
         \A c \in Commits : /\ task'[c].at = task[c].at
                            /\ task'[c].on = task[c].on,
         begin'.at = begin.at, begin'.victim = begin.victim
  PROVE  OwnerInv'
<1>1. \A c \in Commits : Owner(c)' => Owner(c) /\ task'[c].on = task[c].on
  BY DEF Owner
<1>2. \A c \in Commits : task'[c].at = "unlink" => /\ Marked(c)
                                                  /\ task'[c].on = task[c].on
                                                  /\ task'[c].on \in receipts'
  BY DEF Marked, OwnerInv
<1>3. ASSUME NEW c \in Commits, Owner(c)', task[c].on \notin receipts',
             HasMarker(task[c].on)
      PROVE  HasMarker(task[c].on)'
  <2>1. Owner(c) /\ task'[c].on = task[c].on /\ task[c].on # u
    BY <1>1, <1>3
  <2>2. files'[task[c].on] = files[task[c].on]
    BY <2>1 DEF SetFiles, Owner, TypeInv, TypeOK, TaskInv
  <2> QED
    BY <1>3, <2>1, <2>2 DEF HasMarker
<1>4. \A v \in Uploads : age'[v] = age[v] \/ age'[v] = 0
  BY DEF SetFiles, TypeInv, TypeOK
<1> QED
  BY <1>1, <1>2, <1>3, <1>4, OwnerFrame

\* A file that is added takes no marker away.
LEMMA OwnerAdd ==
  ASSUME TypeInv, TypeInv', OwnerInv, NEW u \in Uploads, NEW f,
         SetFiles(u, files[u] \cup {f}),
         UNCHANGED <<receipts, task>>,
         begin'.at # "unlink"
  PROVE  OwnerInv'
<1>1. \A c \in Commits : Owner(c)' => Owner(c) /\ task'[c].on = task[c].on
  BY DEF Owner
<1>2. \A c \in Commits : task'[c].at = "unlink" => /\ Marked(c)
                                                  /\ task'[c].on = task[c].on
                                                  /\ task'[c].on \in receipts'
  BY DEF Marked, OwnerInv
<1>3. ASSUME NEW c \in Commits, Owner(c)', HasMarker(task[c].on)
      PROVE  HasMarker(task[c].on)'
  <2>1. task[c].on \in Uploads
    BY <1>1, <1>3 DEF Owner, TypeInv, TaskInv
  <2> QED
    BY <1>3, <2>1 DEF SetFiles, HasMarker, TypeInv, TypeOK
<1>4. \A v \in Uploads : age'[v] = age[v] \/ age'[v] = 0
  BY DEF SetFiles, TypeInv, TypeOK
<1> QED
  BY <1>1, <1>2, <1>3, <1>4, OwnerFrame

\* The marker is only created where there is none, so nobody else owns it.
LEMMA OwnerMark ==
  ASSUME TypeInv, TypeInv', OwnerInv, NEW c \in Commits, task[c].at = "mark",
         begin.at = "idle", begin' = begin, receipts' = receipts,
         MayMark(task[c].on),
         SetFiles(task[c].on, files[task[c].on] \cup {MarkerFile}),
         task' \in {[task EXCEPT ![c].at = "admit"], [task EXCEPT ![c] = IdleTask]}
  PROVE  OwnerInv'
<1> DEFINE u == task[c].on
<1>1. u \in Uploads
  BY DEF TypeInv, TaskInv
<1>2. \A d \in Commits : d # c => task'[d] = task[d]
  BY DEF TypeInv, TypeOK
<1>3. \/ task'[c].at = "admit" /\ task'[c].on = u
      \/ task'[c].at = "idle"
  BY DEF TypeInv, TypeOK, IdleTask
<1>4. /\ MarkerFile \in files'[u]
      /\ \A v \in Uploads : files[v] \subseteq files'[v]
      /\ age'[u] = 0
      /\ \A v \in Uploads : v # u => age'[v] = age[v]
  BY <1>1 DEF SetFiles, TypeInv, TypeOK
<1>5. \A d \in Commits : Owner(d) /\ task[d].on = u => u \in receipts
  BY DEF OwnerInv, MayMark
<1>6. \A d \in Commits :
        Owner(d)' /\ task'[d].on \notin receipts' => HasMarker(task[d].on)'
  <2> SUFFICES ASSUME NEW d \in Commits, Owner(d)', task'[d].on \notin receipts'
               PROVE  MarkerFile \in files'[task'[d].on]
    BY DEF HasMarker
  <2>1. CASE d = c
    BY <1>3, <1>4, <2>1 DEF Owner
  <2>2. CASE d # c
    <3>1. /\ Owner(d) /\ task'[d].on = task[d].on /\ task[d].on \in Uploads
          /\ task[d].on \notin receipts
      BY <1>2, <2>2 DEF Owner, TypeInv, TaskInv
    <3> QED
      BY <1>4, <3>1 DEF OwnerInv, HasMarker
  <2> QED
    BY <2>1, <2>2
<1>7. \A d, e \in Commits :
        d # e /\ Owner(d)' /\ Owner(e)' /\ task'[d].on = task'[e].on
          => task'[d].on \in receipts'
  <2> SUFFICES ASSUME NEW d \in Commits, NEW e \in Commits, d # e, Owner(d)',
                      Owner(e)', task'[d].on = task'[e].on
               PROVE  task'[d].on \in receipts'
    OBVIOUS
  <2>1. CASE d # c /\ e # c
    BY <1>2, <2>1 DEF OwnerInv, Owner
  <2>2. CASE d = c
    BY <1>2, <1>3, <1>5, <2>2 DEF Owner
  <2>3. CASE e = c
    BY <1>2, <1>3, <1>5, <2>3 DEF Owner
  <2> QED
    BY <2>1, <2>2, <2>3
<1>8. \A d \in Commits : task'[d].at = "unlink" => task'[d].on \in receipts'
  BY <1>2, <1>3 DEF OwnerInv
<1>9. \A d \in Commits : Marked(d)' => age'[task'[d].on] \in 0 .. 1
  <2> SUFFICES ASSUME NEW d \in Commits, Marked(d)'
               PROVE  age'[task'[d].on] \in 0 .. 1
    OBVIOUS
  <2>1. CASE d = c
    BY <1>3, <1>4, <2>1 DEF Marked
  <2>2. CASE d # c
    <3>1. Marked(d) /\ task'[d].on = task[d].on /\ task[d].on \in Uploads
      BY <1>2, <2>2 DEF Marked, TypeInv, TaskInv
    <3> QED
      BY <1>4, <3>1 DEF OwnerInv
  <2> QED
    BY <2>1, <2>2
<1> QED
  BY <1>6, <1>7, <1>8, <1>9 DEF OwnerInv

\* A task that goes on without touching a file keeps what it owns.
LEMMA OwnerGoto ==
  ASSUME TypeInv, TypeInv', OwnerInv, NEW c \in Commits,
         NEW place, Goto(c, place),
         \/ Owner(c) /\ place \in {"assemble", "store", "receipt"}
         \/ place = "mark",
         UNCHANGED <<files, age, receipts, begin>>
  PROVE  OwnerInv'
<1>1. \A d \in Commits : d # c => task'[d] = task[d]
  BY DEF Goto, TypeInv, TypeOK
<1>2. task'[c].at = place /\ task'[c].on = task[c].on
  BY DEF Goto, TypeInv, TypeOK
<1>3. \A d \in Commits : Owner(d)' => Owner(d) /\ task'[d].on = task[d].on
  BY <1>1, <1>2 DEF Owner
<1>4. \A d \in Commits : task'[d].at = "unlink" => /\ Marked(d)
                                                  /\ task'[d].on = task[d].on
                                                  /\ task'[d].on \in receipts'
  BY <1>1, <1>2 DEF Marked, OwnerInv
<1>5. ASSUME NEW d \in Commits, Owner(d)', HasMarker(task[d].on)
      PROVE  HasMarker(task[d].on)'
  BY <1>3, <1>5 DEF HasMarker
<1> QED
  BY <1>3, <1>4, <1>5, OwnerFrame

\* Every step leaves an unpublished upload to one owner with its marker.
LEMMA OwnerStep == TypeInv /\ TypeInv' /\ OwnerInv /\ [Next]_vars => OwnerInv'
<1> SUFFICES ASSUME TypeInv, TypeInv', OwnerInv, [Next]_vars PROVE OwnerInv'
  OBVIOUS
<1>1. ASSUME NEW u \in Uploads, BeginUpload(u) PROVE OwnerInv'
  BY <1>1, OwnerBegin
     DEF BeginUpload, UploadLockFree, disk, IdleBegin, TypeInv, TypeOK
<1>2. ASSUME NEW d \in Uploads, PruneVisit(d) PROVE OwnerInv'
  BY <1>2, OwnerPruneVisit
<1>3. ASSUME NEW f \in begin.doomed, PruneUnlink(f) PROVE OwnerInv'
  <2>1. /\ begin.victim \in Uploads
        /\ begin'.at = begin.at /\ begin'.victim = begin.victim
    BY <1>3 DEF PruneUnlink, TypeInv, TypeOK, BeginInv
  <2>2. \A c \in Commits :
          Owner(c) /\ task[c].on = begin.victim => begin.victim \in receipts
    BY <1>3 DEF PruneUnlink, OwnerInv
  <2> QED
    BY <1>3, <2>1, <2>2, OwnerUnlink DEF PruneUnlink
<1>4. CASE PruneRemove
  BY <1>4, OwnerBegin DEF PruneRemove, TypeInv, TypeOK
<1>5. CASE FindSession
  BY <1>5, OwnerBegin DEF FindSession, disk, IdleBegin, TypeInv, TypeOK
<1>6. ASSUME NEW d \in Uploads, ScanVisit(d) PROVE OwnerInv'
  <2>1. begin'.at # "unlink"
    <3>1. begin' = IdleBegin \/ begin'.at = begin.at
      BY <1>6 DEF ScanVisit, TypeInv, TypeOK
    <3> QED
      BY <1>6, <3>1 DEF ScanVisit, IdleBegin
  <2> QED
    BY <1>6, <2>1, OwnerBegin DEF ScanVisit, disk
<1>7. CASE ReadRetained
  BY <1>7, OwnerBegin DEF ReadRetained, disk, IdleBegin, TypeInv, TypeOK
<1>8. CASE CreateDirectory
  BY <1>8, OwnerBegin DEF CreateDirectory, TypeInv, TypeOK
<1>9. CASE RefuseReservation
  BY <1>9, OwnerBegin DEF RefuseReservation, disk, IdleBegin
<1>10. CASE WriteSession
  <2>1. begin.on \in Uploads /\ begin'.at # "unlink"
    BY <1>10 DEF WriteSession, IdleBegin, TypeInv, BeginInv
  <2> QED
    BY <1>10, <2>1, OwnerAdd DEF WriteSession
<1>11. CASE SessionUnwritten
  BY <1>11, OwnerBegin DEF SessionUnwritten, disk, IdleBegin
<1>12. CASE BeginIoFailure
  BY <1>12, OwnerBegin DEF BeginIoFailure, disk, IdleBegin
<1>13. ASSUME NEW u \in Uploads, NEW i \in 1 .. ChunkCount(u),
              NEW right \in Sent, StoreChunk(u, i, right)
       PROVE  OwnerInv'
  BY <1>13, OwnerAdd DEF StoreChunk, UploadLockFree
<1>14. ASSUME NEW c \in Commits, NEW u \in Uploads, CommitUpload(c, u)
       PROVE  OwnerInv'
  <2>1. \A d \in Commits : \/ d # c /\ task'[d] = task[d]
                           \/ d = c /\ task'[d].at = "lookup"
    BY <1>14 DEF CommitUpload, IdleTask, TypeInv, TypeOK
  <2>2. \A d \in Commits : Owner(d)' => Owner(d) /\ task'[d].on = task[d].on
    BY <2>1 DEF Owner
  <2>3. \A d \in Commits : task'[d].at = "unlink" => /\ Marked(d)
                                                    /\ task'[d].on = task[d].on
                                                    /\ task'[d].on \in receipts'
    BY <1>14, <2>1 DEF CommitUpload, disk, Marked, OwnerInv
  <2>4. ASSUME NEW d \in Commits, Owner(d)', HasMarker(task[d].on)
        PROVE  HasMarker(task[d].on)'
    BY <1>14, <2>2, <2>4 DEF CommitUpload, disk, HasMarker
  <2> QED
    BY <1>14, <2>2, <2>3, <2>4, OwnerFrame DEF CommitUpload, disk
<1>15. ASSUME NEW c \in Commits, LookupReceipt(c) PROVE OwnerInv'
  BY <1>15, OwnerFinish, OwnerGoto DEF LookupReceipt
<1>16. ASSUME NEW c \in Commits, BeginCommitMarker(c) PROVE OwnerInv'
  <2>1. CASE MayMark(task[c].on)
    BY <1>16, <2>1, OwnerMark DEF BeginCommitMarker, UploadLockFree, Goto
  <2>2. CASE ~MayMark(task[c].on)
    BY <1>16, <2>2, OwnerFinish DEF BeginCommitMarker
  <2> QED
    BY <2>1, <2>2
<1>17. ASSUME NEW c \in Commits, CheckQuota(c) PROVE OwnerInv'
  BY <1>17, OwnerFinish, OwnerGoto DEF CheckQuota, Owner, Marked
<1>18. ASSUME NEW c \in Commits, Assemble(c) PROVE OwnerInv'
  BY <1>18, OwnerFinish, OwnerGoto DEF Assemble, Owner, Marked
<1>19. ASSUME NEW c \in Commits, StoreObject(c) PROVE OwnerInv'
  BY <1>19, OwnerFinish, OwnerGoto DEF StoreObject, Owner, Marked
<1>20. ASSUME NEW c \in Commits, WriteReceipt(c) PROVE OwnerInv'
  <2>1. task' = [task EXCEPT ![c] = [task[c] EXCEPT !.at = "unlink",
                                                     !.left = files[task[c].on]]]
    BY <1>20 DEF WriteReceipt, TypeInv, TypeOK
  <2>2. \A d \in Commits :
          \/ d # c /\ task'[d] = task[d]
          \/ d = c /\ task'[d].at = "unlink" /\ task'[d].on = task[d].on
    BY <2>1 DEF TypeInv, TypeOK
  <2>3. \A d \in Commits : Owner(d)' => Owner(d) /\ task'[d].on = task[d].on
    BY <2>2 DEF Owner
  <2>4. receipts' = receipts \cup {task[c].on}
    BY <1>20 DEF WriteReceipt
  <2>5. \A d \in Commits : task'[d].at = "unlink" => /\ Marked(d)
                                                    /\ task'[d].on = task[d].on
                                                    /\ task'[d].on \in receipts'
    BY <1>20, <2>2, <2>4 DEF WriteReceipt, Marked, OwnerInv
  <2>6. ASSUME NEW d \in Commits, Owner(d)', HasMarker(task[d].on)
        PROVE  HasMarker(task[d].on)'
    BY <1>20, <2>3, <2>6 DEF WriteReceipt, HasMarker
  <2> QED
    BY <1>20, <2>3, <2>4, <2>5, <2>6, OwnerFrame DEF WriteReceipt
<1>21. ASSUME NEW c \in Commits, NEW f \in task[c].left, UnlinkFile(c, f)
       PROVE  OwnerInv'
  <2>1. task[c].on \in Uploads /\ task[c].on \in receipts
    BY <1>21 DEF UnlinkFile, OwnerInv, TypeInv, TaskInv
  <2>2. \A d \in Commits : task'[d].at = task[d].at /\ task'[d].on = task[d].on
    BY <1>21 DEF UnlinkFile, TypeInv, TypeOK
  <2> QED
    BY <1>21, <2>1, <2>2, OwnerUnlink DEF UnlinkFile
<1>22. ASSUME NEW c \in Commits, RemoveDirectory(c) PROVE OwnerInv'
  BY <1>22, OwnerFinish DEF RemoveDirectory, Marked
<1>23. ASSUME NEW c \in Commits, CommitIoFailure(c) PROVE OwnerInv'
  BY <1>23, OwnerFinish DEF CommitIoFailure, Marked
<1>24. ASSUME NEW c \in Commits, MarkerIoFailure(c) PROVE OwnerInv'
  BY <1>24, OwnerMark DEF MarkerIoFailure, UploadLockFree
<1>25. ASSUME NEW c \in Commits, Disconnect(c) PROVE OwnerInv'
  BY <1>25 DEF Disconnect, disk, OwnerInv, Owner, Marked, HasMarker
<1>26. ASSUME NEW u \in Uploads, GrowOld(u) PROVE OwnerInv'
  <2>1. \A c \in Commits : Marked(c)' => age'[task'[c].on] \in 0 .. 1
    <3> SUFFICES ASSUME NEW c \in Commits, Marked(c)'
                 PROVE  age'[task'[c].on] \in 0 .. 1
      OBVIOUS
    <3>1. Marked(c) /\ task'[c].on = task[c].on /\ task[c].on \in Uploads
      BY <1>26 DEF GrowOld, Marked, TypeInv, TaskInv
    <3>2. age[task[c].on] \in 0 .. 1
      BY <3>1 DEF OwnerInv
    <3> QED
      BY <1>26, <3>1, <3>2 DEF GrowOld, TypeInv, TypeOK
  <2> QED
    BY <1>26, <2>1 DEF GrowOld, OwnerInv, Owner, HasMarker
<1>27. CASE Crash
  BY <1>27 DEF Crash, disk, OwnerInv, Owner, Marked, IdleBegin, IdleTask
<1>28. CASE UNCHANGED vars
  BY <1>28 DEF vars, disk, OwnerInv, Owner, Marked, HasMarker
<1> QED
  BY <1>1, <1>2, <1>3, <1>4, <1>5, <1>6, <1>7, <1>8, <1>9, <1>10, <1>11, <1>12,
     <1>13, <1>14, <1>15, <1>16, <1>17, <1>18, <1>19, <1>20, <1>21, <1>22, <1>23,
     <1>24, <1>25, <1>26, <1>27, <1>28 DEF Next, BeginStep, CommitStep

\* Two tasks never assemble the same upload before it has its receipt, however
\* often a client disconnects and commits again.
THEOREM OneCommitterHolds == Spec => []OneCommitter
<1>1. Init => TypeInv /\ OwnerInv
  BY TypeInit, OwnerInit
<1>2. TypeInv /\ OwnerInv /\ [Next]_vars => (TypeInv /\ OwnerInv)'
  BY TypeStep, OwnerStep
<1>3. TypeInv /\ OwnerInv => OneCommitter
  BY DEF OwnerInv, OneCommitter, Owner, Assembling
<1> QED
  BY <1>1, <1>2, <1>3, PTL DEF Spec

\* What a receipt says has been verified before it is written.
Verified(u) == u \in Admitted /\ Intent[u].bytes = Size[Intent[u].digest]

BackedInv ==
  /\ ReceiptsBacked
  /\ \A c \in Commits : task[c].at \in {"store", "receipt"} => Verified(task[c].on)
  /\ \A c \in Commits :
       task[c].at = "store" /\ task[c].on \notin receipts
         => temporary[task[c].on] = "right"
  /\ \A c \in Commits : task[c].at = "receipt" => Stored(task[c].on)

\* A step that stores no less, writes no receipt and brings no task to the
\* places where its content counts as verified keeps every receipt backed.
LEMMA BackedFrame ==
  ASSUME BackedInv, receipts' = receipts, objects \subseteq objects',
         \A c \in Commits :
           task'[c].at \in {"store", "receipt"} =>
             task'[c].at = task[c].at /\ task'[c].on = task[c].on,
         \A c \in Commits :
           task'[c].at = "store" /\ task[c].on \notin receipts =>
             temporary'[task[c].on] = temporary[task[c].on]
  PROVE  BackedInv'
<1>1. ReceiptsBacked'
  BY DEF BackedInv, ReceiptsBacked, Stored
<1>2. \A c \in Commits : task'[c].at \in {"store", "receipt"}
                           => Verified(task[c].on)'
  BY DEF BackedInv, Verified
<1>3. \A c \in Commits : task'[c].at = "store" /\ task'[c].on \notin receipts'
                           => temporary'[task'[c].on] = "right"
  BY DEF BackedInv
<1>4. \A c \in Commits : task'[c].at = "receipt" => Stored(task[c].on)'
  BY DEF BackedInv, Stored
<1> QED
  BY <1>1, <1>2, <1>3, <1>4 DEF BackedInv

\* There is no receipt to back.
LEMMA BackedInit == Init => BackedInv
  BY DEF Init, BackedInv, ReceiptsBacked, IdleTask

\* A task that ends leaves what the others have verified.
LEMMA BackedFinish ==
  ASSUME TypeInv, OwnerInv, BackedInv, NEW c \in Commits, NEW owns,
         Finish(c, owns), receipts' = receipts, objects' = objects,
         \/ temporary' = temporary
         \/ \E content \in {"none", "wrong", "right"} :
              temporary' = [temporary EXCEPT ![task[c].on] = content],
         \/ temporary' = temporary
         \/ task[c].at = "assemble"
  PROVE  BackedInv'
<1>1. \A d \in Commits : \/ d # c /\ task'[d] = task[d]
                         \/ d = c /\ task'[d].at = "idle"
  BY DEF Finish, IdleTask, TypeInv, TypeOK
<1>2. ASSUME NEW d \in Commits, task'[d].at = "store", task[d].on \notin receipts
      PROVE  temporary'[task[d].on] = temporary[task[d].on]
  <2>1. CASE temporary' = temporary
    BY <2>1
  <2>2. CASE task[c].at = "assemble"
    <3>1. d # c /\ task[d].at = "store" /\ task[d].on \in Uploads
      BY <1>1, <1>2 DEF TypeInv, TaskInv
    <3>2. task[d].on # task[c].on
      BY <1>2, <2>2, <3>1 DEF OwnerInv, Owner
    <3> QED
      BY <3>1, <3>2 DEF TypeInv, TypeOK
  <2> QED
    BY <2>1, <2>2
<1> QED
  BY <1>1, <1>2, BackedFrame

\* Every step keeps the object of each receipt, and the verified content of
\* each task that is about to publish.
LEMMA BackedStep == TypeInv /\ OwnerInv /\ BackedInv /\ [Next]_vars => BackedInv'
<1> SUFFICES ASSUME TypeInv, OwnerInv, BackedInv, [Next]_vars PROVE BackedInv'
  OBVIOUS
<1>1. CASE UNCHANGED <<objects, receipts, temporary, task>>
  BY <1>1, BackedFrame
<1>2. ASSUME NEW c \in Commits, NEW u \in Uploads, CommitUpload(c, u)
      PROVE  BackedInv'
  <2>1. \A d \in Commits : \/ d # c /\ task'[d] = task[d]
                           \/ d = c /\ task'[d].at = "lookup"
    BY <1>2 DEF CommitUpload, IdleTask, TypeInv, TypeOK
  <2> QED
    BY <1>2, <2>1, BackedFrame DEF CommitUpload, disk
<1>3. ASSUME NEW c \in Commits, NEW place, place \notin {"store", "receipt"},
             Goto(c, place), UNCHANGED <<objects, receipts, temporary>>
      PROVE  BackedInv'
  <2>1. \A d \in Commits : \/ d # c /\ task'[d] = task[d]
                           \/ d = c /\ task'[d].at = place
    BY <1>3 DEF Goto, TypeInv, TypeOK
  <2> QED
    BY <1>3, <2>1, BackedFrame
<1>4. ASSUME NEW c \in Commits, LookupReceipt(c) PROVE BackedInv'
  BY <1>3, <1>4, BackedFinish DEF LookupReceipt
<1>5. ASSUME NEW c \in Commits, BeginCommitMarker(c) PROVE BackedInv'
  BY <1>3, <1>5, BackedFinish DEF BeginCommitMarker
<1>6. ASSUME NEW c \in Commits, CheckQuota(c) PROVE BackedInv'
  BY <1>3, <1>6, BackedFinish DEF CheckQuota
<1>7. ASSUME NEW c \in Commits, Assemble(c) PROVE BackedInv'
  <2>1. /\ receipts' = receipts /\ objects' = objects
        /\ \E content \in {"none", "wrong", "right"} :
             temporary' = [temporary EXCEPT ![task[c].on] = content]
        /\ task[c].on \in Uploads /\ task[c].at = "assemble"
    BY <1>7 DEF Assemble, TypeInv, TaskInv
  <2>2. CASE Finish(c, TRUE)
    BY <2>1, <2>2, BackedFinish
  <2>3. CASE ~Finish(c, TRUE)
    <3>1. Admits(task[c].on) /\ Goto(c, "store")
      BY <1>7, <2>3 DEF Assemble
    <3>2. Verified(task[c].on) /\ temporary'[task[c].on] = "right"
      BY <1>7, <2>1, <2>3, <3>1
         DEF Assemble, Admits, Assembles, Verified, TypeInv, TypeOK
    <3>3. \A d \in Commits :
            \/ d # c /\ task'[d] = task[d]
            \/ d = c /\ task'[d].at = "store" /\ task'[d].on = task[c].on
      BY <3>1 DEF Goto, TypeInv, TypeOK
    <3>4. ASSUME NEW d \in Commits, task'[d].at = "store",
                 task'[d].on \notin receipts'
          PROVE  temporary'[task'[d].on] = "right"
      <4>1. CASE d = c
        BY <3>2, <3>3, <4>1
      <4>2. CASE d # c
        <5>1. /\ task[d].at = "store" /\ task'[d].on = task[d].on
              /\ task[d].on \in Uploads /\ task[d].on \notin receipts
          BY <2>1, <3>3, <3>4, <4>2 DEF TypeInv, TaskInv
        <5>2. task[d].on # task[c].on
          BY <2>1, <4>2, <5>1 DEF OwnerInv, Owner
        <5> QED
          BY <2>1, <5>1, <5>2 DEF BackedInv, TypeInv, TypeOK
      <4> QED
        BY <4>1, <4>2
    <3>5. ReceiptsBacked'
      BY <2>1 DEF BackedInv, ReceiptsBacked, Stored
    <3>6. \A d \in Commits : task'[d].at \in {"store", "receipt"}
                               => Verified(task[d].on)'
      BY <3>2, <3>3 DEF BackedInv, Verified
    <3>7. \A d \in Commits : task'[d].at = "receipt" => Stored(task[d].on)'
      BY <2>1, <3>3 DEF BackedInv, Stored
    <3> QED
      BY <3>4, <3>5, <3>6, <3>7 DEF BackedInv
  <2> QED
    BY <2>2, <2>3
<1>8. ASSUME NEW c \in Commits, StoreObject(c) PROVE BackedInv'
  <2>1. CASE temporary[task[c].on] = "none"
    BY <1>8, <2>1, BackedFinish DEF StoreObject
  <2>2. CASE temporary[task[c].on] # "none"
    <3>1. /\ receipts' = receipts /\ objects \subseteq objects'
          /\ temporary' = [temporary EXCEPT ![task[c].on] = "none"]
          /\ task[c].on \in Uploads /\ task[c].at = "store"
          /\ Goto(c, "receipt")
      BY <1>8, <2>2 DEF StoreObject, TypeInv, TaskInv
    <3>2. Intent[task[c].on].digest \in objects'
      <4>1. CASE task[c].on \in receipts
        BY <3>1, <4>1 DEF BackedInv, ReceiptsBacked, Stored
      <4>2. CASE task[c].on \notin receipts
        BY <1>8, <2>2, <3>1, <4>2 DEF BackedInv, StoreObject
      <4> QED
        BY <4>1, <4>2
    <3>3. \A d \in Commits :
            \/ d # c /\ task'[d] = task[d]
            \/ d = c /\ task'[d].at = "receipt" /\ task'[d].on = task[c].on
      BY <3>1 DEF Goto, TypeInv, TypeOK
    <3>4. ASSUME NEW d \in Commits, task'[d].at = "store",
                 task'[d].on \notin receipts'
          PROVE  temporary'[task'[d].on] = "right"
      <4>1. /\ task[d].at = "store" /\ task'[d].on = task[d].on /\ d # c
            /\ task[d].on \in Uploads /\ task[d].on \notin receipts
        BY <3>1, <3>3, <3>4 DEF TypeInv, TaskInv
      <4>2. task[d].on # task[c].on
        BY <3>1, <4>1 DEF OwnerInv, Owner
      <4> QED
        BY <3>1, <4>1, <4>2 DEF BackedInv, TypeInv, TypeOK
    <3>5. ReceiptsBacked'
      BY <3>1 DEF BackedInv, ReceiptsBacked, Stored
    <3>6. \A d \in Commits : task'[d].at \in {"store", "receipt"}
                               => Verified(task[d].on)'
      BY <3>1, <3>3 DEF BackedInv, Verified
    <3>7. \A d \in Commits : task'[d].at = "receipt" => Stored(task[d].on)'
      BY <3>1, <3>2, <3>3 DEF BackedInv, Stored
    <3> QED
      BY <3>4, <3>5, <3>6, <3>7 DEF BackedInv
  <2> QED
    BY <2>1, <2>2
<1>9. ASSUME NEW c \in Commits, WriteReceipt(c) PROVE BackedInv'
  <2>1. task' = [task EXCEPT ![c] = [task[c] EXCEPT !.at = "unlink",
                                                     !.left = files[task[c].on]]]
    BY <1>9 DEF WriteReceipt, TypeInv, TypeOK
  <2>2. \A d \in Commits : \/ d # c /\ task'[d] = task[d]
                           \/ d = c /\ task'[d].at = "unlink"
    BY <2>1 DEF TypeInv, TypeOK
  <2>3. /\ Verified(task[c].on) /\ Stored(task[c].on)
        /\ receipts' = receipts \cup {task[c].on}
        /\ UNCHANGED <<objects, temporary>>
    BY <1>9 DEF WriteReceipt, BackedInv
  <2>4. ReceiptsBacked'
    BY <2>3 DEF BackedInv, ReceiptsBacked, Stored, Verified
  <2>5. \A d \in Commits : task'[d].at \in {"store", "receipt"}
                             => Verified(task[d].on)'
    BY <2>2 DEF BackedInv, Verified
  <2>6. \A d \in Commits : task'[d].at = "store" /\ task'[d].on \notin receipts'
                             => temporary'[task'[d].on] = "right"
    BY <2>2, <2>3 DEF BackedInv
  <2>7. \A d \in Commits : task'[d].at = "receipt" => Stored(task[d].on)'
    BY <2>2, <2>3 DEF BackedInv, Stored
  <2> QED
    BY <2>4, <2>5, <2>6, <2>7 DEF BackedInv
<1>10. ASSUME NEW c \in Commits, NEW f \in task[c].left, UnlinkFile(c, f)
       PROVE  BackedInv'
  <2>1. \A d \in Commits : task'[d].at = task[d].at /\ task'[d].on = task[d].on
    BY <1>10 DEF UnlinkFile, TypeInv, TypeOK
  <2> QED
    BY <1>10, <2>1, BackedFrame DEF UnlinkFile
<1>11. ASSUME NEW c \in Commits, RemoveDirectory(c) PROVE BackedInv'
  BY <1>11, BackedFinish DEF RemoveDirectory
<1>12. ASSUME NEW c \in Commits, CommitIoFailure(c) PROVE BackedInv'
  BY <1>12, BackedFinish DEF CommitIoFailure
<1>13. ASSUME NEW c \in Commits, MarkerIoFailure(c) PROVE BackedInv'
  <2>1. \A d \in Commits : \/ d # c /\ task'[d] = task[d]
                           \/ d = c /\ task'[d].at = "idle"
    BY <1>13 DEF MarkerIoFailure, IdleTask, TypeInv, TypeOK
  <2> QED
    BY <1>13, <2>1, BackedFrame DEF MarkerIoFailure
<1>14. CASE Crash
  BY <1>14, BackedFrame DEF Crash, disk, IdleTask
<1>15. CASE \/ \E u \in Uploads : BeginUpload(u) \/ GrowOld(u)
            \/ BeginStep \/ BeginIoFailure
            \/ \E u \in Uploads : \E i \in 1 .. ChunkCount(u), right \in Sent :
                 StoreChunk(u, i, right)
            \/ \E c \in Commits : Disconnect(c)
            \/ UNCHANGED vars
  <2>1. UNCHANGED <<objects, receipts, temporary, task>>
    BY <1>15
       DEF BeginUpload, GrowOld, BeginStep, BeginIoFailure, StoreChunk, Disconnect,
           PruneVisit, PruneUnlink, PruneRemove, FindSession, ScanVisit,
           ReadRetained, CreateDirectory, RefuseReservation, WriteSession,
           SessionUnwritten, vars, disk
  <2> QED
    BY <1>1, <2>1
<1> QED
  BY <1>2, <1>4, <1>5, <1>6, <1>7, <1>8, <1>9, <1>10, <1>11, <1>12, <1>13,
     <1>14, <1>15 DEF Next, CommitStep

\* Whatever stops a commit, a client that holds a receipt can have its content.
THEOREM ReceiptsBackedHolds == Spec => []ReceiptsBacked
<1>1. Init => TypeInv /\ OwnerInv /\ BackedInv
  BY TypeInit, OwnerInit, BackedInit
<1>2. TypeInv /\ OwnerInv /\ BackedInv /\ [Next]_vars
        => (TypeInv /\ OwnerInv /\ BackedInv)'
  BY TypeStep, OwnerStep, BackedStep
<1>3. BackedInv => ReceiptsBacked
  BY DEF BackedInv
<1> QED
  BY <1>1, <1>2, <1>3, PTL DEF Spec

-----------------------------------------------------------------------------
(* What a commit assembles *)

\* Adding or taking away a file that is no chunk keeps the chunks.
LEMMA ChunksKept ==
  ASSUME NEW F, NEW f, f.name # "chunk"
  PROVE  Chunks(F \cup {f}) = Chunks(F) /\ Chunks(F \ {f}) = Chunks(F)
  BY DEF Chunks

\* No step changes the chunks of an upload between its readiness check and its
\* receipt.
LEMMA FrozenStep ==
  ASSUME TypeInv, OwnerInv, [Next]_vars
  PROVE  \A c \in Commits : KeepsChunks(c)
<1> SUFFICES ASSUME NEW c \in Commits, Assembling(c), task'[c].on = task[c].on,
                    task[c].on \notin receipts
             PROVE  Chunks(files'[task[c].on]) = Chunks(files[task[c].on])
  BY DEF KeepsChunks
<1> DEFINE u == task[c].on
<1>1. u \in Uploads /\ Owner(c) /\ HasMarker(u)
  BY DEF Assembling, Owner, OwnerInv, TypeInv, TaskInv
<1>2. SessionFile.name # "chunk" /\ MarkerFile.name # "chunk"
  BY DEF SessionFile, MarkerFile
<1>3. ASSUME NEW v, NEW F, SetFiles(v, F),
             v = u => Chunks(F) = Chunks(files[u])
      PROVE  Chunks(files'[u]) = Chunks(files[u])
  BY <1>1, <1>3 DEF SetFiles, TypeInv, TypeOK
<1>4. ASSUME NEW d \in Commits, NEW owns, Finish(d, owns)
      PROVE  Chunks(files'[u]) = Chunks(files[u])
  BY <1>2, <1>3, <1>4, ChunksKept DEF Finish
<1>5. CASE UNCHANGED files
  BY <1>5
<1>6. ASSUME NEW f \in begin.doomed, PruneUnlink(f)
      PROVE  Chunks(files'[u]) = Chunks(files[u])
  <2>1. begin.victim # u
    BY <1>1, <1>6 DEF PruneUnlink, OwnerInv
  <2> QED
    BY <1>3, <1>6, <2>1 DEF PruneUnlink
<1>7. CASE WriteSession
  BY <1>2, <1>3, <1>7, ChunksKept DEF WriteSession
<1>8. ASSUME NEW v \in Uploads, NEW i \in 1 .. ChunkCount(v), NEW right \in Sent,
             StoreChunk(v, i, right)
      PROVE  Chunks(files'[u]) = Chunks(files[u])
  <2>1. v # u
    BY <1>1, <1>8 DEF StoreChunk, AcceptsChunk
  <2> QED
    BY <1>3, <1>8, <2>1 DEF StoreChunk
<1>9. ASSUME NEW d \in Commits, BeginCommitMarker(d) \/ MarkerIoFailure(d)
      PROVE  Chunks(files'[u]) = Chunks(files[u])
  <2>1. \/ SetFiles(task[d].on, files[task[d].on] \cup {MarkerFile})
        \/ Finish(d, FALSE)
    BY <1>9 DEF BeginCommitMarker, MarkerIoFailure
  <2> QED
    BY <1>2, <1>3, <1>4, <2>1, ChunksKept
<1>10. ASSUME NEW d \in Commits, NEW f \in task[d].left, UnlinkFile(d, f)
       PROVE  Chunks(files'[u]) = Chunks(files[u])
  <2>1. task[d].on # u
    BY <1>10 DEF UnlinkFile, OwnerInv
  <2> QED
    BY <1>3, <1>5, <1>10, <2>1 DEF UnlinkFile
<1>11. ASSUME NEW d \in Commits,
              \/ LookupReceipt(d) \/ CheckQuota(d) \/ Assemble(d)
              \/ StoreObject(d) \/ RemoveDirectory(d) \/ CommitIoFailure(d)
       PROVE  Chunks(files'[u]) = Chunks(files[u])
  <2>1. UNCHANGED files \/ \E owns \in BOOLEAN : Finish(d, owns)
    BY <1>11 DEF LookupReceipt, CheckQuota, Assemble, StoreObject, RemoveDirectory,
                 CommitIoFailure, Marked
  <2> QED
    BY <1>4, <1>5, <2>1
<1>12. ASSUME NEW d \in Commits, NEW v \in Uploads,
              CommitUpload(d, v) \/ WriteReceipt(d) \/ Disconnect(d)
       PROVE  Chunks(files'[u]) = Chunks(files[u])
  BY <1>5, <1>12 DEF CommitUpload, WriteReceipt, Disconnect, disk
<1>13. CASE \/ \E v \in Uploads : BeginUpload(v) \/ GrowOld(v)
            \/ \E v \in Uploads : PruneVisit(v) \/ ScanVisit(v)
            \/ PruneRemove \/ FindSession \/ ReadRetained \/ CreateDirectory
            \/ RefuseReservation \/ SessionUnwritten \/ BeginIoFailure \/ Crash
            \/ UNCHANGED vars
  BY <1>5, <1>13
     DEF BeginUpload, GrowOld, PruneVisit, ScanVisit, PruneRemove, FindSession,
         ReadRetained, CreateDirectory, RefuseReservation, SessionUnwritten,
         BeginIoFailure, Crash, vars, disk
<1> QED
  BY <1>1, <1>4, <1>6, <1>7, <1>8, <1>9, <1>10, <1>11, <1>12, <1>13
     DEF Next, BeginStep, CommitStep

\* From the check that all chunks are there to the receipt, the chunks of an
\* upload are the same files.
THEOREM AssembledChunksFrozenHolds == Spec => AssembledChunksFrozen
<1>1. Init => TypeInv /\ OwnerInv
  BY TypeInit, OwnerInit
<1>2. TypeInv /\ OwnerInv /\ [Next]_vars => (TypeInv /\ OwnerInv)'
  BY TypeStep, OwnerStep
<1>3. TypeInv /\ OwnerInv /\ [Next]_vars => [\A c \in Commits : KeepsChunks(c)]_vars
  BY FrozenStep
<1> QED
  BY <1>1, <1>2, <1>3, PTL DEF Spec, AssembledChunksFrozen

-----------------------------------------------------------------------------
(* No upload stays locked *)

\* The task a marker belongs to has passed begin_commit_marker: an early return
\* before that leaves the marker of another task alone, one after it drops it.
MarkerInv ==
  crashes = 0 /\ ~IoFailures =>
    \A u \in Uploads :
      HasMarker(u) => \E c \in Commits : Marked(c) /\ task[c].on = u

\* Tasks that go on and files that are no marker leave every marker its task.
LEMMA MarkerFrame ==
  ASSUME MarkerInv, crashes' = crashes,
         \A u \in Uploads : HasMarker(u)' => HasMarker(u),
         \A c \in Commits : Marked(c) => Marked(c)' /\ task'[c].on = task[c].on
  PROVE  MarkerInv'
  BY DEF MarkerInv

\* A task that owns a marker takes it along when it ends.
LEMMA MarkerFinish ==
  ASSUME TypeInv, MarkerInv, NEW c \in Commits, task[c].at # "idle",
         NEW owns \in BOOLEAN, Marked(c) => owns, Finish(c, owns),
         crashes' = crashes
  PROVE  MarkerInv'
<1> SUFFICES ASSUME crashes = 0, ~IoFailures, NEW u \in Uploads, HasMarker(u)'
             PROVE  \E d \in Commits : Marked(d)' /\ task'[d].on = u
  BY DEF MarkerInv
<1>1. HasMarker(u) /\ ~(Marked(c) /\ task[c].on = u)
  BY DEF Finish, SetFiles, HasMarker, TypeInv, TypeOK, TaskInv
<1>2. PICK d \in Commits : Marked(d) /\ task[d].on = u
  BY <1>1 DEF MarkerInv
<1>3. d # c /\ task'[d] = task[d]
  BY <1>1, <1>2 DEF Finish, TypeInv, TypeOK
<1> QED
  BY <1>2, <1>3 DEF Marked

\* Every step leaves a marker only with a task that runs.
LEMMA MarkerStep == TypeInv /\ MarkerInv /\ [Next]_vars => MarkerInv'
<1> SUFFICES ASSUME TypeInv, MarkerInv, [Next]_vars PROVE MarkerInv'
  OBVIOUS
<1>1. ASSUME UNCHANGED <<task, crashes>>,
             \A u \in Uploads : HasMarker(u)' => HasMarker(u)
      PROVE  MarkerInv'
  BY <1>1, MarkerFrame DEF Marked
<1>2. ASSUME NEW c \in Commits, NEW place, UNCHANGED <<files, crashes>>,
             Goto(c, place), place \notin {"idle", "lookup", "mark"} \/ ~Marked(c)
      PROVE  MarkerInv'
  <2>1. \A d \in Commits : \/ d # c /\ task'[d] = task[d]
                           \/ /\ d = c
                              /\ task'[d].at = place /\ task'[d].on = task[d].on
    BY <1>2 DEF Goto, TypeInv, TypeOK
  <2>2. \A d \in Commits : Marked(d) => Marked(d)' /\ task'[d].on = task[d].on
    BY <1>2, <2>1 DEF Marked
  <2> QED
    BY <1>2, <2>2, MarkerFrame DEF HasMarker
<1>3. CASE \/ \E u \in Uploads : BeginUpload(u) \/ GrowOld(u)
           \/ \E d \in Uploads : PruneVisit(d) \/ ScanVisit(d)
           \/ PruneRemove \/ FindSession \/ ReadRetained \/ CreateDirectory
           \/ RefuseReservation \/ SessionUnwritten \/ BeginIoFailure
           \/ \E c \in Commits : Disconnect(c)
           \/ UNCHANGED vars
  <2>1. UNCHANGED <<files, task, crashes>>
    BY <1>3
       DEF BeginUpload, GrowOld, PruneVisit, ScanVisit, PruneRemove, FindSession,
           ReadRetained, CreateDirectory, RefuseReservation, SessionUnwritten,
           BeginIoFailure, Disconnect, vars, disk
  <2> QED
    BY <1>1, <2>1 DEF HasMarker
<1>4. ASSUME NEW f \in begin.doomed, PruneUnlink(f) PROVE MarkerInv'
  <2>1. \A u \in Uploads : files'[u] \subseteq files[u]
    BY <1>4 DEF PruneUnlink, SetFiles, TypeInv, TypeOK, BeginInv
  <2> QED
    BY <1>1, <1>4, <2>1 DEF PruneUnlink, HasMarker
<1>5. CASE WriteSession
  <2>1. \A u \in Uploads : files'[u] \subseteq files[u] \cup {SessionFile}
    BY <1>5 DEF WriteSession, SetFiles, TypeInv, TypeOK
  <2> QED
    BY <1>1, <1>5, <2>1 DEF WriteSession, HasMarker, SessionFile, MarkerFile
<1>6. ASSUME NEW u \in Uploads, NEW i \in 1 .. ChunkCount(u), NEW right \in Sent,
             StoreChunk(u, i, right)
      PROVE  MarkerInv'
  <2>1. \A v \in Uploads : files'[v] \subseteq files[v] \cup {Chunk(i, right)}
    BY <1>6 DEF StoreChunk, SetFiles, TypeInv, TypeOK
  <2> QED
    BY <1>1, <1>6, <2>1 DEF StoreChunk, HasMarker, Chunk, MarkerFile
<1>7. ASSUME NEW c \in Commits, NEW u \in Uploads, CommitUpload(c, u)
      PROVE  MarkerInv'
  <2>1. \A d \in Commits : Marked(d) => d # c /\ task'[d] = task[d]
    BY <1>7 DEF CommitUpload, Marked, TypeInv, TypeOK
  <2>2. \A d \in Commits : Marked(d) => Marked(d)' /\ task'[d].on = task[d].on
    BY <2>1 DEF Marked
  <2> QED
    BY <1>7, <2>2, MarkerFrame DEF CommitUpload, disk, HasMarker
<1>8. ASSUME NEW c \in Commits, LookupReceipt(c) PROVE MarkerInv'
  <2>1. ~Marked(c) /\ task[c].at # "idle" /\ crashes' = crashes
    BY <1>8 DEF LookupReceipt, Marked
  <2>2. CASE Finish(c, FALSE)
    BY <2>1, <2>2, MarkerFinish
  <2>3. CASE ~Finish(c, FALSE)
    BY <1>2, <1>8, <2>1, <2>3 DEF LookupReceipt
  <2> QED
    BY <2>2, <2>3
<1>9. ASSUME NEW c \in Commits, BeginCommitMarker(c) PROVE MarkerInv'
  <2>1. ~Marked(c) /\ task[c].at # "idle" /\ crashes' = crashes
    BY <1>9 DEF BeginCommitMarker, Marked
  <2>2. CASE Finish(c, FALSE)
    BY <2>1, <2>2, MarkerFinish
  <2>3. CASE ~Finish(c, FALSE)
    <3>1. /\ SetFiles(task[c].on, files[task[c].on] \cup {MarkerFile})
          /\ Goto(c, "admit")
      BY <1>9, <2>3 DEF BeginCommitMarker
    <3>2. /\ \A d \in Commits : d # c => task'[d] = task[d]
          /\ task'[c].at = "admit" /\ task'[c].on = task[c].on
      BY <3>1 DEF Goto, TypeInv, TypeOK
    <3>3. \A d \in Commits : Marked(d) => Marked(d)' /\ task'[d].on = task[d].on
      BY <2>1, <3>2 DEF Marked
    <3>4. \A u \in Uploads : u # task[c].on => files'[u] = files[u]
      BY <3>1 DEF SetFiles, TypeInv, TypeOK
    <3>5. Marked(c)'
      BY <3>2 DEF Marked
    <3> QED
      BY <2>1, <3>2, <3>3, <3>4, <3>5 DEF MarkerInv, HasMarker
  <2> QED
    BY <2>2, <2>3
<1>10. ASSUME NEW c \in Commits,
              \/ CheckQuota(c) \/ Assemble(c) \/ StoreObject(c)
              \/ RemoveDirectory(c)
       PROVE  MarkerInv'
  <2>1. Marked(c) /\ task[c].at # "idle" /\ crashes' = crashes
    BY <1>10 DEF CheckQuota, Assemble, StoreObject, RemoveDirectory, Marked
  <2>2. CASE Finish(c, TRUE)
    BY <2>1, <2>2, MarkerFinish
  <2>3. CASE ~Finish(c, TRUE)
    <3>1. /\ UNCHANGED files
          /\ \E place \in {"assemble", "store", "receipt"} : Goto(c, place)
      BY <1>10, <2>3 DEF CheckQuota, Assemble, StoreObject, RemoveDirectory
    <3> QED
      BY <1>2, <2>1, <3>1
  <2> QED
    BY <2>2, <2>3
<1>11. ASSUME NEW c \in Commits, WriteReceipt(c) PROVE MarkerInv'
  <2>1. task' = [task EXCEPT ![c] = [task[c] EXCEPT !.at = "unlink",
                                                     !.left = files[task[c].on]]]
    BY <1>11 DEF WriteReceipt, TypeInv, TypeOK
  <2>2. \A d \in Commits :
          \/ d # c /\ task'[d] = task[d]
          \/ d = c /\ task'[d].at = "unlink" /\ task'[d].on = task[d].on
    BY <2>1 DEF TypeInv, TypeOK
  <2>3. \A d \in Commits : Marked(d) => Marked(d)' /\ task'[d].on = task[d].on
    BY <2>2 DEF Marked
  <2> QED
    BY <1>11, <2>3, MarkerFrame DEF WriteReceipt, HasMarker
<1>12. ASSUME NEW c \in Commits, NEW f \in task[c].left, UnlinkFile(c, f)
       PROVE  MarkerInv'
  <2>1. \A d \in Commits : task'[d].at = task[d].at /\ task'[d].on = task[d].on
    BY <1>12 DEF UnlinkFile, TypeInv, TypeOK
  <2>2. \A u \in Uploads : files'[u] \subseteq files[u]
    BY <1>12 DEF UnlinkFile, SetFiles, TypeInv, TypeOK
  <2> QED
    BY <1>12, <2>1, <2>2, MarkerFrame DEF UnlinkFile, Marked, HasMarker
<1>13. ASSUME NEW c \in Commits, CommitIoFailure(c) \/ MarkerIoFailure(c)
       PROVE  MarkerInv'
  BY <1>13 DEF CommitIoFailure, MarkerIoFailure, MarkerInv
<1>14. CASE Crash
  <2>1. crashes' # 0
    BY <1>14, FaultsAssumption DEF Crash, TypeInv, TypeOK
  <2> QED
    BY <2>1 DEF MarkerInv
<1> QED
  BY <1>3, <1>4, <1>5, <1>6, <1>7, <1>8, <1>9, <1>10, <1>11, <1>12, <1>13, <1>14
     DEF Next, BeginStep, CommitStep

\* Without a crash or a failed write, every marker belongs to a task that runs.
THEOREM MarkerOwnedHolds == Spec => []MarkerOwned
<1>1. Init => TypeInv /\ MarkerInv
  BY TypeInit DEF Init, MarkerInv, HasMarker
<1>2. TypeInv /\ MarkerInv /\ [Next]_vars => (TypeInv /\ MarkerInv)'
  BY TypeStep, MarkerStep
<1>3. MarkerInv => MarkerOwned
  BY DEF MarkerInv, MarkerOwned
<1> QED
  BY <1>1, <1>2, <1>3, PTL DEF Spec
=============================================================================
