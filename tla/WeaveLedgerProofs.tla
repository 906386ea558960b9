-------------------------- MODULE WeaveLedgerProofs --------------------------
(***************************************************************************)
(* The Object Weave node implements the publication ledger, for any number *)
(* of uploads, commit tasks, disconnections and crashes; and where no      *)
(* request is dropped it keeps the limits on receipts.                     *)
(*                                                                         *)
(* The reservation is honest although it is read in three parts: sessions  *)
(* only go while begin_upload holds upload_lock, and a commit that moves   *)
(* bytes from the sessions to the objects leaves their sum as it was.      *)
(***************************************************************************)
EXTENDS WeaveNodeProofs

-----------------------------------------------------------------------------
(* Sums of bytes *)

Bytes(f, S) == {b \in S \X (1 .. MaxU64) : b[2] <= f[b[1]]}

\* There are finitely many bytes of finitely many contents.
LEMMA BytesFinite ==
  ASSUME NEW S, IsFiniteSet(S), NEW f
  PROVE  /\ IsFiniteSet(Bytes(f, S))
         /\ ByteSum(f, S) = Cardinality(Bytes(f, S))
         /\ ByteSum(f, S) \in Nat
<1>1. IsFiniteSet(1 .. MaxU64)
  BY FS_Interval, SizesAssumption
<1>2. IsFiniteSet(S \X (1 .. MaxU64))
  BY <1>1, FS_Product
<1>3. IsFiniteSet(Bytes(f, S))
  BY <1>2, FS_Subset DEF Bytes
<1> QED
  BY <1>3, FS_CardinalityType DEF ByteSum, Bytes

\* Fewer contents have no more bytes.
LEMMA ByteSumMonotone ==
  ASSUME NEW T, IsFiniteSet(T), NEW S \in SUBSET T, NEW f
  PROVE  /\ IsFiniteSet(S)
         /\ ByteSum(f, S) \in Nat /\ ByteSum(f, T) \in Nat
         /\ ByteSum(f, S) <= ByteSum(f, T)
<1>1. IsFiniteSet(S)
  BY FS_Subset
<1>2. Bytes(f, S) \in SUBSET Bytes(f, T)
  BY DEF Bytes
<1> QED
  BY <1>1, <1>2, BytesFinite, FS_Subset

\* One more content adds its length.
LEMMA ByteSumInsert ==
  ASSUME NEW S, IsFiniteSet(S), NEW x, x \notin S, NEW f, f[x] \in 1 .. MaxU64
  PROVE  ByteSum(f, S \cup {x}) = ByteSum(f, S) + f[x]
<1> DEFINE own == {x} \X (1 .. f[x])
<1>1. IsFiniteSet(own) /\ Cardinality(own) = f[x]
  <2>1. f[x] \in Int /\ 1 \in Int /\ f[x] >= 1
    BY SizesAssumption
  <2>2. IsFiniteSet(1 .. f[x]) /\ Cardinality(1 .. f[x]) = f[x]
    BY <2>1, FS_Interval
  <2>3. IsFiniteSet({x}) /\ Cardinality({x}) = 1
    BY FS_Singleton
  <2>4. /\ IsFiniteSet({x} \X (1 .. f[x]))
        /\ Cardinality({x} \X (1 .. f[x])) = Cardinality({x}) * Cardinality(1 .. f[x])
    BY <2>2, <2>3, FS_Product
  <2>5. 1 * f[x] = f[x]
    BY <2>1
  <2> QED
    BY <2>2, <2>3, <2>4, <2>5
<1>2. Bytes(f, S \cup {x}) = Bytes(f, S) \cup own
  BY SizesAssumption DEF Bytes
<1>3. Bytes(f, S) \cap own = {}
  BY DEF Bytes
<1>4. IsFiniteSet(S \cup {x})
  BY FS_AddElement
<1>5. /\ IsFiniteSet(Bytes(f, S))
      /\ ByteSum(f, S) = Cardinality(Bytes(f, S))
      /\ ByteSum(f, S) \in Nat
      /\ ByteSum(f, S \cup {x}) = Cardinality(Bytes(f, S \cup {x}))
  BY <1>4, BytesFinite
<1>6. Cardinality(Bytes(f, S) \cup own)
        = Cardinality(Bytes(f, S)) + Cardinality(own)
            - Cardinality(Bytes(f, S) \cap own)
  BY <1>1, <1>5, FS_Union
<1>7. Cardinality(Bytes(f, S) \cap own) = 0
  BY <1>3, FS_EmptySet
<1>8. f[x] \in Nat
  BY SizesAssumption
<1> HIDE DEF own
<1>9. Cardinality(Bytes(f, S) \cup own) = Cardinality(Bytes(f, S)) + f[x]
  BY <1>1, <1>5, <1>6, <1>7, <1>8
<1> QED
  BY <1>2, <1>5, <1>9

\* Contents and uploads have a length.
LEMMA Lengths ==
  ASSUME NEW u \in Uploads
  PROVE  /\ Declared[u] \in 1 .. MaxU64 /\ Declared[u] = Intent[u].bytes
         /\ Intent[u].bytes \in Nat
         /\ Intent[u].digest \in Digests
         /\ Size[Intent[u].digest] \in 1 .. MaxU64
         /\ Size[Intent[u].digest] \in Nat
  BY IntentAssumption, SizesAssumption DEF Declared

\* The limits are numbers.
LEMMA LimitTypes == \A l \in Limits : Policy[l] \in Nat
  BY PolicyAssumption, SizesAssumption DEF ValidConfig

-----------------------------------------------------------------------------
(* Reservations *)

\* What objects D occupy, with what the uploads of S may add to them.
Claimed(S, D) == ByteSum(Size, D) + ByteSum(Declared, Unstored(S, D))

Within(S) ==
  /\ Cardinality(S) <= Policy["max_active_uploads"]
  /\ \A u \in S : Cardinality(OfPublisher(S, u))
                    <= Policy["max_active_uploads_per_publisher"]
  /\ ByteSum(Declared, S) <= Policy["max_pending_bytes"]

\* These are the ledger's own.
LEMMA LedgerMeans ==
  \A S : /\ Ledger!Claim(S) = Claimed(S, objects)
         /\ Ledger!WithinPending(S) = Within(S)
  BY DEF Ledger!Cardinality, Cardinality, Ledger!IsFiniteSet, IsFiniteSet, Ledger!Claim, Ledger!WithinPending, Ledger!ByteSum, Ledger!Unstored,
         Ledger!OfPublisher, Ledger!Declared, Claimed, Within, ByteSum, Unstored,
         OfPublisher, Declared

\* Claims are numbers, and fewer uploads claim no more.
LEMMA ClaimMonotone ==
  ASSUME NEW T \in SUBSET Uploads, NEW S \in SUBSET T, NEW D \in SUBSET Digests
  PROVE  /\ Claimed(S, D) \in Nat /\ Claimed(T, D) \in Nat
         /\ Claimed(S, D) <= Claimed(T, D)
<1>1. /\ IsFiniteSet(Unstored(T, D)) /\ IsFiniteSet(D)
      /\ Unstored(S, D) \in SUBSET Unstored(T, D)
  BY FiniteAssumption, FS_Subset DEF Unstored
<1>2. ByteSum(Size, D) \in Nat
  BY <1>1, BytesFinite
<1>3. /\ ByteSum(Declared, Unstored(S, D)) \in Nat
      /\ ByteSum(Declared, Unstored(T, D)) \in Nat
      /\ ByteSum(Declared, Unstored(S, D)) <= ByteSum(Declared, Unstored(T, D))
  BY <1>1, ByteSumMonotone
<1> QED
  BY <1>2, <1>3 DEF Claimed

\* Fewer uploads stay within the limits.
LEMMA WithinMonotone ==
  ASSUME NEW T \in SUBSET Uploads, NEW S \in SUBSET T, Within(T)
  PROVE  Within(S)
<1>1. IsFiniteSet(T)
  BY FiniteAssumption, FS_Subset
<1>2. /\ Cardinality(S) \in Nat /\ Cardinality(T) \in Nat
      /\ Cardinality(S) <= Cardinality(T)
  BY <1>1, FS_Subset, FS_CardinalityType
<1>3. ASSUME NEW u \in S
      PROVE  /\ Cardinality(OfPublisher(S, u)) \in Nat
             /\ Cardinality(OfPublisher(T, u)) \in Nat
             /\ Cardinality(OfPublisher(S, u)) <= Cardinality(OfPublisher(T, u))
  <2>1. /\ IsFiniteSet(OfPublisher(T, u))
        /\ OfPublisher(S, u) \in SUBSET OfPublisher(T, u)
    BY <1>1, FS_Subset DEF OfPublisher
  <2> QED
    BY <2>1, FS_Subset, FS_CardinalityType
<1> QED
  BY <1>1, <1>2, <1>3, ByteSumMonotone, LimitTypes DEF Within, Limits

\* A commit that retains the content of one of the uploads moves its bytes from
\* the reservation to the objects; others of the same content ask for no more.
LEMMA RetainKeepsClaim ==
  ASSUME NEW S \in SUBSET Uploads, NEW u \in S, NEW D \in SUBSET Digests,
         Intent[u].bytes = Size[Intent[u].digest]
  PROVE  Claimed(S, D \cup {Intent[u].digest}) <= Claimed(S, D)
<1> DEFINE d == Intent[u].digest
<1>0. d \in Digests /\ u \in Uploads /\ D \cup {d} \in SUBSET Digests
  BY Lengths
<1>1. CASE d \in D
  <2>1. D \cup {d} = D
    BY <1>1
  <2>2. Claimed(S, D) \in Nat
    BY ClaimMonotone
  <2> QED
    BY <2>1, <2>2
<1>2. CASE d \notin D
  <2> DEFINE rest == Unstored(S, D) \ {u}
  <2>1. /\ IsFiniteSet(D) /\ IsFiniteSet(rest)
        /\ u \notin rest /\ rest \cup {u} = Unstored(S, D)
        /\ Unstored(S, D \cup {d}) \in SUBSET rest
    BY <1>2, FiniteAssumption, FS_Subset DEF Unstored
  <2>2. ByteSum(Size, D \cup {d}) = ByteSum(Size, D) + Size[d]
    <3>1. d \notin D /\ Size[d] \in 1 .. MaxU64
      BY <1>0, <1>2, Lengths
    <3> QED
      BY <2>1, <3>1, ByteSumInsert
  <2>3. ByteSum(Declared, Unstored(S, D))
          = ByteSum(Declared, rest) + Intent[u].bytes
    <3>1. Declared[u] \in 1 .. MaxU64 /\ Declared[u] = Intent[u].bytes
      BY <1>0, Lengths
    <3>2. ByteSum(Declared, rest \cup {u}) = ByteSum(Declared, rest) + Declared[u]
      BY <2>1, <3>1, ByteSumInsert
    <3> QED
      BY <2>1, <3>1, <3>2
  <2>4. /\ ByteSum(Declared, Unstored(S, D \cup {d})) \in Nat
        /\ ByteSum(Declared, rest) \in Nat
        /\ ByteSum(Declared, Unstored(S, D \cup {d})) <= ByteSum(Declared, rest)
    BY <2>1, ByteSumMonotone
  <2>5. ByteSum(Size, D) \in Nat /\ Size[d] \in Nat
    BY <1>0, <2>1, BytesFinite, Lengths
  <2> QED
    BY <2>2, <2>3, <2>4, <2>5 DEF Claimed
<1> QED
  BY <1>1, <1>2

\* One more upload claims its length, unless its content is retained already.
LEMMA ClaimInsert ==
  ASSUME NEW S \in SUBSET Uploads, NEW u \in Uploads, u \notin S,
         NEW D \in SUBSET Digests
  PROVE  Claimed(S \cup {u}, D)
           = Claimed(S, D) + (IF Intent[u].digest \in D THEN 0 ELSE Intent[u].bytes)
<1>1. /\ IsFiniteSet(Unstored(S, D)) /\ IsFiniteSet(D)
      /\ u \notin Unstored(S, D)
  BY FiniteAssumption, FS_Subset DEF Unstored
<1>2. ByteSum(Size, D) \in Nat /\ ByteSum(Declared, Unstored(S, D)) \in Nat
  BY <1>1, BytesFinite
<1>3. CASE Intent[u].digest \in D
  <2>1. Unstored(S \cup {u}, D) = Unstored(S, D)
    BY <1>3 DEF Unstored
  <2> QED
    BY <1>2, <1>3, <2>1 DEF Claimed
<1>4. CASE Intent[u].digest \notin D
  <2>1. Unstored(S \cup {u}, D) = Unstored(S, D) \cup {u}
    BY <1>4 DEF Unstored
  <2>2. ByteSum(Declared, Unstored(S, D) \cup {u})
          = ByteSum(Declared, Unstored(S, D)) + Intent[u].bytes
    <3>1. Declared[u] \in 1 .. MaxU64 /\ Declared[u] = Intent[u].bytes
      BY Lengths
    <3>2. ByteSum(Declared, Unstored(S, D) \cup {u})
            = ByteSum(Declared, Unstored(S, D)) + Declared[u]
      BY <1>1, <3>1, ByteSumInsert
    <3> QED
      BY <3>1, <3>2
  <2>3. Intent[u].bytes \in Nat
    BY Lengths
  <2>4. Claimed(S \cup {u}, D)
          = ByteSum(Size, D) + (ByteSum(Declared, Unstored(S, D)) + Intent[u].bytes)
    BY <2>1, <2>2 DEF Claimed
  <2>5. Claimed(S, D) = ByteSum(Size, D) + ByteSum(Declared, Unstored(S, D))
    BY DEF Claimed
  <2> QED
    BY <1>2, <1>4, <2>3, <2>4, <2>5
<1> QED
  BY <1>3, <1>4

\* The policy that was checked on the sessions counted admits one more to those
\* that are still there.
LEMMA WithinInsert ==
  ASSUME TypeOK, NEW S \in SUBSET Uploads, S \subseteq begin.counted, Within(S),
         begin.on \in Uploads, begin.on \notin S, PendingPolicyAllows
  PROVE  Within(S \cup {begin.on})
<1> DEFINE u == begin.on
           C == begin.counted
<1>1. C \in SUBSET Uploads /\ IsFiniteSet(C) /\ IsFiniteSet(S)
  BY FiniteAssumption, FS_Subset DEF TypeOK
<1>2. Cardinality(S \cup {u}) <= Policy["max_active_uploads"]
  <2>1. /\ Cardinality(S) \in Nat /\ Cardinality(C) \in Nat
        /\ Cardinality(S) <= Cardinality(C)
        /\ Cardinality(S \cup {u}) = Cardinality(S) + 1
    BY <1>1, FS_Subset, FS_CardinalityType, FS_AddElement
  <2> QED
    BY <2>1, LimitTypes DEF PendingPolicyAllows, Limits
<1>3. ASSUME NEW v \in S \cup {u}
      PROVE  Cardinality(OfPublisher(S \cup {u}, v))
               <= Policy["max_active_uploads_per_publisher"]
  <2>1. CASE Intent[v].publisher = Intent[u].publisher
    <3>1. OfPublisher(S \cup {u}, v) = OfPublisher(S, u) \cup {u}
      BY <2>1 DEF OfPublisher
    <3>2. /\ IsFiniteSet(OfPublisher(S, u)) /\ IsFiniteSet(OfPublisher(C, u))
          /\ OfPublisher(S, u) \in SUBSET OfPublisher(C, u)
          /\ u \notin OfPublisher(S, u)
      BY <1>1, FS_Subset DEF OfPublisher
    <3>3. /\ Cardinality(OfPublisher(S, u)) \in Nat
          /\ Cardinality(OfPublisher(C, u)) \in Nat
          /\ Cardinality(OfPublisher(S, u)) <= Cardinality(OfPublisher(C, u))
          /\ Cardinality(OfPublisher(S, u) \cup {u})
               = Cardinality(OfPublisher(S, u)) + 1
      BY <3>2, FS_Subset, FS_CardinalityType, FS_AddElement
    <3> QED
      BY <3>1, <3>3, LimitTypes DEF PendingPolicyAllows, Limits
  <2>2. CASE Intent[v].publisher # Intent[u].publisher
    <3>1. OfPublisher(S \cup {u}, v) = OfPublisher(S, v) /\ v \in S
      BY <2>2 DEF OfPublisher
    <3> QED
      BY <3>1 DEF Within
  <2> QED
    BY <2>1, <2>2
<1>4. ByteSum(Declared, S \cup {u}) <= Policy["max_pending_bytes"]
  <2>1. /\ ByteSum(Declared, S) \in Nat /\ ByteSum(Declared, C) \in Nat
        /\ ByteSum(Declared, S) <= ByteSum(Declared, C)
    BY <1>1, ByteSumMonotone
  <2>2. ByteSum(Declared, S \cup {u}) = ByteSum(Declared, S) + Intent[u].bytes
    <3>1. Declared[u] \in 1 .. MaxU64 /\ Declared[u] = Intent[u].bytes
      BY Lengths
    <3>2. ByteSum(Declared, S \cup {u}) = ByteSum(Declared, S) + Declared[u]
      BY <1>1, <3>1, ByteSumInsert
    <3> QED
      BY <3>1, <3>2
  <2> QED
    BY <2>1, <2>2, LimitTypes, Lengths DEF PendingPolicyAllows, Limits
<1> QED
  BY <1>2, <1>3, <1>4 DEF Within

-----------------------------------------------------------------------------
(* Sessions *)

\* Giving a directory a new set of files opens or closes its own session only.
LEMMA SetSession ==
  ASSUME TypeInv, NEW u \in Uploads, NEW F, SetFiles(u, F)
  PROVE  /\ SessionFile \in F => OpenSessions' = OpenSessions \cup {u}
         /\ SessionFile \notin F => OpenSessions' = OpenSessions \ {u}
  BY DEF SetFiles, OpenSessions, HasSession, TypeInv, TypeOK

\* A session is closed by the removal of a directory that nobody owns.
Closes(u) ==
  /\ u \in OpenSessions
  /\ OpenSessions' = OpenSessions \ {u}
  /\ UNCHANGED <<objects, receipts, temporary>>
  /\ \/ begin' = begin
     \/ begin.at = "unlink" /\ begin'.at = "unlink" /\ begin'.on = begin.on
  /\ \A c \in Commits : task'[c].at = task[c].at /\ task'[c].on = task[c].on
  /\ \A c \in Commits : Owner(c) /\ task[c].on = u => u \in receipts

\* Taking away a file closes the session or changes no session.
LEMMA UnlinkSession ==
  ASSUME TypeInv, NEW u \in Uploads, NEW f, SetFiles(u, files[u] \ {f})
  PROVE  \/ OpenSessions' = OpenSessions
         \/ u \in OpenSessions /\ OpenSessions' = OpenSessions \ {u}
<1>1. CASE SessionFile \in files[u] \ {f}
  <2>1. u \in OpenSessions
    BY <1>1 DEF OpenSessions, HasSession
  <2> QED
    BY <1>1, <2>1, SetSession
<1>2. CASE SessionFile \notin files[u] \ {f}
  BY <1>2, SetSession DEF OpenSessions
<1> QED
  BY <1>1, <1>2

\* A marker or a chunk changes no session.
LEMMA OtherFile ==
  ASSUME TypeInv, NEW u \in Uploads, NEW f, f # SessionFile,
         SetFiles(u, files[u] \cup {f}) \/ SetFiles(u, files[u] \ {f})
  PROVE  OpenSessions' = OpenSessions
<1>1. CASE SessionFile \in files[u]
  <2>1. u \in OpenSessions
    BY <1>1 DEF OpenSessions, HasSession
  <2> QED
    BY <1>1, <2>1, SetSession
<1>2. CASE SessionFile \notin files[u]
  <2>1. u \notin OpenSessions
    BY <1>2 DEF OpenSessions, HasSession
  <2> QED
    BY <1>2, <2>1, SetSession
<1> QED
  BY <1>1, <1>2

\* A task that ends closes no session.
LEMMA FinishSession ==
  ASSUME TypeInv, NEW c \in Commits, task[c].at # "idle", NEW owns, Finish(c, owns)
  PROVE  OpenSessions' = OpenSessions
<1>1. CASE UNCHANGED files
  BY <1>1 DEF OpenSessions, HasSession
<1>2. CASE SetFiles(task[c].on, files[task[c].on] \ {MarkerFile})
  <2>1. task[c].on \in Uploads /\ MarkerFile # SessionFile
    BY DEF TypeInv, TaskInv, MarkerFile, SessionFile
  <2> QED
    BY <1>2, <2>1, OtherFile
<1> QED
  BY <1>1, <1>2 DEF Finish

\* Sessions are opened by begin_upload and closed one at a time.
LEMMA SessionsStep ==
  ASSUME TypeInv, OwnerInv, [Next]_vars
  PROVE  \/ OpenSessions' = OpenSessions
         \/ WriteSession
         \/ \E u \in Uploads : Closes(u)
<1>1. ASSUME UNCHANGED files PROVE OpenSessions' = OpenSessions
  BY <1>1 DEF OpenSessions, HasSession
<1>2. ASSUME NEW c \in Commits, task[c].at # "idle", NEW owns, Finish(c, owns)
      PROVE  OpenSessions' = OpenSessions
  BY <1>2, FinishSession
<1>3. SessionFile # MarkerFile
  BY DEF SessionFile, MarkerFile
<1>4. ASSUME NEW f \in begin.doomed, PruneUnlink(f)
      PROVE  OpenSessions' = OpenSessions \/ \E u \in Uploads : Closes(u)
  <2>1. begin.victim \in Uploads
    BY <1>4 DEF PruneUnlink, TypeInv, BeginInv
  <2>2. \/ OpenSessions' = OpenSessions
        \/ /\ begin.victim \in OpenSessions
           /\ OpenSessions' = OpenSessions \ {begin.victim}
    BY <1>4, <2>1, UnlinkSession DEF PruneUnlink
  <2>3. begin'.at = "unlink" /\ begin'.on = begin.on
    BY <1>4 DEF PruneUnlink, TypeInv, TypeOK
  <2>4. \A c \in Commits :
          Owner(c) /\ task[c].on = begin.victim => begin.victim \in receipts
    BY <1>4 DEF PruneUnlink, OwnerInv
  <2> QED
    BY <1>4, <2>1, <2>2, <2>3, <2>4 DEF PruneUnlink, Closes
<1>5. ASSUME NEW u \in Uploads, NEW i \in 1 .. ChunkCount(u), NEW right \in Sent,
             StoreChunk(u, i, right)
      PROVE  OpenSessions' = OpenSessions
  <2>1. Chunk(i, right) # SessionFile
    BY DEF Chunk, SessionFile
  <2> QED
    BY <1>5, <2>1, OtherFile DEF StoreChunk
<1>6. ASSUME NEW c \in Commits, BeginCommitMarker(c) \/ MarkerIoFailure(c)
      PROVE  OpenSessions' = OpenSessions
  <2>1. task[c].on \in Uploads /\ task[c].at # "idle"
    BY <1>6 DEF BeginCommitMarker, MarkerIoFailure, TypeInv, TaskInv
  <2>2. \/ SetFiles(task[c].on, files[task[c].on] \cup {MarkerFile})
        \/ Finish(c, FALSE)
    BY <1>6 DEF BeginCommitMarker, MarkerIoFailure
  <2> QED
    BY <1>2, <1>3, <2>1, <2>2, OtherFile
<1>7. ASSUME NEW c \in Commits, NEW f \in task[c].left, UnlinkFile(c, f)
      PROVE  OpenSessions' = OpenSessions \/ \E u \in Uploads : Closes(u)
  <2>1. PICK u \in Uploads : u = task[c].on /\ u \in receipts
    BY <1>7 DEF UnlinkFile, OwnerInv, TypeInv, TaskInv
  <2>2. \/ OpenSessions' = OpenSessions
        \/ u \in OpenSessions /\ OpenSessions' = OpenSessions \ {u}
    BY <1>1, <1>7, <2>1, UnlinkSession DEF UnlinkFile
  <2>3. \A d \in Commits : task'[d].at = task[d].at /\ task'[d].on = task[d].on
    BY <1>7 DEF UnlinkFile, TypeInv, TypeOK
  <2>4. UNCHANGED <<objects, receipts, temporary, begin>>
    BY <1>7 DEF UnlinkFile
  <2>5. CASE u \in OpenSessions /\ OpenSessions' = OpenSessions \ {u}
    <3>1. UNCHANGED <<objects, receipts, temporary>>
      BY <2>4
    <3>2. begin' = begin
      BY <2>4
    <3>3. \A d \in Commits : Owner(d) /\ task[d].on = u => u \in receipts
      BY <2>1
    <3>4. Closes(u)
      BY <2>3, <2>5, <3>1, <3>2, <3>3 DEF Closes
    <3> QED
      BY <3>4
  <2> QED
    BY <2>2, <2>5
<1>8. ASSUME NEW c \in Commits,
             \/ LookupReceipt(c) \/ CheckQuota(c) \/ Assemble(c)
             \/ StoreObject(c) \/ RemoveDirectory(c) \/ CommitIoFailure(c)
      PROVE  OpenSessions' = OpenSessions
  <2>1. /\ task[c].at # "idle"
        /\ UNCHANGED files \/ \E owns \in BOOLEAN : Finish(c, owns)
    BY <1>8 DEF LookupReceipt, CheckQuota, Assemble, StoreObject, RemoveDirectory,
                CommitIoFailure, Marked
  <2> QED
    BY <1>1, <1>2, <2>1 DEF OpenSessions, HasSession
<1>9. ASSUME NEW c \in Commits, NEW u \in Uploads,
             CommitUpload(c, u) \/ WriteReceipt(c) \/ Disconnect(c)
      PROVE  UNCHANGED files
  BY <1>9 DEF CommitUpload, WriteReceipt, Disconnect, disk
<1>10. CASE \/ \E u \in Uploads : BeginUpload(u) \/ GrowOld(u)
            \/ \E d \in Uploads : PruneVisit(d) \/ ScanVisit(d)
            \/ PruneRemove \/ FindSession \/ ReadRetained \/ CreateDirectory
            \/ RefuseReservation \/ SessionUnwritten \/ BeginIoFailure \/ Crash
            \/ UNCHANGED vars
  BY <1>1, <1>10
     DEF BeginUpload, GrowOld, PruneVisit, ScanVisit, PruneRemove, FindSession,
         ReadRetained, CreateDirectory, RefuseReservation, SessionUnwritten,
         BeginIoFailure, Crash, vars, disk
<1>11. CASE \E c \in Commits : \/ WriteReceipt(c) \/ Disconnect(c)
                               \/ \E u \in Uploads : CommitUpload(c, u)
  BY <1>1, <1>11 DEF WriteReceipt, Disconnect, CommitUpload, disk
<1> QED
  BY <1>4, <1>5, <1>6, <1>7, <1>8, <1>10, <1>11 DEF Next, BeginStep, CommitStep

\* Whoever assembles or stores an upload without a receipt has its session.
SessionInv ==
  \A c \in Commits :
    task[c].at \in {"assemble", "store"} /\ task[c].on \notin receipts
      => task[c].on \in OpenSessions

\* A receipt sends its task on to the removal of the directory.
LEMMA ReceiptTask ==
  ASSUME TypeInv, NEW c \in Commits, WriteReceipt(c)
  PROVE  /\ \A d \in Commits : d # c => task'[d] = task[d]
         /\ task'[c].at = "unlink" /\ task'[c].on = task[c].on
<1>1. task' = [task EXCEPT ![c] = [task[c] EXCEPT !.at = "unlink",
                                                  !.left = files[task[c].on]]]
  BY DEF WriteReceipt, TypeInv, TypeOK
<1> QED
  BY <1>1 DEF TypeInv, TypeOK

\* Every step leaves its session to a commit that works.
LEMMA SessionStep ==
  ASSUME TypeInv, TypeInv', OwnerInv, SessionInv, [Next]_vars
  PROVE  SessionInv'
<1> SUFFICES ASSUME NEW c \in Commits, task'[c].at \in {"assemble", "store"},
                    task'[c].on \notin receipts'
             PROVE  task'[c].on \in OpenSessions'
  BY DEF SessionInv
<1>1. /\ task'[c].on = task[c].on /\ Owner(c)
      /\ task[c].on \in Uploads /\ task[c].on \notin receipts
      /\ task[c].on \in OpenSessions
  <2>1. receipts \subseteq receipts'
    <3>1. UNCHANGED receipts \/ \E d \in Commits : WriteReceipt(d)
      BY DEF Next, BeginStep, CommitStep, BeginUpload, GrowOld, PruneVisit, ScanVisit,
             PruneUnlink, PruneRemove, FindSession, ReadRetained, CreateDirectory,
             RefuseReservation, WriteSession, SessionUnwritten, BeginIoFailure,
             StoreChunk, CommitUpload, LookupReceipt, BeginCommitMarker, CheckQuota,
             Assemble, StoreObject, RemoveDirectory, UnlinkFile, Disconnect,
             CommitIoFailure, MarkerIoFailure, Crash, vars, disk
    <3> QED
      BY <3>1 DEF WriteReceipt
  <2>2. CASE task'[c].at = task[c].at /\ task'[c].on = task[c].on
    BY <2>1, <2>2 DEF SessionInv, Owner, TypeInv, TaskInv
  <2>3. CASE task'[c].at # task[c].at \/ task'[c].on # task[c].on
    <3>1. CheckQuota(c) \/ Assemble(c)
      <4>1. ASSUME NEW d \in Commits, NEW owns, Finish(d, owns) PROVE FALSE
        BY <2>3, <4>1 DEF Finish, IdleTask, TypeInv, TypeOK
      <4>2. ASSUME NEW d \in Commits, d # c, NEW place, Goto(d, place) PROVE FALSE
        BY <2>3, <4>2 DEF Goto, TypeInv, TypeOK
      <4>3. ASSUME NEW place, place \notin {"assemble", "store"}, Goto(c, place)
            PROVE  FALSE
        BY <4>3 DEF Goto, TypeInv, TypeOK
      <4>4. ASSUME UNCHANGED task PROVE FALSE
        BY <2>3, <4>4
      <4>5. ASSUME NEW d \in Commits,
                   \/ LookupReceipt(d) \/ StoreObject(d) \/ RemoveDirectory(d)
                   \/ CommitIoFailure(d)
                   \/ d # c /\ (CheckQuota(d) \/ Assemble(d))
            PROVE  FALSE
        BY <4>1, <4>2, <4>3, <4>5
           DEF LookupReceipt, StoreObject, RemoveDirectory, CommitIoFailure,
               CheckQuota, Assemble
      <4>6. ASSUME NEW d \in Commits, BeginCommitMarker(d) PROVE FALSE
        <5>1. Goto(d, "admit") \/ Finish(d, FALSE)
          BY <4>6 DEF BeginCommitMarker
        <5> QED
          BY <4>1, <4>2, <4>3, <5>1
      <4>7. ASSUME NEW d \in Commits, WriteReceipt(d) PROVE FALSE
        BY <2>3, <4>7, ReceiptTask
      <4>8. ASSUME NEW d \in Commits, NEW u \in Uploads, CommitUpload(d, u)
             PROVE  FALSE
        BY <2>3, <4>8 DEF CommitUpload, IdleTask, TypeInv, TypeOK
      <4>9. ASSUME NEW d \in Commits, MarkerIoFailure(d) PROVE FALSE
        BY <2>3, <4>9 DEF MarkerIoFailure, IdleTask, TypeInv, TypeOK
      <4>10. ASSUME NEW d \in Commits, NEW f, UnlinkFile(d, f) PROVE FALSE
        BY <2>3, <4>10 DEF UnlinkFile, TypeInv, TypeOK
      <4>11. ASSUME Crash PROVE FALSE
        BY <4>11 DEF Crash, IdleTask
      <4>12. ASSUME \/ \E u \in Uploads : BeginUpload(u) \/ GrowOld(u)
                    \/ BeginStep \/ BeginIoFailure
                    \/ \E u \in Uploads : \E i \in 1 .. ChunkCount(u), right \in Sent :
                         StoreChunk(u, i, right)
                    \/ \E d \in Commits : Disconnect(d)
                    \/ UNCHANGED vars
             PROVE  FALSE
        BY <4>4, <4>12
           DEF BeginUpload, GrowOld, BeginStep, BeginIoFailure, StoreChunk, Disconnect,
               PruneVisit, PruneUnlink, PruneRemove, FindSession, ScanVisit,
               ReadRetained, CreateDirectory, RefuseReservation, WriteSession,
               SessionUnwritten, vars, disk
      <4>13. ASSUME NEW d \in Commits, CommitStep(d)
             PROVE  CheckQuota(c) \/ Assemble(c)
        BY <4>5, <4>6, <4>7, <4>10, <4>13 DEF CommitStep
      <4> QED
        <5>1. CASE Next
          <6>1. ASSUME NEW d \in Commits,
                       \/ CommitStep(d) \/ Disconnect(d)
                       \/ CommitIoFailure(d) \/ MarkerIoFailure(d)
                PROVE  CheckQuota(c) \/ Assemble(c)
            BY <4>5, <4>9, <4>12, <4>13, <6>1
          <6> QED
            BY <4>8, <4>11, <4>12, <5>1, <6>1 DEF Next
        <5> QED
          BY <4>12, <5>1
    <3>2. CASE CheckQuota(c)
      <4>1. Goto(c, "assemble") /\ HasSession(task[c].on) /\ task[c].at = "admit"
        BY <3>2 DEF CheckQuota, Finish, IdleTask, TypeInv, TypeOK
      <4> QED
        BY <2>1, <3>2, <4>1
           DEF Goto, OpenSessions, Owner, TypeInv, TypeOK, TaskInv
    <3>3. CASE Assemble(c)
      <4>1. Goto(c, "store") /\ task[c].at = "assemble"
        BY <3>3 DEF Assemble, Finish, IdleTask, TypeInv, TypeOK
      <4> QED
        BY <2>1, <4>1 DEF Goto, SessionInv, Owner, TypeInv, TypeOK, TaskInv
    <3> QED
      BY <3>1, <3>2, <3>3
  <2> QED
    BY <2>2, <2>3
<1>2. CASE WriteSession
  <2>1. OpenSessions' = OpenSessions \cup {begin.on}
    BY <1>2, SetSession DEF WriteSession, TypeInv, BeginInv
  <2> QED
    BY <1>1, <2>1
<1>3. ASSUME NEW u \in Uploads, Closes(u) PROVE task'[c].on \in OpenSessions'
  <2>1. task[c].on # u
    BY <1>1, <1>3 DEF Closes
  <2> QED
    BY <1>1, <1>3, <2>1 DEF Closes
<1> QED
  BY <1>1, <1>2, <1>3, SessionsStep

-----------------------------------------------------------------------------
(* Reservations are honoured *)

\* While begin_upload looks at the sessions it has counted those that are still
\* open, or will; what it read of them and of the objects is no less than they
\* claim; and once it has decided there is room for its upload.
ClaimsInv ==
  /\ Claimed(OpenSessions, objects) <= Policy["max_retained_bytes"]
  /\ Within(OpenSessions)
  /\ begin.at # "idle" => Intent[begin.on].bytes <= Policy["max_object_bytes"]
  /\ begin.at \in {"scan", "reserve", "write"} => begin.on \notin OpenSessions
  /\ begin.at = "scan" => OpenSessions \subseteq begin.counted \cup begin.todo
  /\ begin.at = "reserve" =>
       /\ OpenSessions \subseteq begin.counted
       /\ PendingPolicyAllows
       /\ Claimed(OpenSessions, objects)
            <= begin.retained + ByteSum(Declared, begin.counted)
  /\ begin.at = "write" =>
       /\ Claimed(OpenSessions \cup {begin.on}, objects)
            <= Policy["max_retained_bytes"]
       /\ Within(OpenSessions \cup {begin.on})

\* A step that opens no session and makes no claim larger keeps all of it, where
\* begin_upload goes on as it was or has not reached the sessions.
LEMMA ClaimsFrame ==
  ASSUME TypeInv, TypeInv', ClaimsInv, OpenSessions' \subseteq OpenSessions,
         \A S \in SUBSET Uploads :
           OpenSessions \subseteq S => Claimed(S, objects') <= Claimed(S, objects),
         \/ begin' = begin
         \/ /\ begin'.at \notin {"scan", "reserve", "write"}
            /\ begin'.at # "idle" =>
                 Intent[begin'.on].bytes <= Policy["max_object_bytes"]
  PROVE  ClaimsInv'
<1>1. /\ OpenSessions \in SUBSET Uploads
      /\ objects \in SUBSET Digests /\ objects' \in SUBSET Digests
  BY DEF OpenSessions, TypeInv, TypeOK
<1>2. \A S \in SUBSET Uploads : \A R \in SUBSET S :
        OpenSessions \subseteq S =>
          /\ Claimed(R, objects') \in Nat /\ Claimed(S, objects) \in Nat
          /\ Claimed(R, objects') <= Claimed(S, objects)
  <2> SUFFICES ASSUME NEW S \in SUBSET Uploads, NEW R \in SUBSET S,
                      OpenSessions \subseteq S
               PROVE  /\ Claimed(R, objects') \in Nat /\ Claimed(S, objects) \in Nat
                      /\ Claimed(R, objects') <= Claimed(S, objects)
    OBVIOUS
  <2>1. /\ Claimed(R, objects') \in Nat /\ Claimed(S, objects') \in Nat
        /\ Claimed(R, objects') <= Claimed(S, objects')
    BY <1>1, ClaimMonotone
  <2>2. Claimed(S, objects) \in Nat
    BY <1>1, ClaimMonotone
  <2>3. Claimed(S, objects') <= Claimed(S, objects)
    OBVIOUS
  <2> QED
    BY <2>1, <2>2, <2>3
<1>3. Policy["max_retained_bytes"] \in Nat
  BY LimitTypes DEF Limits
<1>4. Claimed(OpenSessions', objects') <= Policy["max_retained_bytes"]
  BY <1>1, <1>2, <1>3 DEF ClaimsInv
<1>5. Within(OpenSessions')
  BY <1>1, WithinMonotone DEF ClaimsInv
<1>6. CASE begin' = begin
  <2>1. CASE begin.at = "reserve"
    <3>1. begin.retained + ByteSum(Declared, begin.counted) \in Nat
      <4>1. IsFiniteSet(begin.counted) /\ begin.retained \in Nat
        BY FiniteAssumption, FS_Subset DEF TypeInv, TypeOK
      <4> QED
        BY <4>1, BytesFinite
    <3>2. Claimed(OpenSessions', objects')
            <= begin.retained + ByteSum(Declared, begin.counted)
      BY <1>1, <1>2, <2>1, <3>1 DEF ClaimsInv
    <3>3. PendingPolicyAllows'
      BY <1>6, <2>1 DEF ClaimsInv, PendingPolicyAllows
    <3> QED
      BY <1>4, <1>5, <1>6, <2>1, <3>2, <3>3 DEF ClaimsInv
  <2>2. CASE begin.at = "write"
    <3> DEFINE S == OpenSessions \cup {begin.on}
    <3>1. S \in SUBSET Uploads /\ OpenSessions' \cup {begin.on} \in SUBSET S
      BY <1>1, <2>2 DEF TypeInv, BeginInv
    <3>2. Claimed(OpenSessions' \cup {begin.on}, objects')
            <= Policy["max_retained_bytes"]
      <4>1. OpenSessions \subseteq S /\ Claimed(S, objects) <= Policy["max_retained_bytes"]
        BY <2>2 DEF ClaimsInv
      <4> HIDE DEF S
      <4> QED
        BY <1>2, <1>3, <3>1, <4>1
    <3>3. Within(OpenSessions' \cup {begin.on})
      BY <2>2, <3>1, WithinMonotone DEF ClaimsInv
    <3> QED
      BY <1>4, <1>5, <1>6, <2>2, <3>2, <3>3 DEF ClaimsInv
  <2>3. CASE begin.at \notin {"reserve", "write"}
    BY <1>4, <1>5, <1>6, <2>3 DEF ClaimsInv
  <2> QED
    BY <2>1, <2>2, <2>3
<1>7. CASE begin'.at \notin {"scan", "reserve", "write"}
           /\ (begin'.at # "idle" =>
                 Intent[begin'.on].bytes <= Policy["max_object_bytes"])
  BY <1>4, <1>5, <1>7 DEF ClaimsInv
<1> QED
  BY <1>6, <1>7

\* An empty node has room for everything validate_config allows.
LEMMA ClaimsInitially == Init => ClaimsInv
<1> SUFFICES ASSUME Init PROVE ClaimsInv
  OBVIOUS
<1>1. OpenSessions = {} /\ objects = {} /\ begin.at = "idle"
  BY DEF Init, OpenSessions, HasSession, IdleBegin
<1>2. /\ Cardinality({}) = 0 /\ IsFiniteSet({})
  BY FS_EmptySet
<1>3. /\ Unstored({}, {}) = {} /\ Bytes(Declared, {}) = {} /\ Bytes(Size, {}) = {}
  BY DEF Unstored, Bytes
<1>4. ByteSum(Declared, {}) = 0 /\ ByteSum(Size, {}) = 0
  BY <1>2, <1>3, BytesFinite
<1>5. Claimed({}, {}) = 0
  BY <1>3, <1>4 DEF Claimed
<1>6. Within({})
  BY <1>2, <1>4, LimitTypes DEF Within, Limits
<1> QED
  BY <1>1, <1>5, <1>6, LimitTypes DEF ClaimsInv, Limits

\* What a commit retains is the content of an open session, or there already.
LEMMA ObjectsStep ==
  ASSUME TypeInv, SessionInv, BackedInv, NEW c \in Commits, StoreObject(c)
  PROVE  \/ objects' = objects
         \/ /\ task[c].on \in OpenSessions
            /\ Verified(task[c].on)
            /\ objects' = objects \cup {Intent[task[c].on].digest}
<1>1. Verified(task[c].on)
  BY DEF StoreObject, BackedInv
<1>2. \/ objects' = objects
      \/ objects' = objects \cup {Intent[task[c].on].digest}
  BY DEF StoreObject
<1>3. task[c].on \in OpenSessions \/ Stored(task[c].on)
  BY DEF StoreObject, SessionInv, BackedInv, ReceiptsBacked
<1> QED
  BY <1>1, <1>2, <1>3 DEF Stored

\* Only StoreObject changes the objects.
LEMMA OtherObjects ==
  ASSUME [Next]_vars, \A c \in Commits : ~StoreObject(c)
  PROVE  objects' = objects
  BY DEF Next, BeginStep, CommitStep, BeginUpload, GrowOld, PruneVisit, ScanVisit,
         PruneUnlink, PruneRemove, FindSession, ReadRetained, CreateDirectory,
         RefuseReservation, WriteSession, SessionUnwritten, BeginIoFailure,
         StoreChunk, CommitUpload, LookupReceipt, BeginCommitMarker, CheckQuota,
         Assemble, WriteReceipt, RemoveDirectory, UnlinkFile, Disconnect,
         CommitIoFailure, MarkerIoFailure, Crash, vars, disk

\* A claim does not grow with the objects.
LEMMA ObjectsClaim ==
  ASSUME TypeInv, SessionInv, BackedInv, [Next]_vars,
         NEW S \in SUBSET Uploads, OpenSessions \subseteq S
  PROVE  Claimed(S, objects') <= Claimed(S, objects)
<1>1. objects \in SUBSET Digests
  BY DEF TypeInv, TypeOK
<1>2. CASE objects' = objects
  <2>1. Claimed(S, objects) \in Nat
    BY <1>1, ClaimMonotone
  <2> QED
    BY <1>2, <2>1
<1>3. ASSUME NEW c \in Commits, StoreObject(c)
      PROVE  Claimed(S, objects') <= Claimed(S, objects)
  <2>1. CASE /\ task[c].on \in OpenSessions /\ Verified(task[c].on)
             /\ objects' = objects \cup {Intent[task[c].on].digest}
    BY <1>1, <2>1, RetainKeepsClaim DEF Verified
  <2> QED
    BY <1>2, <1>3, <2>1, ObjectsStep
<1> QED
  BY <1>2, <1>3, OtherObjects

\* Every step leaves room for what the sessions claim.
LEMMA ClaimsStep ==
  ASSUME TypeInv, TypeInv', OwnerInv, SessionInv, BackedInv, ClaimsInv, [Next]_vars
  PROVE  ClaimsInv'
<1>1. /\ OpenSessions \in SUBSET Uploads /\ objects \in SUBSET Digests
      /\ OpenSessions \subseteq dirs
  BY DEF OpenSessions, HasSession, TypeInv, TypeOK
<1>2. ASSUME OpenSessions' \subseteq OpenSessions,
             \/ begin' = begin
             \/ /\ begin'.at \notin {"scan", "reserve", "write"}
                /\ begin'.at # "idle" =>
                     Intent[begin'.on].bytes <= Policy["max_object_bytes"]
      PROVE  ClaimsInv'
  BY <1>2, ClaimsFrame, ObjectsClaim
<1>3. ASSUME begin' = begin, ~WriteSession PROVE ClaimsInv'
  <2>1. OpenSessions' \subseteq OpenSessions
    BY <1>3, SessionsStep DEF Closes
  <2> QED
    BY <1>2, <1>3, <2>1
<1>4. ASSUME UNCHANGED <<files, objects>>
      PROVE  OpenSessions' = OpenSessions
  BY <1>4 DEF OpenSessions, HasSession
<1>5. ASSUME begin' = IdleBegin, UNCHANGED files PROVE ClaimsInv'
  BY <1>2, <1>4, <1>5 DEF IdleBegin, OpenSessions, HasSession
<1>6. ASSUME NEW u \in Uploads, BeginUpload(u) PROVE ClaimsInv'
  <2>1. begin'.at = "prune" /\ begin'.on = u
    BY <1>6 DEF BeginUpload, IdleBegin
  <2> QED
    BY <1>2, <1>4, <1>6, <2>1 DEF BeginUpload, disk
<1>7. ASSUME NEW d \in Uploads, PruneVisit(d) PROVE ClaimsInv'
  <2>1. begin'.at \in {"prune", "unlink"} /\ begin'.on = begin.on
    BY <1>7 DEF PruneVisit, TypeInv, TypeOK
  <2>2. OpenSessions' = OpenSessions /\ begin.at # "idle"
    BY <1>4, <1>7 DEF PruneVisit, disk
  <2> QED
    BY <1>2, <2>1, <2>2 DEF ClaimsInv
<1>8. ASSUME NEW f \in begin.doomed, PruneUnlink(f) PROVE ClaimsInv'
  <2>1. begin'.at = "unlink" /\ begin'.on = begin.on /\ begin.at = "unlink"
    BY <1>8 DEF PruneUnlink, TypeInv, TypeOK
  <2>2. OpenSessions' \subseteq OpenSessions
    BY <2>1, SessionsStep DEF Closes, WriteSession
  <2> QED
    BY <1>2, <2>1, <2>2 DEF ClaimsInv
<1>9. CASE PruneRemove
  <2>1. begin'.at = "prune" /\ begin'.on = begin.on /\ begin.at = "unlink"
    BY <1>9 DEF PruneRemove, TypeInv, TypeOK
  <2>2. OpenSessions' = OpenSessions
    BY <1>4, <1>9 DEF PruneRemove
  <2> QED
    BY <1>2, <2>1, <2>2 DEF ClaimsInv
<1>10. CASE FindSession
  <2>1. CASE HasSession(begin.on)
    BY <1>5, <1>10, <2>1 DEF FindSession, disk
  <2>2. CASE ~HasSession(begin.on)
    <3>1. /\ begin'.at = "scan" /\ begin'.on = begin.on /\ begin'.todo = dirs
          /\ begin.at = "prune"
      BY <1>10, <2>2 DEF FindSession, TypeInv, TypeOK
    <3>2. OpenSessions' = OpenSessions /\ objects' = objects
      BY <1>4, <1>10 DEF FindSession, disk
    <3>3. begin.on \notin OpenSessions
      BY <2>2 DEF OpenSessions
    <3> QED
      BY <1>1, <3>1, <3>2, <3>3 DEF ClaimsInv
  <2> QED
    BY <2>1, <2>2
<1>11. ASSUME NEW d \in Uploads, ScanVisit(d) PROVE ClaimsInv'
  <2>1. OpenSessions' = OpenSessions /\ objects' = objects /\ begin.at = "scan"
    BY <1>4, <1>11 DEF ScanVisit, disk
  <2>2. CASE begin' = IdleBegin
    BY <1>5, <1>11, <2>2 DEF ScanVisit, disk
  <2>3. CASE begin' # IdleBegin
    <3>1. begin'.at = "scan" /\ begin'.on = begin.on
      BY <1>11, <2>3 DEF ScanVisit, TypeInv, TypeOK
    <3>2. \/ begin'.counted = begin.counted \cup {d} /\ begin'.todo = begin.todo \ {d}
          \/ /\ d \notin dirs
             /\ begin'.counted = begin.counted /\ begin'.todo = begin.todo \ {d}
      BY <1>11, <2>3 DEF ScanVisit, TypeInv, TypeOK
    <3> QED
      BY <1>1, <2>1, <3>1, <3>2 DEF ClaimsInv
  <2> QED
    BY <2>2, <2>3
<1>12. CASE ReadRetained
  <2>1. CASE ~PendingPolicyAllows
    BY <1>5, <1>12, <2>1 DEF ReadRetained, disk
  <2>2. CASE PendingPolicyAllows
    <3>1. /\ begin'.at = "reserve" /\ begin'.on = begin.on
          /\ begin'.counted = begin.counted /\ begin'.retained = RetainedBytes
          /\ begin.at = "scan" /\ begin.todo = {}
      BY <1>12, <2>2 DEF ReadRetained, TypeInv, TypeOK
    <3>2. OpenSessions' = OpenSessions /\ objects' = objects
      BY <1>4, <1>12 DEF ReadRetained, disk
    <3>3. OpenSessions \subseteq begin.counted /\ IsFiniteSet(begin.counted)
      BY <3>1, FiniteAssumption, FS_Subset DEF ClaimsInv, TypeInv, TypeOK
    <3>4. PendingPolicyAllows'
      BY <2>2, <3>1 DEF PendingPolicyAllows
    <3>5. Claimed(OpenSessions, objects)
            <= RetainedBytes + ByteSum(Declared, begin.counted)
      <4>1. Unstored(OpenSessions, objects) \in SUBSET begin.counted
        BY <3>3 DEF Unstored
      <4>2. /\ ByteSum(Declared, Unstored(OpenSessions, objects)) \in Nat
            /\ ByteSum(Declared, begin.counted) \in Nat
            /\ ByteSum(Declared, Unstored(OpenSessions, objects))
                 <= ByteSum(Declared, begin.counted)
        BY <3>3, <4>1, ByteSumMonotone
      <4>3. ByteSum(Size, objects) \in Nat
        BY <1>1, FiniteAssumption, FS_Subset, BytesFinite
      <4> QED
        BY <4>2, <4>3 DEF Claimed, RetainedBytes
    <3> QED
      BY <3>1, <3>2, <3>3, <3>4, <3>5 DEF ClaimsInv
  <2> QED
    BY <2>1, <2>2
<1>13. CASE CreateDirectory
  <2>1. /\ begin'.at = "write" /\ begin'.on = begin.on
        /\ begin.at = "reserve" /\ begin.on \in Uploads
        /\ begin.retained \in Nat /\ begin.counted \in SUBSET Uploads
    BY <1>13 DEF CreateDirectory, TypeInv, TypeOK, BeginInv
  <2>2. OpenSessions' = OpenSessions /\ objects' = objects
    BY <1>4, <1>13 DEF CreateDirectory
  <2>3. Within(OpenSessions \cup {begin.on})
    BY <1>1, <2>1, WithinInsert DEF ClaimsInv, TypeInv
  <2>4. Claimed(OpenSessions \cup {begin.on}, objects)
          = Claimed(OpenSessions, objects) + Additional(begin.on)
    <3>1. begin.on \notin OpenSessions
      BY <2>1 DEF ClaimsInv
    <3>2. Claimed(OpenSessions \cup {begin.on}, objects)
            = Claimed(OpenSessions, objects)
              + (IF Intent[begin.on].digest \in objects THEN 0 ELSE Intent[begin.on].bytes)
      <4>1. OpenSessions \in SUBSET Uploads /\ objects \in SUBSET Digests
        BY <1>1
      <4>2. begin.on \in Uploads
        BY <2>1
      <4> QED
        BY <3>1, <4>1, <4>2, ClaimInsert, Zenon
    <3> QED
      BY <3>2 DEF Additional, Stored
  <2>5. Claimed(OpenSessions, objects)
          <= begin.retained + ByteSum(Declared, begin.counted)
    BY <2>1 DEF ClaimsInv
  <2>6. /\ Claimed(OpenSessions, objects) \in Nat
        /\ ByteSum(Declared, begin.counted) \in Nat
        /\ Additional(begin.on) \in Nat
        /\ Policy["max_retained_bytes"] \in Nat
    <3>1. Claimed(OpenSessions, objects) \in Nat
      BY <1>1, ClaimMonotone
    <3>2. IsFiniteSet(begin.counted)
      BY <2>1, FiniteAssumption, FS_Subset
    <3>3. ByteSum(Declared, begin.counted) \in Nat
      BY <3>2, BytesFinite
    <3>4. Additional(begin.on) \in Nat
      BY <2>1, Lengths DEF Additional
    <3> QED
      BY <3>1, <3>3, <3>4, LimitTypes DEF Limits
  <2>7. begin.retained + ByteSum(Declared, begin.counted) + Additional(begin.on)
          <= Policy["max_retained_bytes"]
    BY <1>13 DEF CreateDirectory, ReservationAllows, Reserves
  <2>8. Claimed(OpenSessions \cup {begin.on}, objects) <= Policy["max_retained_bytes"]
    BY <2>1, <2>4, <2>5, <2>6, <2>7
  <2> QED
    BY <2>1, <2>2, <2>3, <2>8 DEF ClaimsInv
<1>14. CASE RefuseReservation \/ SessionUnwritten \/ BeginIoFailure \/ Crash
  BY <1>5, <1>14 DEF RefuseReservation, SessionUnwritten, BeginIoFailure, Crash, disk
<1>15. CASE WriteSession
  <2>1. OpenSessions' = OpenSessions \cup {begin.on}
    BY <1>15, SetSession DEF WriteSession, TypeInv, BeginInv
  <2>2. begin' = IdleBegin /\ objects' = objects /\ begin.at = "write"
    BY <1>15 DEF WriteSession
  <2> QED
    BY <2>1, <2>2 DEF ClaimsInv, IdleBegin
<1>16. CASE \/ \E u \in Uploads : GrowOld(u)
            \/ \E u \in Uploads : \E i \in 1 .. ChunkCount(u), right \in Sent :
                 StoreChunk(u, i, right)
            \/ \E c \in Commits, u \in Uploads : CommitUpload(c, u)
            \/ \E c \in Commits : \/ CommitStep(c) \/ Disconnect(c)
                                 \/ CommitIoFailure(c) \/ MarkerIoFailure(c)
            \/ UNCHANGED vars
  <2>1. begin' = begin
    BY <1>16 DEF GrowOld, StoreChunk, CommitUpload, CommitStep, Disconnect,
                 CommitIoFailure, MarkerIoFailure, LookupReceipt, BeginCommitMarker,
                 CheckQuota, Assemble, StoreObject, WriteReceipt, RemoveDirectory,
                 UnlinkFile, vars
  <2>2. CASE ~WriteSession
    BY <1>3, <2>1, <2>2
  <2> QED
    BY <1>15, <2>2
<1> QED
  BY <1>6, <1>7, <1>8, <1>9, <1>10, <1>11, <1>12, <1>13, <1>14, <1>15, <1>16
     DEF Next, BeginStep

(***************************************************************************)
(* The node implements the ledger                                          *)
(***************************************************************************)

\* Only WriteReceipt changes the receipts.
LEMMA OtherReceipts ==
  ASSUME [Next]_vars, \A c \in Commits : ~WriteReceipt(c)
  PROVE  receipts' = receipts
  BY DEF Next, BeginStep, CommitStep, BeginUpload, GrowOld, PruneVisit, ScanVisit,
         PruneUnlink, PruneRemove, FindSession, ReadRetained, CreateDirectory,
         RefuseReservation, WriteSession, SessionUnwritten, BeginIoFailure,
         StoreChunk, CommitUpload, LookupReceipt, BeginCommitMarker, CheckQuota,
         Assemble, StoreObject, RemoveDirectory, UnlinkFile, Disconnect,
         CommitIoFailure, MarkerIoFailure, Crash, vars, disk

\* An empty node is an empty ledger.
LEMMA LedgerInit == Init => Ledger!Init
  BY DEF Init, Ledger!Init, OpenSessions, HasSession

\* Each step of the node is one of the ledger's, or changes nothing of it: the
\* ledger reads its sums at once where begin_upload read them one by one.
LEMMA LedgerStep ==
  ASSUME TypeInv, OwnerInv, SessionInv, BackedInv, ClaimsInv, [Next]_vars
  PROVE  [Ledger!Next]_(Ledger!vars)
<1>1. /\ OpenSessions \in SUBSET Uploads /\ objects \in SUBSET Digests
      /\ \A c \in Commits : task[c].at # "idle" => task[c].on \in Uploads
  BY DEF OpenSessions, TypeInv, TypeOK, TaskInv
<1>2. CASE WriteSession
  <2>1. /\ begin.at = "write" /\ begin.on \in Uploads
        /\ objects' = objects /\ receipts' = receipts
        /\ OpenSessions' = OpenSessions \cup {begin.on}
    BY <1>2, SetSession DEF WriteSession, TypeInv, BeginInv
  <2>2. /\ begin.on \notin OpenSessions
        /\ Intent[begin.on].bytes <= Policy["max_object_bytes"]
        /\ Ledger!WithinPending(OpenSessions \cup {begin.on})
        /\ Ledger!Claim(OpenSessions \cup {begin.on}) <= Policy["max_retained_bytes"]
    BY <2>1, LedgerMeans DEF ClaimsInv
  <2>3. Ledger!Open(begin.on)
    BY <2>1, <2>2 DEF Ledger!Open
  <2> QED
    BY <2>1, <2>3 DEF Ledger!Next
<1>3. ASSUME NEW u \in Uploads, Closes(u) PROVE Ledger!Next
  <2>1. Ledger!Close(u)
    BY <1>3 DEF Closes, Ledger!Close
  <2> QED
    BY <2>1 DEF Ledger!Next
<1>4. ASSUME OpenSessions' = OpenSessions, NEW c \in Commits, StoreObject(c)
      PROVE  [Ledger!Next]_(Ledger!vars)
  <2>1. receipts' = receipts /\ task[c].on \in Uploads
    BY <1>1, <1>4 DEF StoreObject
  <2>2. CASE objects' = objects
    BY <1>4, <2>1, <2>2 DEF Ledger!vars
  <2>3. CASE /\ task[c].on \in OpenSessions /\ Verified(task[c].on)
             /\ objects' = objects \cup {Intent[task[c].on].digest}
    <3>1. Ledger!Retain(task[c].on)
      BY <1>4, <2>1, <2>3 DEF Ledger!Retain, Verified
    <3> QED
      BY <2>1, <3>1 DEF Ledger!Next
  <2> QED
    BY <1>4, <2>2, <2>3, ObjectsStep
<1>5. ASSUME OpenSessions' = OpenSessions, NEW c \in Commits, WriteReceipt(c)
      PROVE  Ledger!Next
  <2>1. /\ task[c].on \in Uploads /\ objects' = objects
        /\ receipts' = receipts \cup {task[c].on}
        /\ Stored(task[c].on) /\ Verified(task[c].on)
    BY <1>1, <1>5 DEF WriteReceipt, BackedInv
  <2>2. Ledger!Publish(task[c].on)
    BY <1>5, <2>1 DEF Ledger!Publish, Stored, Verified
  <2> QED
    BY <2>1, <2>2 DEF Ledger!Next
<1>6. CASE /\ OpenSessions' = OpenSessions
           /\ \A c \in Commits : ~StoreObject(c) /\ ~WriteReceipt(c)
  BY <1>6, OtherObjects, OtherReceipts DEF Ledger!vars
<1> QED
  BY <1>2, <1>3, <1>4, <1>5, <1>6, SessionsStep

\* What the steps of the node keep, together.
NodeInv == TypeInv /\ OwnerInv /\ BackedInv /\ SessionInv /\ ClaimsInv

\* An empty node satisfies it.
LEMMA NodeInit == Init => NodeInv
<1>1. Init => SessionInv
  BY DEF Init, SessionInv, IdleTask
<1> QED
  BY <1>1, TypeInit, OwnerInit, BackedInit, ClaimsInitially DEF NodeInv

\* Every step keeps it.
LEMMA NodeStep == NodeInv /\ [Next]_vars => NodeInv'
<1> SUFFICES ASSUME NodeInv, [Next]_vars PROVE NodeInv'
  OBVIOUS
<1>1. TypeInv' /\ TypeInv /\ OwnerInv /\ BackedInv /\ SessionInv /\ ClaimsInv
  BY TypeStep DEF NodeInv
<1>2. OwnerInv'
  BY <1>1, OwnerStep
<1>3. BackedInv'
  BY <1>1, BackedStep
<1>4. SessionInv'
  BY <1>1, SessionStep
<1>5. ClaimsInv'
  BY <1>1, ClaimsStep
<1> QED
  BY <1>1, <1>2, <1>3, <1>4, <1>5 DEF NodeInv

\* It holds in every state.
LEMMA NodeAlways == Spec => []NodeInv
  BY NodeInit, NodeStep, PTL DEF Spec

\* The node reserves, retains and publishes as the ledger does in one step each,
\* for any number of uploads, commits, failures and crashes.
THEOREM ImplementsLedgerHolds == Spec => ImplementsLedger
<1>1. NodeInv /\ [Next]_vars => [Ledger!Next]_(Ledger!vars)
  BY LedgerStep DEF NodeInv
<1> QED
  BY <1>1, LedgerInit, NodeAlways, PTL DEF Spec, ImplementsLedger, Ledger!Spec

\* What is retained, with all that is reserved, never exceeds
\* max_retained_bytes.
THEOREM ReservedHolds == Spec => []Reserved
<1>1. NodeInv => Reserved
  BY LedgerMeans DEF NodeInv, ClaimsInv, Reserved, Ledger!Reserved
<1> QED
  BY <1>1, NodeAlways, PTL

\* The open sessions never exceed the limits on pending uploads.
THEOREM PendingWithinPolicyHolds == Spec => []PendingWithinPolicy
<1>1. NodeInv => PendingWithinPolicy
  BY LedgerMeans DEF NodeInv, ClaimsInv, PendingWithinPolicy,
                     Ledger!PendingWithinPolicy
<1> QED
  BY <1>1, NodeAlways, PTL

(***************************************************************************)
(* Where no commit request is dropped                                      *)
(***************************************************************************)

\* commit_lock is held by whatever task there is.  What it has read of the
\* receipts since it looked its own up is therefore still so when it writes one.
SerialInv ==
  /\ \A c \in Commits : task[c].at # "idle" => commitLock = c
  /\ \A c \in Commits :
       task[c].at \in {"mark", "admit", "assemble", "store", "receipt"}
         => task[c].on \notin receipts
  /\ \A c \in Commits :
       task[c].at \in {"assemble", "store", "receipt"}
         => ReceiptCapacity(task[c].on) /\ PublisherFits(task[c].on)
  /\ ReceiptsWithinPolicy
  /\ PublisherBytesWithinPolicy

\* A step that writes no receipt keeps it when each task it moves past a reading
\* has made that reading.
LEMMA SerialFrame ==
  ASSUME SerialInv, receipts' = receipts,
         \A c \in Commits : task'[c].at # "idle" => commitLock' = c,
         \A c \in Commits :
           task'[c].at \in {"mark", "admit", "assemble", "store", "receipt"} =>
             \/ /\ task[c].at \in {"mark", "admit", "assemble", "store", "receipt"}
                /\ task'[c].on = task[c].on
             \/ task'[c].on \notin receipts,
         \A c \in Commits :
           task'[c].at \in {"assemble", "store", "receipt"} =>
             \/ /\ task[c].at \in {"assemble", "store", "receipt"}
                /\ task'[c].on = task[c].on
             \/ ReceiptCapacity(task'[c].on) /\ PublisherFits(task'[c].on)
  PROVE  SerialInv'
<1>1. ReceiptsWithinPolicy' /\ PublisherBytesWithinPolicy'
  BY DEF SerialInv, ReceiptsWithinPolicy, PublisherBytesWithinPolicy
<1>2. \A c \in Commits :
        task'[c].at \in {"mark", "admit", "assemble", "store", "receipt"}
          => task'[c].on \notin receipts'
  BY DEF SerialInv
<1>3. \A c \in Commits :
        task'[c].at \in {"assemble", "store", "receipt"}
          => ReceiptCapacity(task'[c].on) /\ PublisherFits(task'[c].on)
  BY DEF SerialInv
<1>4. \A c \in Commits :
        task'[c].at \in {"assemble", "store", "receipt"}
          => ReceiptCapacity(task[c].on)' /\ PublisherFits(task[c].on)'
  BY <1>3 DEF ReceiptCapacity, PublisherFits
<1> QED
  BY <1>1, <1>2, <1>4 DEF SerialInv

\* A task that ends leaves the lock to nobody.
LEMMA SerialFinish ==
  ASSUME TypeInv, SerialInv, receipts' = receipts,
         NEW c \in Commits, NEW owns, Finish(c, owns)
  PROVE  SerialInv'
<1>1. /\ \A d \in Commits : task'[d] = IF d = c THEN IdleTask ELSE task[d]
      /\ commitLock' = IF commitLock = c THEN NoCommit ELSE commitLock
  BY DEF Finish, TypeInv, TypeOK
<1>2. \A d \in Commits : task'[d].at # "idle" => d # c /\ commitLock' = d
  BY <1>1 DEF SerialInv, IdleTask
<1> QED
  BY <1>1, <1>2, SerialFrame DEF IdleTask

\* A task goes on to its next place.
LEMMA SerialGoto ==
  ASSUME TypeInv, SerialInv, receipts' = receipts, commitLock' = commitLock,
         NEW c \in Commits, NEW place, Goto(c, place), task[c].at # "idle",
         place \in {"mark", "admit", "assemble", "store", "receipt"} =>
           \/ task[c].at \in {"mark", "admit", "assemble", "store", "receipt"}
           \/ task[c].on \notin receipts,
         place \in {"assemble", "store", "receipt"} =>
           \/ task[c].at \in {"assemble", "store", "receipt"}
           \/ ReceiptCapacity(task[c].on) /\ PublisherFits(task[c].on)
  PROVE  SerialInv'
<1>1. /\ \A d \in Commits : d # c => task'[d] = task[d]
      /\ task'[c].at = place /\ task'[c].on = task[c].on
  BY DEF Goto, TypeInv, TypeOK
<1>2. \A d \in Commits : task'[d].at # "idle" => commitLock' = d
  BY <1>1 DEF SerialInv
<1> QED
  BY <1>1, <1>2, SerialFrame

\* One receipt more, for an upload that had none.
LEMMA ReceiptInsert ==
  ASSUME NEW R \in SUBSET Uploads, NEW u \in Uploads, u \notin R
  PROVE  /\ Cardinality(R) \in Nat /\ Cardinality(R \cup {u}) = Cardinality(R) + 1
         /\ Cardinality(OfPublisher(R, u)) \in Nat
         /\ Cardinality(OfPublisher(R \cup {u}, u))
              = Cardinality(OfPublisher(R, u)) + 1
         /\ ByteSum(Size, DigestsOf(OfPublisher(R, u))) \in Nat
         /\ ByteSum(Size, DigestsOf(OfPublisher(R \cup {u}, u)))
              = ByteSum(Size, DigestsOf(OfPublisher(R, u)))
                + (IF Intent[u].digest \in DigestsOf(OfPublisher(R, u)) THEN 0
                   ELSE Size[Intent[u].digest])
<1> DEFINE P == OfPublisher(R, u)
           D == DigestsOf(P)
           d == Intent[u].digest
<1>1. /\ IsFiniteSet(R) /\ IsFiniteSet(P) /\ u \notin P
      /\ OfPublisher(R \cup {u}, u) = P \cup {u}
  BY FiniteAssumption, FS_Subset DEF OfPublisher
<1>2. /\ Cardinality(R) \in Nat /\ Cardinality(R \cup {u}) = Cardinality(R) + 1
      /\ Cardinality(P) \in Nat /\ Cardinality(P \cup {u}) = Cardinality(P) + 1
  BY <1>1, FS_CardinalityType, FS_AddElement
<1>3. D \in SUBSET Digests
  BY IntentAssumption DEF DigestsOf, OfPublisher
<1>4. DigestsOf(P \cup {u}) = D \cup {d}
  BY DEF DigestsOf
<1>5. IsFiniteSet(D)
  BY <1>3, FiniteAssumption, FS_Subset
<1>6. ByteSum(Size, D) \in Nat
  BY <1>5, BytesFinite
<1>7. d \in Digests /\ Size[d] \in 1 .. MaxU64 /\ Size[d] \in Nat
  BY Lengths
<1>8. ByteSum(Size, D \cup {d})
        = ByteSum(Size, D) + (IF d \in D THEN 0 ELSE Size[d])
  <2> HIDE DEF D, d
  <2>1. CASE d \in D
    <3>1. D \cup {d} = D
      BY <2>1
    <3> QED
      BY <1>6, <2>1, <3>1
  <2>2. CASE d \notin D
    BY <1>5, <1>7, <2>2, ByteSumInsert
  <2> QED
    BY <2>1, <2>2
<1> QED
  BY <1>1, <1>2, <1>4, <1>6, <1>8

\* The receipt of the only task finds the room it was admitted with.
LEMMA SerialReceipt ==
  ASSUME TypeInv, BackedInv, SerialInv, NEW c \in Commits, WriteReceipt(c)
  PROVE  SerialInv'
<1> DEFINE u == task[c].on
<1>1. /\ u \in Uploads /\ u \notin receipts /\ receipts \in SUBSET Uploads
      /\ receipts' = receipts \cup {u} /\ commitLock' = commitLock
      /\ commitLock = c
      /\ ReceiptCapacity(u) /\ PublisherFits(u)
      /\ ReceiptsWithinPolicy /\ PublisherBytesWithinPolicy
      /\ Intent[u].bytes = Size[Intent[u].digest]
  BY DEF WriteReceipt, SerialInv, TypeInv, TypeOK, TaskInv, BackedInv, Verified
<1>2. \A d \in Commits : d # c => task[d].at = "idle"
  BY <1>1 DEF SerialInv
<1>3. /\ \A d \in Commits : d # c => task'[d].at = "idle"
      /\ task'[c].at = "unlink"
  BY <1>2, ReceiptTask
<1>4. /\ Policy["max_publications"] \in Nat
      /\ Policy["max_publications_per_publisher"] \in Nat
      /\ Policy["max_publisher_bytes"] \in Nat
  BY LimitTypes DEF Limits
<1>5. \A v \in receipts' :
        IF Intent[v].publisher = Intent[u].publisher
        THEN OfPublisher(receipts', v) = OfPublisher(receipts \cup {u}, u)
        ELSE v \in receipts /\ OfPublisher(receipts', v) = OfPublisher(receipts, v)
  BY <1>1 DEF OfPublisher
<1> HIDE DEF u
<1>6. ReceiptsWithinPolicy'
  <2>1. Cardinality(receipts') <= Policy["max_publications"]
    BY <1>1, <1>4, ReceiptInsert DEF ReceiptCapacity
  <2>2. Cardinality(OfPublisher(receipts \cup {u}, u))
          <= Policy["max_publications_per_publisher"]
    BY <1>1, <1>4, ReceiptInsert DEF ReceiptCapacity
  <2>3. \A v \in receipts' : Cardinality(OfPublisher(receipts', v))
                               <= Policy["max_publications_per_publisher"]
    BY <1>1, <1>5, <2>2 DEF ReceiptsWithinPolicy
  <2> QED
    BY <2>1, <2>3 DEF ReceiptsWithinPolicy, OfPublisher
<1>7. PublisherBytesWithinPolicy'
  <2>1. ByteSum(Size, DigestsOf(OfPublisher(receipts \cup {u}, u)))
          <= Policy["max_publisher_bytes"]
    BY <1>1, <1>4, ReceiptInsert DEF PublisherFits
  <2>2. \A v \in receipts' : ByteSum(Size, DigestsOf(OfPublisher(receipts', v)))
                               <= Policy["max_publisher_bytes"]
    BY <1>1, <1>5, <2>1 DEF PublisherBytesWithinPolicy
  <2> QED
    BY <2>2 DEF PublisherBytesWithinPolicy, OfPublisher, DigestsOf
<1> QED
  BY <1>1, <1>3, <1>6, <1>7 DEF SerialInv

\* Every step keeps it.
LEMMA SerialStep ==
  ASSUME ~Disconnects, TypeInv, BackedInv, SerialInv, [Next]_vars
  PROVE  SerialInv'
<1>1. ASSUME task' = task, UNCHANGED <<receipts, commitLock>> PROVE SerialInv'
  BY <1>1, SerialFrame DEF SerialInv
<1>2. CASE \/ \E u \in Uploads : BeginUpload(u) \/ GrowOld(u)
           \/ BeginStep \/ BeginIoFailure
           \/ \E u \in Uploads : \E i \in 1 .. ChunkCount(u), right \in Sent :
                StoreChunk(u, i, right)
           \/ UNCHANGED vars
  BY <1>1, <1>2 DEF BeginUpload, GrowOld, BeginStep, BeginIoFailure, StoreChunk,
                    PruneVisit, ScanVisit, PruneUnlink, PruneRemove, FindSession,
                    ReadRetained, CreateDirectory, RefuseReservation, WriteSession,
                    SessionUnwritten, vars, disk
<1>3. ASSUME NEW c \in Commits, NEW u \in Uploads, CommitUpload(c, u)
      PROVE  SerialInv'
  <2>1. /\ commitLock = NoCommit /\ commitLock' = c /\ receipts' = receipts
        /\ task'[c].at = "lookup"
        /\ \A d \in Commits : d # c => task'[d] = task[d]
    BY <1>3 DEF CommitUpload, IdleTask, disk, TypeInv, TypeOK
  <2>2. \A d \in Commits : task'[d].at # "idle" => d = c
    BY <2>1, NamesAssumption DEF SerialInv
  <2> QED
    BY <2>1, <2>2, SerialFrame
<1>4. ASSUME NEW c \in Commits, LookupReceipt(c) PROVE SerialInv'
  <2>1. CASE Finish(c, FALSE)
    BY <1>4, <2>1, SerialFinish DEF LookupReceipt
  <2>2. CASE ~Finish(c, FALSE)
    <3>1. /\ Goto(c, "mark") /\ task[c].at = "lookup" /\ task[c].on \notin receipts
          /\ UNCHANGED <<receipts, commitLock>>
      BY <1>4, <2>2 DEF LookupReceipt, Published
    <3> QED
      BY <3>1, SerialGoto
  <2> QED
    BY <2>1, <2>2
<1>5. ASSUME NEW c \in Commits, BeginCommitMarker(c) PROVE SerialInv'
  <2>1. CASE Finish(c, FALSE)
    BY <1>5, <2>1, SerialFinish DEF BeginCommitMarker
  <2>2. CASE ~Finish(c, FALSE)
    <3>1. /\ Goto(c, "admit") /\ task[c].at = "mark"
          /\ UNCHANGED <<receipts, commitLock>>
      BY <1>5, <2>2 DEF BeginCommitMarker
    <3> QED
      BY <3>1, SerialGoto
  <2> QED
    BY <2>1, <2>2
<1>6. ASSUME NEW c \in Commits, CheckQuota(c) PROVE SerialInv'
  <2>1. CASE Finish(c, TRUE)
    BY <1>6, <2>1, SerialFinish DEF CheckQuota
  <2>2. CASE ~Finish(c, TRUE)
    <3>1. /\ Goto(c, "assemble") /\ task[c].at = "admit"
          /\ ReceiptCapacity(task[c].on) /\ PublisherFits(task[c].on)
          /\ UNCHANGED <<receipts, commitLock>>
      BY <1>6, <2>2 DEF CheckQuota, QuotaAllows
    <3> QED
      BY <3>1, SerialGoto
  <2> QED
    BY <2>1, <2>2
<1>7. ASSUME NEW c \in Commits, Assemble(c) PROVE SerialInv'
  <2>1. CASE Finish(c, TRUE)
    BY <1>7, <2>1, SerialFinish DEF Assemble
  <2>2. CASE ~Finish(c, TRUE)
    <3>1. /\ Goto(c, "store") /\ task[c].at = "assemble"
          /\ UNCHANGED <<receipts, commitLock>>
      BY <1>7, <2>2 DEF Assemble
    <3> QED
      BY <3>1, SerialGoto
  <2> QED
    BY <2>1, <2>2
<1>8. ASSUME NEW c \in Commits, StoreObject(c) PROVE SerialInv'
  <2>1. CASE Finish(c, TRUE)
    BY <1>8, <2>1, SerialFinish DEF StoreObject
  <2>2. CASE ~Finish(c, TRUE)
    <3>1. /\ Goto(c, "receipt") /\ task[c].at = "store"
          /\ UNCHANGED <<receipts, commitLock>>
      BY <1>8, <2>2 DEF StoreObject
    <3> QED
      BY <3>1, SerialGoto
  <2> QED
    BY <2>1, <2>2
<1>9. ASSUME NEW c \in Commits, WriteReceipt(c) PROVE SerialInv'
  BY <1>9, SerialReceipt
<1>10. ASSUME NEW c \in Commits, NEW f \in task[c].left, UnlinkFile(c, f)
       PROVE  SerialInv'
  <2>1. /\ \A d \in Commits : task'[d].at = task[d].at /\ task'[d].on = task[d].on
        /\ UNCHANGED <<receipts, commitLock>>
    BY <1>10 DEF UnlinkFile, TypeInv, TypeOK
  <2> QED
    BY <2>1, SerialFrame DEF SerialInv
<1>11. ASSUME NEW c \in Commits, RemoveDirectory(c) \/ CommitIoFailure(c)
       PROVE  SerialInv'
  BY <1>11, SerialFinish DEF RemoveDirectory, CommitIoFailure
<1>12. ASSUME NEW c \in Commits, MarkerIoFailure(c) PROVE SerialInv'
  <2>1. /\ \A d \in Commits : task'[d] = IF d = c THEN IdleTask ELSE task[d]
        /\ commitLock' = IF commitLock = c THEN NoCommit ELSE commitLock
        /\ receipts' = receipts
    BY <1>12 DEF MarkerIoFailure, TypeInv, TypeOK
  <2>2. \A d \in Commits : task'[d].at # "idle" => d # c /\ commitLock' = d
    BY <2>1 DEF SerialInv, IdleTask
  <2> QED
    BY <2>1, <2>2, SerialFrame DEF IdleTask
<1>13. CASE Crash
  BY <1>13, SerialFrame DEF Crash, IdleTask, disk
<1>14. ASSUME NEW c \in Commits PROVE ~Disconnect(c)
  BY DEF Disconnect
<1> QED
  BY <1>2, <1>3, <1>4, <1>5, <1>6, <1>7, <1>8, <1>9, <1>10, <1>11, <1>12, <1>13,
     <1>14 DEF Next, CommitStep

\* An empty node keeps every limit.
LEMMA SerialInit == Init => SerialInv
<1> SUFFICES ASSUME Init PROVE SerialInv
  OBVIOUS
<1>1. receipts = {} /\ \A c \in Commits : task[c].at = "idle"
  BY DEF Init, IdleTask
<1>2. Cardinality({}) = 0
  BY FS_EmptySet
<1> QED
  BY <1>1, <1>2, LimitTypes DEF SerialInv, ReceiptsWithinPolicy,
     PublisherBytesWithinPolicy, Limits

\* The limits are kept in every state of a node whose clients wait for its answers.
LEMMA SerialAlways ==
  ASSUME ~Disconnects
  PROVE  Spec => []SerialInv
<1>1. NodeInv /\ SerialInv /\ [Next]_vars => SerialInv'
  BY SerialStep DEF NodeInv
<1> QED
  BY <1>1, SerialInit, NodeAlways, PTL DEF Spec

\* Where no request is dropped a receipt is never written over an earlier one.
THEOREM ReceiptWrittenOnceHolds ==
  ASSUME ~Disconnects
  PROVE  Spec => []ReceiptWrittenOnce
<1>1. SerialInv => ReceiptWrittenOnce
  BY DEF SerialInv, ReceiptWrittenOnce
<1> QED
  BY <1>1, SerialAlways, PTL

\* Nor do the receipts exceed their limits, however long ago they were counted.
THEOREM ReceiptsWithinPolicyHolds ==
  ASSUME ~Disconnects
  PROVE  Spec => []ReceiptsWithinPolicy
<1>1. SerialInv => ReceiptsWithinPolicy
  BY DEF SerialInv
<1> QED
  BY <1>1, SerialAlways, PTL

\* Nor does the content one publisher has receipts for.
THEOREM PublisherBytesWithinPolicyHolds ==
  ASSUME ~Disconnects
  PROVE  Spec => []PublisherBytesWithinPolicy
<1>1. SerialInv => PublisherBytesWithinPolicy
  BY DEF SerialInv
<1> QED
  BY <1>1, SerialAlways, PTL

(***************************************************************************)
(* However many commit requests are dropped                                *)
(***************************************************************************)

\* The tasks for uploads of V that have passed enforce_publisher_quota and may
\* still write a receipt.
InFlight(V) == {c \in Commits : /\ task[c].at \in {"assemble", "store", "receipt"}
                                /\ task[c].on \in V}

\* A limit L on the receipts for uploads of V leaves room for those of the tasks
\* in flight, but for all of them at once, less one.
Room(V, L) ==
  Cardinality(receipts \cap V) + Cardinality(InFlight(V)) <= L - 1 + Cardinality(Commits)

CountInv ==
  /\ Room(Uploads, Policy["max_publications"])
  /\ \A u \in Uploads :
       Room(OfPublisher(Uploads, u), Policy["max_publications_per_publisher"])

\* The same of the bytes of a publisher, where only content it has no receipt for
\* counts.
OwnDigests(u) == DigestsOf(OfPublisher(receipts, u))
Outstanding(u) == {c \in InFlight(OfPublisher(Uploads, u)) :
                     Intent[task[c].on].digest \notin OwnDigests(u)}
TaskBytes == [c \in Commits |-> Intent[task[c].on].bytes]
Overshoot == (Cardinality(Commits) - 1) * Policy["max_object_bytes"]

BytesInv ==
  \A u \in Uploads :
    ByteSum(Size, OwnDigests(u)) + ByteSum(TaskBytes, Outstanding(u))
      <= Policy["max_publisher_bytes"] + Overshoot

\* begin_upload lets no declared size above max_object_bytes in.
Fits(u) == Intent[u].bytes <= Policy["max_object_bytes"]
SizesInv ==
  /\ begin.at # "idle" => Fits(begin.on)
  /\ \A u \in OpenSessions : Fits(u)
  /\ \A c \in InFlight(Uploads) : Fits(task[c].on)

\* Limits that commit_lock would make exact.
ReceiptsNearPolicy ==
  LET more == Cardinality(Commits) - 1
  IN /\ Cardinality(receipts) <= Policy["max_publications"] + more
     /\ \A u \in receipts :
          /\ Cardinality(OfPublisher(receipts, u))
               <= Policy["max_publications_per_publisher"] + more
          /\ ByteSum(Size, DigestsOf(OfPublisher(receipts, u)))
               <= Policy["max_publisher_bytes"] + more * Policy["max_object_bytes"]

Flying == {"assemble", "store", "receipt"}

\* A task takes off at enforce_publisher_quota and keeps its upload.
LEMMA TakeOff ==
  ASSUME TypeInv, [Next]_vars, NEW d \in Commits, task'[d].at \in Flying
  PROVE  /\ task'[d].on = task[d].on
         /\ task[d].at \notin Flying =>
              /\ CheckQuota(d) /\ receipts' = receipts
              /\ HasSession(task[d].on) /\ QuotaAllows(task[d].on)
              /\ \A e \in Commits : e # d => task'[e] = task[e]
<1> USE DEF Flying
<1>1. ASSUME task' = task PROVE task'[d].on = task[d].on /\ task[d].at \in Flying
  BY <1>1
<1>2. ASSUME NEW c \in Commits, NEW owns, Finish(c, owns)
      PROVE  task'[d].on = task[d].on /\ task[d].at \in Flying
  BY <1>2 DEF Finish, IdleTask, TypeInv, TypeOK
<1>3. ASSUME NEW c \in Commits, NEW place, Goto(c, place)
      PROVE  /\ task'[d].on = task[d].on
             /\ task[d].at \in Flying \/ (c = d /\ place \in Flying)
             /\ \A e \in Commits : e # c => task'[e] = task[e]
  BY <1>3 DEF Goto, TypeInv, TypeOK
<1>4. CASE \/ \E u \in Uploads : BeginUpload(u) \/ GrowOld(u)
           \/ BeginStep \/ BeginIoFailure
           \/ \E u \in Uploads : \E i \in 1 .. ChunkCount(u), right \in Sent :
                StoreChunk(u, i, right)
           \/ \E c \in Commits : Disconnect(c)
           \/ UNCHANGED vars
  BY <1>1, <1>4 DEF BeginUpload, GrowOld, BeginStep, BeginIoFailure, StoreChunk,
                    PruneVisit, ScanVisit, PruneUnlink, PruneRemove, FindSession,
                    ReadRetained, CreateDirectory, RefuseReservation, WriteSession,
                    SessionUnwritten, Disconnect, vars, disk
<1>5. ASSUME NEW c \in Commits, NEW u \in Uploads, CommitUpload(c, u)
      PROVE  task'[d].on = task[d].on /\ task[d].at \in Flying
  BY <1>5 DEF CommitUpload, IdleTask, TypeInv, TypeOK
<1>6. ASSUME NEW c \in Commits, LookupReceipt(c)
      PROVE  task'[d].on = task[d].on /\ task[d].at \in Flying
  <2>1. CASE Finish(c, FALSE)
    BY <1>2, <2>1
  <2>2. CASE Goto(c, "mark")
    BY <1>3, <2>2
  <2> QED
    BY <1>6, <2>1, <2>2 DEF LookupReceipt
<1>7. ASSUME NEW c \in Commits, BeginCommitMarker(c)
      PROVE  task'[d].on = task[d].on /\ task[d].at \in Flying
  <2>1. CASE Finish(c, FALSE)
    BY <1>2, <2>1
  <2>2. CASE Goto(c, "admit")
    BY <1>3, <2>2
  <2> QED
    BY <1>7, <2>1, <2>2 DEF BeginCommitMarker
<1>8. ASSUME NEW c \in Commits, CheckQuota(c)
      PROVE  /\ task'[d].on = task[d].on
             /\ task[d].at \notin Flying =>
                  /\ CheckQuota(d) /\ receipts' = receipts
                  /\ HasSession(task[d].on) /\ QuotaAllows(task[d].on)
                  /\ \A e \in Commits : e # d => task'[e] = task[e]
  <2>1. CASE Finish(c, TRUE)
    BY <1>2, <2>1
  <2>2. CASE /\ Goto(c, "assemble") /\ HasSession(task[c].on)
             /\ QuotaAllows(task[c].on) /\ receipts' = receipts
    BY <1>3, <1>8, <2>2
  <2> QED
    BY <1>8, <2>1, <2>2 DEF CheckQuota
<1>9. ASSUME NEW c \in Commits, Assemble(c) \/ StoreObject(c)
      PROVE  task'[d].on = task[d].on /\ task[d].at \in Flying
  <2>1. task[c].at \in Flying
    BY <1>9 DEF Assemble, StoreObject
  <2>2. CASE Finish(c, TRUE)
    BY <1>2, <2>2
  <2>3. CASE Goto(c, "store") \/ Goto(c, "receipt")
    BY <1>3, <2>1, <2>3
  <2> QED
    BY <1>9, <2>2, <2>3 DEF Assemble, StoreObject
<1>10. ASSUME NEW c \in Commits, WriteReceipt(c)
       PROVE  task'[d].on = task[d].on /\ task[d].at \in Flying
  BY <1>10, ReceiptTask
<1>11. ASSUME NEW c \in Commits, NEW f \in task[c].left, UnlinkFile(c, f)
       PROVE  task'[d].on = task[d].on /\ task[d].at \in Flying
  BY <1>11 DEF UnlinkFile, TypeInv, TypeOK
<1>12. ASSUME NEW c \in Commits, RemoveDirectory(c) \/ CommitIoFailure(c)
       PROVE  task'[d].on = task[d].on /\ task[d].at \in Flying
  BY <1>2, <1>12 DEF RemoveDirectory, CommitIoFailure
<1>13. ASSUME NEW c \in Commits, MarkerIoFailure(c)
       PROVE  task'[d].on = task[d].on /\ task[d].at \in Flying
  BY <1>13 DEF MarkerIoFailure, IdleTask, TypeInv, TypeOK
<1>14. CASE Crash
  BY <1>14 DEF Crash, IdleTask
<1> QED
  BY <1>4, <1>5, <1>6, <1>7, <1>8, <1>9, <1>10, <1>11, <1>12, <1>13, <1>14
     DEF Next, CommitStep

\* A step that writes no receipt brings at most one task into flight.
LEMMA FlightStep ==
  ASSUME TypeInv, [Next]_vars, NEW V
  PROVE  \/ \A c \in InFlight(V)' : c \in InFlight(V) /\ task'[c].on = task[c].on
         \/ \E c \in Commits :
              /\ task[c].on \in V /\ task[c].at \notin Flying
              /\ receipts' = receipts
              /\ HasSession(task[c].on) /\ QuotaAllows(task[c].on)
              /\ InFlight(V)' = InFlight(V) \cup {c}
              /\ \A d \in InFlight(V)' : task'[d].on = task[d].on
<1>1. \A c \in InFlight(V)' : /\ c \in Commits /\ task'[c].at \in Flying
                              /\ task'[c].on \in V
  BY DEF InFlight, Flying
<1>2. ASSUME NEW c \in InFlight(V)', task[c].at \notin Flying
      PROVE  \E e \in Commits :
               /\ task[e].on \in V /\ task[e].at \notin Flying
               /\ receipts' = receipts
               /\ HasSession(task[e].on) /\ QuotaAllows(task[e].on)
               /\ InFlight(V)' = InFlight(V) \cup {e}
               /\ \A d \in InFlight(V)' : task'[d].on = task[d].on
  <2>1. /\ task'[c].on = task[c].on /\ receipts' = receipts /\ c \in Commits
        /\ HasSession(task[c].on) /\ QuotaAllows(task[c].on)
        /\ \A e \in Commits : e # c => task'[e] = task[e]
    BY <1>1, <1>2, TakeOff
  <2>2. InFlight(V)' = InFlight(V) \cup {c}
    BY <1>1, <1>2, <2>1 DEF InFlight, Flying
  <2>3. \A d \in InFlight(V)' : task'[d].on = task[d].on
    BY <1>1, <2>1
  <2> QED
    BY <1>1, <1>2, <2>1, <2>2, <2>3
<1>3. CASE \A c \in InFlight(V)' : task[c].at \in Flying
  <2>1. \A c \in InFlight(V)' : task'[c].on = task[c].on
    BY <1>1, TakeOff
  <2> QED
    BY <1>1, <1>3, <2>1 DEF InFlight, Flying
<1> QED
  BY <1>2, <1>3

\* There is no more in flight than there are tasks.
LEMMA FlightFinite ==
  ASSUME IsFiniteSet(Commits), NEW V
  PROVE  /\ IsFiniteSet(InFlight(V)) /\ IsFiniteSet(InFlight(V)')
         /\ Cardinality(InFlight(V)) \in Nat /\ Cardinality(InFlight(V)') \in Nat
         /\ Cardinality(Commits) \in Nat
         /\ Cardinality(InFlight(V)') <= Cardinality(Commits)
<1>1. InFlight(V) \in SUBSET Commits /\ InFlight(V)' \in SUBSET Commits
  BY DEF InFlight
<1> QED
  BY <1>1, FS_Subset, FS_CardinalityType

\* One element adds at most one.
LEMMA OneMore ==
  ASSUME NEW S, IsFiniteSet(S), NEW x
  PROVE  /\ Cardinality(S \cup {x}) \in Nat
         /\ Cardinality(S \cup {x}) <= Cardinality(S) + 1
<1>1. Cardinality(S) \in Nat
  BY FS_CardinalityType
<1>2. CASE x \in S
  <2>1. S \cup {x} = S
    BY <1>2
  <2> QED
    BY <1>1, <2>1
<1>3. CASE x \notin S
  BY <1>1, <1>3, FS_AddElement
<1> QED
  BY <1>2, <1>3

\* Whoever is admitted below the limit leaves room for all the others.
LEMMA RoomStep ==
  ASSUME TypeInv, [Next]_vars, IsFiniteSet(Commits), NEW V \in SUBSET Uploads,
         NEW L \in Nat, Room(V, L),
         \A u \in V : QuotaAllows(u) => Cardinality(receipts \cap V) < L
  PROVE  Room(V, L)'
<1> DEFINE R == receipts \cap V
           F == InFlight(V)
           n == Cardinality(Commits)
<1>1. /\ IsFiniteSet(R) /\ Cardinality(R) \in Nat
      /\ IsFiniteSet(F) /\ Cardinality(F) \in Nat /\ Cardinality(F') \in Nat
      /\ n \in Nat /\ Cardinality(F') <= n
      /\ Cardinality(R) + Cardinality(F) <= L - 1 + n
  <2>1. IsFiniteSet(R)
    BY FiniteAssumption, FS_Subset
  <2> QED
    BY <2>1, FlightFinite, FS_CardinalityType DEF Room
<1>2. ASSUME receipts' = receipts, F' \subseteq F PROVE Room(V, L)'
  <2>1. Cardinality(F') <= Cardinality(F)
    BY <1>1, <1>2, FS_Subset
  <2> QED
    BY <1>1, <1>2, <2>1 DEF Room
<1>3. ASSUME NEW c \in Commits, WriteReceipt(c) PROVE Room(V, L)'
  <2>1. /\ receipts' = receipts \cup {task[c].on} /\ task[c].at = "receipt"
        /\ \A d \in Commits : d # c => task'[d] = task[d]
        /\ task'[c].at = "unlink"
    BY <1>3, ReceiptTask DEF WriteReceipt
  <2>2. F' = F \ {c}
    BY <2>1 DEF InFlight
  <2>3. CASE task[c].on \in V
    <3>1. c \in F
      BY <2>1, <2>3 DEF InFlight
    <3>2. Cardinality(F') = Cardinality(F) - 1
      BY <1>1, <2>2, <3>1, FS_RemoveElement
    <3>3. R' = R \cup {task[c].on}
      BY <2>1, <2>3
    <3>4. Cardinality(R') \in Nat /\ Cardinality(R') <= Cardinality(R) + 1
      BY <1>1, <3>3, OneMore
    <3> QED
      BY <1>1, <3>2, <3>4 DEF Room
  <2>4. CASE task[c].on \notin V
    <3>1. R' = R /\ F' = F
      BY <2>1, <2>2, <2>4 DEF InFlight
    <3> QED
      BY <1>1, <3>1 DEF Room
  <2> QED
    BY <2>3, <2>4
<1>4. CASE \A c \in Commits : ~WriteReceipt(c)
  <2>1. receipts' = receipts
    BY <1>4, OtherReceipts
  <2>2. CASE F' \subseteq F
    BY <1>2, <2>1, <2>2
  <2>3. ASSUME NEW c \in Commits, task[c].on \in V, QuotaAllows(task[c].on)
        PROVE  Room(V, L)'
    <3>1. Cardinality(R) < L
      BY <2>3
    <3> QED
      BY <1>1, <2>1, <3>1 DEF Room
  <2> QED
    BY <2>2, <2>3, FlightStep
<1> QED
  BY <1>3, <1>4

\* The uploads of u's publisher are those of anyone who shares it.
LEMMA SamePublisher ==
  ASSUME TypeInv, NEW u \in Uploads, NEW v \in OfPublisher(Uploads, u)
  PROVE  /\ v \in Uploads
         /\ OfPublisher(receipts, v) = receipts \cap OfPublisher(Uploads, u)
         /\ OfPublisher(receipts, v) = OfPublisher(receipts, u)
  BY DEF OfPublisher, TypeInv, TypeOK

\* Every step keeps the room of both limits.
LEMMA CountStep ==
  ASSUME TypeInv, [Next]_vars, IsFiniteSet(Commits), CountInv
  PROVE  CountInv'
<1>1. /\ Policy["max_publications"] \in Nat
      /\ Policy["max_publications_per_publisher"] \in Nat
  BY LimitTypes DEF Limits
<1>2. Room(Uploads, Policy["max_publications"])'
  <2>1. receipts \cap Uploads = receipts
    BY DEF TypeInv, TypeOK
  <2>2. \A u \in Uploads : QuotaAllows(u)
          => Cardinality(receipts \cap Uploads) < Policy["max_publications"]
    BY <2>1 DEF QuotaAllows, ReceiptCapacity
  <2>3. Room(Uploads, Policy["max_publications"])
    BY DEF CountInv
  <2> QED
    BY <1>1, <2>2, <2>3, RoomStep
<1>3. ASSUME NEW u \in Uploads
      PROVE  Room(OfPublisher(Uploads, u), Policy["max_publications_per_publisher"])'
  <2> DEFINE V == OfPublisher(Uploads, u)
             L == Policy["max_publications_per_publisher"]
  <2>1. V \in SUBSET Uploads
    BY DEF OfPublisher
  <2>2. \A v \in V : QuotaAllows(v) => Cardinality(receipts \cap V) < L
    BY SamePublisher DEF QuotaAllows, ReceiptCapacity
  <2>3. Room(V, L) /\ L \in Nat
    BY <1>1 DEF CountInv
  <2>4. Room(V, L)'
    <3> HIDE DEF V, L
    <3> QED
      BY <2>1, <2>2, <2>3, RoomStep
  <2> QED
    BY <2>4
<1> QED
  BY <1>2, <1>3 DEF CountInv

\* Lengths that no content exceeds bound their sum.
LEMMA ByteSumBound ==
  ASSUME NEW T, IsFiniteSet(T), NEW S \in SUBSET T, NEW f, NEW m \in Nat,
         \A x \in S : f[x] \in Nat /\ f[x] <= m
  PROVE  ByteSum(f, S) \in Nat /\ ByteSum(f, S) <= Cardinality(T) * m
<1>1. IsFiniteSet(S)
  BY FS_Subset
<1>2. IsFiniteSet(1 .. m) /\ Cardinality(1 .. m) = m
  BY FS_Interval
<1>3. /\ IsFiniteSet(T \X (1 .. m))
      /\ Cardinality(T \X (1 .. m)) = Cardinality(T) * Cardinality(1 .. m)
  BY <1>2, FS_Product
<1>4. Bytes(f, S) \in SUBSET (T \X (1 .. m))
  BY SizesAssumption DEF Bytes
<1>5. Cardinality(Bytes(f, S)) <= Cardinality(T \X (1 .. m))
  BY <1>3, <1>4, FS_Subset
<1> QED
  BY <1>1, <1>2, <1>3, <1>5, BytesFinite

\* Without one element the sum is that much less.
LEMMA ByteSumRemove ==
  ASSUME NEW S, IsFiniteSet(S), NEW x \in S, NEW f, f[x] \in 1 .. MaxU64
  PROVE  ByteSum(f, S) = ByteSum(f, S \ {x}) + f[x]
<1> DEFINE R == S \ {x}
<1>1. IsFiniteSet(R) /\ x \notin R /\ S = R \cup {x}
  BY FS_Subset
<1> HIDE DEF R
<1>2. ByteSum(f, R \cup {x}) = ByteSum(f, R) + f[x]
  BY <1>1, ByteSumInsert
<1> QED
  BY <1>1, <1>2 DEF R

\* Where the lengths agree the sums do.
LEMMA ByteSumAgrees ==
  ASSUME NEW S, NEW f, NEW g, \A x \in S : f[x] = g[x]
  PROVE  ByteSum(f, S) = ByteSum(g, S)
<1>1. \A b \in S \X (1 .. MaxU64) : b[2] <= f[b[1]] <=> b[2] <= g[b[1]]
  BY DEF ByteSum
<1> QED
  BY <1>1 DEF ByteSum

\* Which upload a begin_upload works on.
LEMMA BeginKeeps ==
  ASSUME TypeInv, [Next]_vars
  PROVE  \/ begin'.at = "idle"
         \/ begin.at # "idle" /\ begin'.on = begin.on
         \/ \E u \in Uploads : begin'.on = u /\ Fits(u)
<1> USE DEF IdleBegin
<1>1. ASSUME NEW u \in Uploads, BeginUpload(u)
      PROVE  begin'.on = u /\ Fits(u)
  BY <1>1 DEF BeginUpload, Fits
<1>2. ASSUME NEW u \in Uploads, PruneVisit(u) \/ ScanVisit(u)
      PROVE  begin'.at = "idle" \/ (begin.at # "idle" /\ begin'.on = begin.on)
  <2>1. CASE PruneVisit(u)
    <3>1. /\ begin.at = "prune"
          /\ \/ begin' = [begin EXCEPT !.at = "unlink", !.todo = @ \ {u},
                                       !.victim = u, !.doomed = files[u]]
             \/ begin' = [begin EXCEPT !.todo = @ \ {u}]
      BY <2>1 DEF PruneVisit
    <3> QED
      BY <3>1 DEF TypeInv, TypeOK
  <2>2. CASE ScanVisit(u)
    <3>1. /\ begin.at = "scan"
          /\ \/ begin' = [begin EXCEPT !.todo = @ \ {u}, !.counted = @ \cup {u}]
             \/ begin' = [begin EXCEPT !.todo = @ \ {u}]
             \/ begin' = IdleBegin
      BY <2>2 DEF ScanVisit
    <3>2. CASE begin' = IdleBegin
      BY <3>2
    <3>3. CASE begin' = [begin EXCEPT !.todo = @ \ {u}, !.counted = @ \cup {u}]
      BY <3>1, <3>3 DEF TypeInv, TypeOK
    <3>4. CASE begin' = [begin EXCEPT !.todo = @ \ {u}]
      BY <3>1, <3>4 DEF TypeInv, TypeOK
    <3> QED
      BY <3>1, <3>2, <3>3, <3>4
  <2> QED
    BY <1>2, <2>1, <2>2
<1>3. ASSUME NEW f \in begin.doomed, PruneUnlink(f)
      PROVE  begin.at # "idle" /\ begin'.on = begin.on
  BY <1>3 DEF PruneUnlink, TypeInv, TypeOK
<1>4. ASSUME PruneRemove \/ FindSession \/ ReadRetained \/ CreateDirectory
      PROVE  begin'.at = "idle" \/ (begin.at # "idle" /\ begin'.on = begin.on)
  <2>1. CASE PruneRemove
    BY <2>1 DEF PruneRemove, TypeInv, TypeOK
  <2>2. CASE FindSession
    BY <2>2 DEF FindSession, TypeInv, TypeOK
  <2>3. CASE ReadRetained
    BY <2>3 DEF ReadRetained, TypeInv, TypeOK
  <2>4. CASE CreateDirectory
    BY <2>4 DEF CreateDirectory, TypeInv, TypeOK
  <2> QED
    BY <1>4, <2>1, <2>2, <2>3, <2>4
<1>5. CASE RefuseReservation \/ WriteSession \/ SessionUnwritten \/ BeginIoFailure
  BY <1>5 DEF RefuseReservation, WriteSession, SessionUnwritten, BeginIoFailure
<1>6. CASE UNCHANGED begin
  BY <1>6
<1>7. ASSUME NEW c \in Commits, CommitStep(c) PROVE UNCHANGED begin
  BY <1>7 DEF CommitStep, LookupReceipt, BeginCommitMarker, CheckQuota, Assemble,
              StoreObject, WriteReceipt, RemoveDirectory, UnlinkFile
<1>8. ASSUME NEW c \in Commits, Disconnect(c) \/ CommitIoFailure(c) \/ MarkerIoFailure(c)
      PROVE UNCHANGED begin
  BY <1>8 DEF Disconnect, CommitIoFailure, MarkerIoFailure
<1>9. CASE Crash
  BY <1>9 DEF Crash
<1>10. ASSUME NEW u \in Uploads, GrowOld(u) PROVE UNCHANGED begin
  BY <1>10 DEF GrowOld
<1>11. ASSUME NEW u \in Uploads, NEW i, NEW right, StoreChunk(u, i, right)
       PROVE  UNCHANGED begin
  BY <1>11 DEF StoreChunk
<1>12. ASSUME NEW c \in Commits, NEW u \in Uploads, CommitUpload(c, u)
       PROVE  UNCHANGED begin
  BY <1>12 DEF CommitUpload
<1>13. CASE UNCHANGED vars
  BY <1>13 DEF vars
<1> QED
  BY <1>1, <1>2, <1>3, <1>4, <1>5, <1>6, <1>7, <1>8, <1>9, <1>10, <1>11, <1>12, <1>13
     DEF Next, BeginStep

\* No declared size above max_object_bytes gets in.
LEMMA SizesStep ==
  ASSUME TypeInv, OwnerInv, [Next]_vars, SizesInv
  PROVE  SizesInv'
<1>1. begin'.at # "idle" => Fits(begin'.on)
  BY BeginKeeps DEF SizesInv
<1>2. \A u \in OpenSessions' : Fits(u)
  <2>1. CASE WriteSession
    <3>1. begin.at # "idle" /\ begin.on \in Uploads
      BY <2>1 DEF WriteSession, TypeInv, BeginInv
    <3>2. OpenSessions' = OpenSessions \cup {begin.on}
      BY <2>1, <3>1, SetSession DEF WriteSession
    <3> QED
      BY <3>1, <3>2 DEF SizesInv
  <2>2. CASE \E u \in Uploads : Closes(u)
    BY <2>2 DEF Closes, SizesInv
  <2> QED
    BY <2>1, <2>2, SessionsStep DEF SizesInv
<1>3. \A c \in InFlight(Uploads)' : Fits(task'[c].on)
  <2>1. CASE \A c \in InFlight(Uploads)' : /\ c \in InFlight(Uploads)
                                           /\ task'[c].on = task[c].on
    BY <2>1 DEF SizesInv
  <2>2. ASSUME NEW c \in Commits, task[c].on \in Uploads, HasSession(task[c].on),
               InFlight(Uploads)' = InFlight(Uploads) \cup {c},
               \A d \in InFlight(Uploads)' : task'[d].on = task[d].on
        PROVE  \A d \in InFlight(Uploads)' : Fits(task'[d].on)
    <3>1. Fits(task[c].on)
      BY <2>2 DEF SizesInv, OpenSessions
    <3> QED
      BY <2>2, <3>1 DEF SizesInv
  <2> QED
    BY <2>1, <2>2, FlightStep
<1> QED
  BY <1>1, <1>2, <1>3 DEF SizesInv, Fits

\* The sums of BytesInv are numbers, and those of the tasks are of lengths.
LEMMA ByteTypes ==
  ASSUME IsFiniteSet(Commits), TypeInv, NEW u \in Uploads
  PROVE  /\ OwnDigests(u) \in SUBSET Digests /\ IsFiniteSet(OwnDigests(u))
         /\ ByteSum(Size, OwnDigests(u)) \in Nat
         /\ Outstanding(u) \in SUBSET Commits /\ IsFiniteSet(Outstanding(u))
         /\ ByteSum(TaskBytes, Outstanding(u)) \in Nat
         /\ \A c \in Outstanding(u) :
              /\ c \in InFlight(Uploads) /\ task[c].on \in Uploads
              /\ TaskBytes[c] = Intent[task[c].on].bytes
              /\ TaskBytes[c] \in 1 .. MaxU64 /\ TaskBytes[c] \in Nat
         /\ Policy["max_publisher_bytes"] \in Nat /\ Policy["max_object_bytes"] \in Nat
         /\ Overshoot \in Int
<1>1. OwnDigests(u) \in SUBSET Digests
  BY IntentAssumption DEF OwnDigests, DigestsOf, OfPublisher, TypeInv, TypeOK
<1>2. Outstanding(u) \in SUBSET Commits
  BY DEF Outstanding, InFlight
<1>3. IsFiniteSet(OwnDigests(u)) /\ IsFiniteSet(Outstanding(u))
  BY <1>1, <1>2, FiniteAssumption, FS_Subset
<1>4. /\ ByteSum(Size, OwnDigests(u)) \in Nat
      /\ ByteSum(TaskBytes, Outstanding(u)) \in Nat
  BY <1>3, BytesFinite
<1>5. ASSUME NEW c \in Outstanding(u)
      PROVE  /\ c \in InFlight(Uploads) /\ task[c].on \in Uploads
             /\ TaskBytes[c] = Intent[task[c].on].bytes
             /\ TaskBytes[c] \in 1 .. MaxU64 /\ TaskBytes[c] \in Nat
  <2>1. c \in Commits /\ c \in InFlight(Uploads) /\ task[c].on \in Uploads
    BY DEF Outstanding, InFlight, OfPublisher
  <2>2. TaskBytes[c] = Intent[task[c].on].bytes
    BY <2>1 DEF TaskBytes
  <2> QED
    BY <2>1, <2>2, Lengths
<1>6. /\ Policy["max_publisher_bytes"] \in Nat /\ Policy["max_object_bytes"] \in Nat
      /\ Cardinality(Commits) \in Nat
  BY LimitTypes, FS_CardinalityType DEF Limits
<1>7. Overshoot \in Int
  BY <1>6 DEF Overshoot
<1> QED
  BY <1>1, <1>2, <1>3, <1>4, <1>5, <1>6, <1>7

\* A receipt moves the length of its content from one sum to the other.
LEMMA BytesReceipt ==
  ASSUME IsFiniteSet(Commits), TypeInv, TypeInv', BackedInv, BytesInv,
         NEW c \in Commits, WriteReceipt(c), NEW u \in Uploads
  PROVE  ByteSum(Size, OwnDigests(u)') + ByteSum(TaskBytes', Outstanding(u)')
           <= Policy["max_publisher_bytes"] + Overshoot
<1> DEFINE on == task[c].on
           d == Intent[on].digest
           Own == OwnDigests(u)
           Out == Outstanding(u)
<1>1. /\ on \in Uploads /\ receipts' = receipts \cup {on} /\ task[c].at = "receipt"
      /\ \A e \in Commits : e # c => task'[e] = task[e]
      /\ task'[c].at = "unlink"
      /\ Intent[on].bytes = Size[d] /\ receipts \in SUBSET Uploads
  <2>1. /\ \A e \in Commits : e # c => task'[e] = task[e]
        /\ task'[c].at = "unlink"
    BY ReceiptTask
  <2>2. receipts' = receipts \cup {on} /\ task[c].at = "receipt"
    BY DEF WriteReceipt
  <2> QED
    BY <2>1, <2>2 DEF BackedInv, Verified, TypeInv, TypeOK, TaskInv
<1>2. /\ Out' \in SUBSET (Out \ {c})
      /\ \A e \in Out' : TaskBytes'[e] = TaskBytes[e]
  BY <1>1 DEF Outstanding, InFlight, OwnDigests, DigestsOf, OfPublisher, TaskBytes
<1>3. /\ ByteSum(Size, Own) + ByteSum(TaskBytes, Out)
           <= Policy["max_publisher_bytes"] + Overshoot
      /\ Own \in SUBSET Digests /\ IsFiniteSet(Own) /\ IsFiniteSet(Out)
      /\ ByteSum(Size, Own) \in Nat /\ ByteSum(TaskBytes, Out) \in Nat
      /\ Policy["max_publisher_bytes"] \in Nat /\ Overshoot \in Int
  BY ByteTypes DEF BytesInv
<1>4. ByteSum(TaskBytes', Out') = ByteSum(TaskBytes, Out')
  BY <1>2, ByteSumAgrees
<1>5. IsFiniteSet(Out \ {c})
  BY <1>3, FS_Subset
<1>6. /\ ByteSum(TaskBytes, Out') \in Nat /\ ByteSum(TaskBytes, Out \ {c}) \in Nat
      /\ ByteSum(TaskBytes, Out') <= ByteSum(TaskBytes, Out \ {c})
  BY <1>2, <1>5, ByteSumMonotone
<1>7. ByteSum(TaskBytes, Out \ {c}) <= ByteSum(TaskBytes, Out)
  <2>1. (Out \ {c}) \in SUBSET Out
    OBVIOUS
  <2> QED
    BY <1>3, <2>1, ByteSumMonotone
<1>8. CASE Own' = Own
  BY <1>3, <1>4, <1>6, <1>7, <1>8
<1>9. CASE Own' # Own
  <2>1. on \in OfPublisher(Uploads, u) /\ d \notin Own /\ Own' = Own \cup {d}
    BY <1>1, <1>9 DEF OwnDigests, DigestsOf, OfPublisher
  <2>2. c \in Out
    BY <1>1, <2>1 DEF Outstanding, InFlight
  <2>3. /\ TaskBytes[c] = Size[d] /\ TaskBytes[c] \in 1 .. MaxU64 /\ TaskBytes[c] \in Nat
    BY <1>1, <2>2, ByteTypes
  <2>4. ByteSum(Size, Own') = ByteSum(Size, Own) + Size[d]
    <3>1. Size[d] \in 1 .. MaxU64
      BY <2>3
    <3> QED
      BY <1>3, <2>1, <3>1, ByteSumInsert
  <2>5. ByteSum(TaskBytes, Out) = ByteSum(TaskBytes, Out \ {c}) + TaskBytes[c]
    <3> HIDE DEF Out
    <3> QED
      BY <1>3, <2>2, <2>3, ByteSumRemove
  <2> QED
    BY <1>3, <1>4, <1>6, <2>3, <2>4, <2>5
<1> QED
  BY <1>8, <1>9

\* A task that takes off found the room for its own content, and the others bring
\* at most max_object_bytes each.
LEMMA BytesTakeOff ==
  ASSUME IsFiniteSet(Commits), TypeInv, TypeInv', SizesInv', receipts' = receipts,
         NEW u \in Uploads, NEW c \in Commits, PublisherFits(task[c].on),
         task[c].on \in OfPublisher(Uploads, u), task'[c].on = task[c].on
  PROVE  ByteSum(Size, OwnDigests(u)') + ByteSum(TaskBytes', Outstanding(u)')
           <= Policy["max_publisher_bytes"] + Overshoot
<1> DEFINE on == task[c].on
           d == Intent[on].digest
           Own == OwnDigests(u)
           Out == Outstanding(u)'
           f == TaskBytes'
           M == Policy["max_object_bytes"]
<1>1. Own' = Own /\ on \in Uploads
  BY DEF OwnDigests, OfPublisher, DigestsOf
<1>2. ByteSum(Size, Own) + (IF d \in Own THEN 0 ELSE Intent[on].bytes)
        <= Policy["max_publisher_bytes"]
  <2>1. DigestsOf(OfPublisher(receipts, on)) = Own
    BY SamePublisher DEF OwnDigests
  <2> QED
    BY <2>1 DEF PublisherFits
<1>3. /\ ByteSum(Size, Own) \in Nat
      /\ Policy["max_publisher_bytes"] \in Nat /\ M \in Nat
      /\ Overshoot \in Int /\ Intent[on].bytes \in Nat
  BY <1>1, ByteTypes, Lengths
<1>4. /\ ByteSum(Size, Own) <= Policy["max_publisher_bytes"]
      /\ d \notin Own => ByteSum(Size, Own) + Intent[on].bytes
                           <= Policy["max_publisher_bytes"]
  <2>1. CASE d \in Own
    BY <1>2, <1>3, <2>1
  <2>2. CASE d \notin Own
    BY <1>2, <1>3, <2>2
  <2> QED
    BY <2>1, <2>2
<1>5. /\ Out \in SUBSET Commits /\ IsFiniteSet(Out)
      /\ \A e \in Out : /\ f[e] \in 1 .. MaxU64 /\ f[e] \in Nat
                        /\ f[e] = Intent[task'[e].on].bytes
                        /\ e \in InFlight(Uploads)'
  <2>1. Out \in SUBSET Commits
    BY DEF Outstanding, InFlight
  <2>2. IsFiniteSet(Out)
    BY <2>1, FS_Subset
  <2>3. ASSUME NEW e \in Out
        PROVE  /\ task'[e].on \in Uploads /\ f[e] = Intent[task'[e].on].bytes
               /\ e \in InFlight(Uploads)'
    BY DEF Outstanding, InFlight, OfPublisher, TaskBytes
  <2> QED
    BY <2>1, <2>2, <2>3, Lengths
<1>6. \A e \in Out : f[e] <= M
  BY <1>5 DEF SizesInv, Fits
<1>7. /\ IsFiniteSet(Commits \ {c})
      /\ Cardinality(Commits \ {c}) = Cardinality(Commits) - 1
      /\ (Out \ {c}) \in SUBSET (Commits \ {c})
  BY <1>5, FS_RemoveElement
<1>8. /\ ByteSum(f, Out \ {c}) \in Nat
      /\ ByteSum(f, Out \ {c}) <= Overshoot
  <2>1. \A e \in Out \ {c} : f[e] \in Nat /\ f[e] <= M
    BY <1>5, <1>6
  <2>2. /\ ByteSum(f, Out \ {c}) \in Nat
        /\ ByteSum(f, Out \ {c}) <= Cardinality(Commits \ {c}) * M
    <3> HIDE DEF f, M, Out
    <3> QED
      BY <1>3, <1>7, <2>1, ByteSumBound
  <2> QED
    BY <1>7, <2>2 DEF Overshoot
<1>9. CASE c \notin Out
  <2>1. Out \ {c} = Out
    BY <1>9
  <2>2. ByteSum(f, Out) \in Nat /\ ByteSum(f, Out) <= Overshoot
    <3> HIDE DEF Out, f
    <3> QED
      BY <1>8, <2>1
  <2> QED
    BY <1>1, <1>3, <1>4, <2>2
<1>10. CASE c \in Out
  <2>1. d \notin Own
    BY <1>1, <1>10 DEF Outstanding
  <2>2. f[c] = Intent[on].bytes /\ f[c] \in 1 .. MaxU64
    BY <1>5, <1>10
  <2>3. ByteSum(f, Out) = ByteSum(f, Out \ {c}) + f[c]
    <3> HIDE DEF Out, f
    <3> QED
      BY <1>5, <1>10, <2>2, ByteSumRemove
  <2>4. f[c] \in Nat
    BY <1>3, <2>2
  <2> QED
    BY <1>1, <1>3, <1>4, <1>8, <2>1, <2>2, <2>3, <2>4
<1> QED
  BY <1>9, <1>10

\* Tasks that go on as before, or leave, bring no byte.
LEMMA BytesFewer ==
  ASSUME IsFiniteSet(Commits), TypeInv, BytesInv, receipts' = receipts,
         NEW u \in Uploads,
         \A c \in InFlight(OfPublisher(Uploads, u))' :
           /\ c \in InFlight(OfPublisher(Uploads, u))
           /\ task'[c].on = task[c].on
  PROVE  ByteSum(Size, OwnDigests(u)') + ByteSum(TaskBytes', Outstanding(u)')
           <= Policy["max_publisher_bytes"] + Overshoot
<1> DEFINE Out == Outstanding(u)
<1>1. OwnDigests(u)' = OwnDigests(u)
  BY DEF OwnDigests, OfPublisher, DigestsOf
<1>2. /\ Out' \in SUBSET Out
      /\ \A c \in Out' : TaskBytes'[c] = TaskBytes[c]
  BY <1>1 DEF Outstanding, InFlight, OwnDigests, DigestsOf, OfPublisher, TaskBytes
<1>3. ByteSum(TaskBytes', Out') = ByteSum(TaskBytes, Out')
  BY <1>2, ByteSumAgrees
<1>4. /\ ByteSum(TaskBytes, Out') \in Nat
      /\ ByteSum(TaskBytes, Out') <= ByteSum(TaskBytes, Out)
  BY <1>2, ByteTypes, ByteSumMonotone
<1> QED
  BY <1>1, <1>3, <1>4, ByteTypes DEF BytesInv

\* Every step keeps a publisher's bytes within what is left to the others.
LEMMA BytesStep ==
  ASSUME IsFiniteSet(Commits), TypeInv, TypeInv', BackedInv, SizesInv', BytesInv,
         [Next]_vars
  PROVE  BytesInv'
<1> SUFFICES ASSUME NEW u \in Uploads
             PROVE  ByteSum(Size, OwnDigests(u)') + ByteSum(TaskBytes', Outstanding(u)')
                      <= Policy["max_publisher_bytes"] + Overshoot
  BY DEF BytesInv
<1>1. ASSUME NEW c \in Commits, WriteReceipt(c)
      PROVE  ByteSum(Size, OwnDigests(u)') + ByteSum(TaskBytes', Outstanding(u)')
               <= Policy["max_publisher_bytes"] + Overshoot
  BY <1>1, BytesReceipt
<1>2. CASE \A c \in Commits : ~WriteReceipt(c)
  <2> DEFINE V == OfPublisher(Uploads, u)
  <2>1. receipts' = receipts
    BY <1>2, OtherReceipts
  <2>2. CASE \A c \in InFlight(V)' : c \in InFlight(V) /\ task'[c].on = task[c].on
    BY <2>1, <2>2, BytesFewer
  <2>3. ASSUME NEW c \in Commits, task[c].on \in V, QuotaAllows(task[c].on),
               InFlight(V)' = InFlight(V) \cup {c},
               \A d \in InFlight(V)' : task'[d].on = task[d].on
        PROVE  ByteSum(Size, OwnDigests(u)') + ByteSum(TaskBytes', Outstanding(u)')
                 <= Policy["max_publisher_bytes"] + Overshoot
    <3>1. PublisherFits(task[c].on) /\ task'[c].on = task[c].on
      BY <2>3 DEF QuotaAllows
    <3> QED
      BY <2>1, <2>3, <3>1, BytesTakeOff
  <2> HIDE DEF V
  <2> QED
    BY <2>2, <2>3, FlightStep
<1> QED
  BY <1>1, <1>2

\* What every task in flight may still add, of receipts and of bytes.
FlightInv == CountInv /\ SizesInv /\ BytesInv

\* An empty node has room for as many tasks as there are.
LEMMA FlightInit == ASSUME IsFiniteSet(Commits) PROVE Init => FlightInv
<1> SUFFICES ASSUME Init PROVE FlightInv
  OBVIOUS
<1>1. /\ receipts = {} /\ begin.at = "idle" /\ OpenSessions = {}
      /\ \A V : InFlight(V) = {}
  BY DEF Init, IdleTask, IdleBegin, InFlight, OpenSessions, HasSession
<1>2. Cardinality({}) = 0 /\ Cardinality(Commits) \in Nat
  BY FS_EmptySet, FS_CardinalityType
<1>3. ASSUME NEW V, NEW L \in Nat \ {0} PROVE Room(V, L)
  <2>1. receipts \cap V = {} /\ InFlight(V) = {}
    BY <1>1
  <2>2. 0 + 0 <= L - 1 + Cardinality(Commits)
    BY <1>2, <1>3
  <2> QED
    BY <1>2, <2>1, <2>2 DEF Room
<1>4. /\ Policy["max_publications"] \in Nat \ {0}
      /\ Policy["max_publications_per_publisher"] \in Nat \ {0}
      /\ Policy["max_object_bytes"] \in Nat /\ Policy["max_publisher_bytes"] \in Nat
      /\ Policy["max_object_bytes"] <= Policy["max_publisher_bytes"]
  BY PolicyAssumption, SizesAssumption DEF ValidConfig, Limits
<1>5. CountInv
  BY <1>3, <1>4 DEF CountInv
<1>6. SizesInv
  BY <1>1 DEF SizesInv
<1>7. ASSUME NEW u \in Uploads
      PROVE  ByteSum(Size, OwnDigests(u)) + ByteSum(TaskBytes, Outstanding(u))
               <= Policy["max_publisher_bytes"] + Overshoot
  <2>1. OwnDigests(u) = {} /\ Outstanding(u) = {}
    BY <1>1 DEF OwnDigests, DigestsOf, OfPublisher, Outstanding
  <2>2. \A f : ByteSum(f, {}) = 0
    BY <1>2 DEF ByteSum
  <2>3. Policy["max_publisher_bytes"] + Overshoot >= 0
    <3>1. CASE Cardinality(Commits) = 0
      BY <1>4, <3>1 DEF Overshoot
    <3>2. CASE Cardinality(Commits) # 0
      <4>1. Cardinality(Commits) - 1 \in Nat
        BY <1>2, <3>2
      <4>2. Overshoot \in Nat
        BY <1>4, <4>1 DEF Overshoot
      <4> QED
        BY <1>4, <4>2
    <3> QED
      BY <3>1, <3>2
  <2> QED
    BY <2>1, <2>2, <2>3
<1> QED
  BY <1>5, <1>6, <1>7 DEF FlightInv, BytesInv

\* It holds in every state of a node with finitely many commit tasks: they are
\* threads of tokio's blocking pool.
LEMMA FlightAlways == ASSUME IsFiniteSet(Commits) PROVE Spec => []FlightInv
<1>1. NodeInv /\ NodeInv' /\ FlightInv /\ [Next]_vars => FlightInv'
  BY CountStep, SizesStep, BytesStep DEF NodeInv, FlightInv
<1>2. Init => FlightInv
  BY FlightInit
<1> QED
  BY <1>1, <1>2, NodeAlways, PTL DEF Spec

\* Whatever the clients drop, the limits that enforce_publisher_quota checks are
\* exceeded by no more than one artifact for every other commit task: of receipts,
\* of receipts per publisher, and of a publisher's bytes.
THEOREM ReceiptsNearPolicyHolds ==
  ASSUME IsFiniteSet(Commits)
  PROVE  Spec => []ReceiptsNearPolicy
<1> DEFINE more == Cardinality(Commits) - 1
<1>1. TypeInv /\ FlightInv => ReceiptsNearPolicy
  <2> SUFFICES ASSUME TypeInv, FlightInv PROVE ReceiptsNearPolicy
    OBVIOUS
  <2>1. ASSUME NEW V, NEW L \in Nat, Room(V, L)
        PROVE  Cardinality(receipts \cap V) <= L + more
    <3>1. IsFiniteSet(receipts \cap V)
      BY FiniteAssumption, FS_Subset DEF TypeInv, TypeOK
    <3>2. Cardinality(receipts \cap V) \in Nat
      BY <3>1, FS_CardinalityType
    <3> QED
      BY <2>1, <3>2, FlightFinite DEF Room
  <2>2. /\ Policy["max_publications"] \in Nat
        /\ Policy["max_publications_per_publisher"] \in Nat
    BY LimitTypes DEF Limits
  <2>3. Cardinality(receipts) <= Policy["max_publications"] + more
    <3>1. receipts \cap Uploads = receipts
      BY DEF TypeInv, TypeOK
    <3>2. Room(Uploads, Policy["max_publications"])
      BY DEF FlightInv, CountInv
    <3> HIDE DEF more
    <3> QED
      BY <2>1, <2>2, <3>1, <3>2
  <2>4. ASSUME NEW u \in receipts
        PROVE  /\ Cardinality(OfPublisher(receipts, u))
                    <= Policy["max_publications_per_publisher"] + more
               /\ ByteSum(Size, DigestsOf(OfPublisher(receipts, u)))
                    <= Policy["max_publisher_bytes"] + more * Policy["max_object_bytes"]
    <3>1. u \in Uploads
      BY DEF TypeInv, TypeOK
    <3>2. receipts \cap OfPublisher(Uploads, u) = OfPublisher(receipts, u)
      BY <3>1 DEF OfPublisher, TypeInv, TypeOK
    <3>3. Room(OfPublisher(Uploads, u), Policy["max_publications_per_publisher"])
      BY <3>1 DEF FlightInv, CountInv
    <3>4. Cardinality(OfPublisher(receipts, u))
            <= Policy["max_publications_per_publisher"] + more
      <4> HIDE DEF more
      <4> QED
        BY <2>1, <2>2, <3>2, <3>3
    <3>5. ByteSum(Size, OwnDigests(u)) + ByteSum(TaskBytes, Outstanding(u))
            <= Policy["max_publisher_bytes"] + Overshoot
      BY <3>1 DEF FlightInv, BytesInv
    <3>6. ByteSum(Size, OwnDigests(u)) <= Policy["max_publisher_bytes"] + Overshoot
      BY <3>1, <3>5, ByteTypes
    <3> QED
      BY <3>4, <3>6 DEF OwnDigests, Overshoot
  <2> HIDE DEF more
  <2> QED
    BY <2>3, <2>4 DEF ReceiptsNearPolicy, more
<1> QED
  BY <1>1, FlightAlways, NodeAlways, PTL DEF NodeInv
=============================================================================
