---------------------------- MODULE DeviceProofs ----------------------------
(***************************************************************************)
(* What a device relies on in its own databases, for any number of tabs,    *)
(* operations, constructions, identities and files.                        *)
(*                                                                         *)
(* Publisher: a nonce is drawn by one operation only, so that an operation *)
(* whose intent the node has not yet seen shares its nonce with nobody;     *)
(* from the receipt on its nonce names a publication of its artifact, which *)
(* no later publication replaces.  Where the identity is created by one     *)
(* operation at a time, nobody holds a key while there is none and nobody   *)
(* makes a key while there is one.                                         *)
(*                                                                         *)
(* Files: a transfer never counts a chunk that the peer did not             *)
(* acknowledge, and what it still has to send is all that its journal       *)
(* lacked when it was read; other pages may meanwhile transfer, delete or   *)
(* ingest the same file, which never takes an acknowledgement back.         *)
(***************************************************************************)
EXTENDS Publisher, DeviceFiles, FiniteSetTheorems, TLAPS

-----------------------------------------------------------------------------
(* The publisher identity and the Personal Weave *)


Signed == {"admission", "status", "chunk", "commit"}
Marking == {"bytes", "record", "read", "mark"}
Keyed == {"hashing"} \cup Signed
Intents == [artifact : Artifacts, key : Keys, nonce : Nonces]
Records == {Nothing} \cup [publication : Nonces \cup {Nothing}]
Jobs == [kind : {"idle", "publish", "keep", "unpublish", "remove"},
         pc : {"idle", "policy", "identity", "generate", "revoke", "unlink"}
                \cup Keyed \cup Marking,
         artifact : Artifacts \cup {Nothing},
         key : Keys \cup {Nothing}, nonce : Nonces \cup {Nothing},
         missing : SUBSET Chunks, chunk : Chunks \cup {Nothing}, attempt : Nat,
         seen : Records]
Exclusive == locks \/ \A t, u \in Tasks : tab[t] = tab[u]

PublisherTypes ==
    /\ locks \in BOOLEAN
    /\ publisherKey \in Keys \cup {Nothing}
    /\ keyHolder \subseteq Tasks
    /\ published \in [Nonces -> Intents \cup {Nothing}]
    /\ listed \subseteq Nonces
    /\ retained \in [Artifacts -> Records]
    /\ job \in [Tasks -> Jobs]

\* An operation that is under way has an artifact, and a publication that has
\* its identity has a key.
UnderWay ==
    \A t \in Tasks :
        /\ job[t].pc # "idle" => job[t].artifact \in Artifacts
        /\ job[t].pc \in Keyed => job[t].kind = "publish" /\ job[t].key \in Keys
        /\ job[t].pc = "revoke" => job[t].kind # "publish"

\* A signed intent that the node has not seen has its nonce to itself.
NoncesOwn ==
    \A t \in Tasks : job[t].pc \in Signed =>
        /\ job[t].nonce \in Nonces
        /\ published[job[t].nonce] = Nothing
        /\ \A u \in Tasks \ {t} : job[u].nonce # job[t].nonce

\* An operation that has its receipt holds a publication of its artifact.
ReceiptsHeld ==
    \A t \in Tasks : job[t].pc \in Marking /\ job[t].kind = "publish" =>
        /\ job[t].nonce \in Nonces
        /\ published[job[t].nonce] # Nothing
        /\ published[job[t].nonce].artifact = job[t].artifact

ListedPublished == \A n \in listed : published[n] # Nothing

\* The identity is created once, by the one operation that holds it back.
OneIdentity ==
    Exclusive =>
        /\ \A t \in Tasks : job[t].pc = "generate" => t \in keyHolder
        /\ \A t, u \in keyHolder : t = u
        /\ keyHolder # {} => publisherKey = Nothing
        /\ \A t \in Tasks : job[t].pc \in Keyed => job[t].key = publisherKey

LedgerInv ==
    /\ PublisherTypes /\ UnderWay /\ NoncesOwn /\ ReceiptsHeld /\ ListedPublished
    /\ RecordedPublicationIsOfArtifact
KeyInv == LedgerInv /\ OneIdentity /\ PublishedUnderKeptKey

-----------------------------------------------------------------------------
\* Both invariants hold when the page opens.
LEMMA PublisherInitially == PublisherInit => KeyInv
BY PublisherAssumption DEF PublisherInit, KeyInv, LedgerInv, PublisherTypes,
    UnderWay, NoncesOwn, ReceiptsHeld, ListedPublished, OneIdentity,
    RecordedPublicationIsOfArtifact, PublishedUnderKeptKey, NoTask, Signed,
    Marking, Keyed, Records, Jobs

\* What an operation may become while the ledger and the records stay as they
\* are: its new state r keeps what the invariant says of one operation.
Continues(t, r) ==
    /\ r \in Jobs
    /\ r.pc # "idle" => r.artifact \in Artifacts
    /\ r.pc \in Keyed => r.kind = "publish" /\ r.key \in Keys
    /\ r.pc = "revoke" => r.kind # "publish"
    /\ \A u \in Tasks \ {t} : job[u].pc \in Signed => r.nonce # job[u].nonce
    /\ r.pc \in Signed =>
          /\ r.nonce \in Nonces /\ published[r.nonce] = Nothing
          /\ \A u \in Tasks \ {t} : job[u].nonce # r.nonce
    /\ r.pc \in Marking /\ r.kind = "publish" =>
          /\ r.nonce \in Nonces /\ published[r.nonce] # Nothing
          /\ published[r.nonce].artifact = r.artifact

\* A task that goes on as Continues allows keeps the parts about tasks, while the
\* node admits nothing.
LEMMA Continued ==
    ASSUME LedgerInv, NEW t \in Tasks, NEW r, Continues(t, r),
           job' = [job EXCEPT ![t] = r], published' = published
    PROVE  job' \in [Tasks -> Jobs] /\ UnderWay' /\ NoncesOwn' /\ ReceiptsHeld'
BY DEF LedgerInv, PublisherTypes, UnderWay, NoncesOwn, ReceiptsHeld, Continues

\* The steps that leave the ledger and the records alone.
LEMMA JobStep ==
    ASSUME LedgerInv, NEW t \in Tasks, NEW r, Continues(t, r),
           job' = [job EXCEPT ![t] = r], keyHolder' \subseteq Tasks,
           publisherKey' \in Keys \cup {Nothing},
           UNCHANGED <<locks, published, listed, retained>>
    PROVE  LedgerInv'
<1>1. job' \in [Tasks -> Jobs] /\ UnderWay' /\ NoncesOwn' /\ ReceiptsHeld'
    BY Continued
<1> QED BY <1>1 DEF LedgerInv, PublisherTypes, ListedPublished,
        RecordedPublicationIsOfArtifact

\* An operation that goes on with another phase, key or progress.
LEMMA Progress ==
    ASSUME LedgerInv, NEW t \in Tasks, NEW pc, NEW k,
           pc \in {"idle", "policy", "identity", "generate", "revoke", "unlink"}
                    \cup Keyed \cup Marking,
           k \in Keys \cup {Nothing},
           pc # "idle" => job[t].artifact \in Artifacts,
           pc \in Keyed => job[t].kind = "publish" /\ k \in Keys,
           pc = "revoke" => job[t].kind # "publish",
           pc \in Signed => job[t].pc \in Signed,
           pc \in Marking => job[t].pc \in Marking \/ job[t].kind # "publish"
    PROVE  Continues(t, [job[t] EXCEPT !.pc = pc, !.key = k])
<1> DEFINE r == [job[t] EXCEPT !.pc = pc, !.key = k]
<1>1. job[t] \in Jobs
    BY DEF LedgerInv, PublisherTypes
<1>2. /\ r \in Jobs /\ r.pc = pc /\ r.key = k /\ r.kind = job[t].kind
      /\ r.artifact = job[t].artifact /\ r.nonce = job[t].nonce
    BY <1>1 DEF Jobs
<1> HIDE DEF r
<1>3. \A u \in Tasks \ {t} : job[u].pc \in Signed => r.nonce # job[u].nonce
    BY <1>2 DEF LedgerInv, NoncesOwn
<1>4. r.pc \in Signed =>
          /\ r.nonce \in Nonces /\ published[r.nonce] = Nothing
          /\ \A u \in Tasks \ {t} : job[u].nonce # r.nonce
    BY <1>2 DEF LedgerInv, NoncesOwn
<1>5. r.pc \in Marking /\ r.kind = "publish" =>
          /\ r.nonce \in Nonces /\ published[r.nonce] # Nothing
          /\ published[r.nonce].artifact = r.artifact
    BY <1>2 DEF LedgerInv, ReceiptsHeld
<1> QED BY <1>2, <1>3, <1>4, <1>5 DEF Continues, r

\* An operation that ends, or begins without a nonce.
LEMMA Restarts ==
    ASSUME LedgerInv, NEW t \in Tasks, NEW r \in Jobs,
           r.nonce = Nothing, r.pc \notin Keyed \cup {"revoke"},
           r.pc # "idle" => r.artifact \in Artifacts,
           r.kind # "publish" \/ r.pc \notin Marking
    PROVE  Continues(t, r)
BY PublisherAssumption DEF LedgerInv, NoncesOwn, Continues, Keyed

-----------------------------------------------------------------------------
\* The buttons: a new operation starts without a nonce, or with that of a
\* listed publication.
LEMMA ButtonsKeepLedger ==
    ASSUME LedgerInv, NEW t \in Tasks, NodeCalls(t)
    PROVE  LedgerInv'
<1> PICK a \in Artifacts : \/ PublishActiveObject(t, a)
                           \/ KeepActiveObject(t, a)
                           \/ UnpublishPersonalWeaveEntry(t, a)
                           \/ RemovePersonalObject(t, a)
    BY DEF NodeCalls
<1>0. keyHolder \subseteq Tasks /\ publisherKey \in Keys \cup {Nothing}
    BY DEF LedgerInv, PublisherTypes
<1>1. ASSUME NEW kind \in {"publish", "keep", "unpublish", "remove"},
             NEW pc \in {"policy", "bytes", "identity", "unlink"},
             NEW n \in Nonces \cup {Nothing}
      PROVE  [NoTask EXCEPT !.kind = kind, !.pc = pc, !.artifact = a, !.nonce = n] \in Jobs
    BY DEF NoTask, Jobs, Records, Marking
<1>6. ASSUME NEW kind \in {"publish", "keep", "remove"},
             NEW pc \in {"policy", "bytes", "unlink"},
             kind # "publish" \/ pc # "bytes"
      PROVE  Continues(t, [NoTask EXCEPT !.kind = kind, !.pc = pc, !.artifact = a])
    <2> DEFINE r == [NoTask EXCEPT !.kind = kind, !.pc = pc, !.artifact = a]
    <2>1. /\ r \in Jobs /\ r.nonce = Nothing /\ r.artifact = a
          /\ r.pc = pc /\ r.kind = kind
        BY DEF NoTask, Jobs, Records, Marking
    <2>2. pc \notin Keyed \cup {"revoke"} /\ (kind # "publish" \/ pc \notin Marking)
        BY <1>6 DEF Keyed, Signed, Marking
    <2> QED BY <2>1, <2>2, Restarts
<1>2. CASE PublishActiveObject(t, a)
    <2> DEFINE r == [NoTask EXCEPT !.kind = "publish", !.pc = "policy", !.artifact = a]
    <2>1. Continues(t, r)
        BY <1>6
    <2> QED BY <1>0, <1>2, <2>1, JobStep DEF PublishActiveObject, Start, deviceVars, nodeVars
<1>3. CASE KeepActiveObject(t, a)
    <2> DEFINE r == [NoTask EXCEPT !.kind = "keep", !.pc = "bytes", !.artifact = a]
    <2>1. Continues(t, r)
        BY <1>6
    <2> QED BY <1>0, <1>3, <2>1, JobStep DEF KeepActiveObject, Start, deviceVars, nodeVars
<1>4. CASE UnpublishPersonalWeaveEntry(t, a)
    <2>1. PICK n \in Entries(a) :
             job' = [job EXCEPT ![t] = [NoTask EXCEPT !.kind = "unpublish",
                        !.pc = "identity", !.artifact = a, !.nonce = n]]
        BY <1>4 DEF UnpublishPersonalWeaveEntry
    <2> DEFINE r == [NoTask EXCEPT !.kind = "unpublish", !.pc = "identity",
                                   !.artifact = a, !.nonce = n]
    <2>2. n \in Nonces /\ published[n] # Nothing
        BY DEF Entries, LedgerInv, PublisherTypes, ListedPublished
    <2>3. r \in Jobs /\ r.pc = "identity" /\ r.artifact = a /\ r.nonce = n
        BY <1>1, <2>2 DEF NoTask
    <2>4. Continues(t, r)
        BY <2>2, <2>3 DEF Continues, LedgerInv, NoncesOwn, Keyed, Signed, Marking
    <2> QED BY <1>0, <1>4, <2>1, <2>4, JobStep
            DEF UnpublishPersonalWeaveEntry, deviceVars, nodeVars
<1>5. CASE RemovePersonalObject(t, a)
    <2> DEFINE r == [NoTask EXCEPT !.kind = "remove", !.pc = "unlink", !.artifact = a]
    <2>1. Continues(t, r)
        BY <1>6
    <2>2. job' \in [Tasks -> Jobs] /\ UnderWay' /\ NoncesOwn' /\ ReceiptsHeld'
        BY <1>5, <2>1, Continued DEF RemovePersonalObject, Start, nodeVars
    <2> QED BY <1>5, <2>2 DEF RemovePersonalObject, nodeVars, LedgerInv, PublisherTypes,
            Records, ListedPublished, RecordedPublicationIsOfArtifact
<1> QED BY <1>2, <1>3, <1>4, <1>5

\* An operation that settles holds no nonce.
LEMMA Settled == ASSUME LedgerInv, NEW t \in Tasks PROVE Continues(t, NoTask)
<1>1. NoTask \in Jobs /\ NoTask.nonce = Nothing /\ NoTask.pc = "idle"
    BY DEF NoTask, Jobs, Records
<1> QED BY <1>1, Restarts DEF Keyed, Signed, Marking

\* The identity: the operation that creates it goes on with it.
LEMMA IdentityKeepsLedger ==
    ASSUME LedgerInv, NEW t \in Tasks, IdentitySteps(t)
    PROVE  LedgerInv'
<1>0. /\ keyHolder \subseteq Tasks /\ publisherKey \in Keys \cup {Nothing}
      /\ job[t] \in Jobs /\ job[t].key \in Keys \cup {Nothing}
      /\ job[t].pc # "idle" => job[t].artifact \in Artifacts
    BY DEF LedgerInv, PublisherTypes, Jobs, UnderWay
<1>1. AfterIdentity(t) \in {"hashing", "revoke"}
      /\ (AfterIdentity(t) = "hashing" <=> job[t].kind = "publish")
    BY DEF AfterIdentity
<1>2. CASE LoadIdentity(t)
    <2> DEFINE r == [job[t] EXCEPT !.pc = AfterIdentity(t), !.key = publisherKey]
    <2>1. Continues(t, r)
        BY <1>0, <1>1, <1>2, Progress DEF LoadIdentity, At, Keyed, Signed, Marking
    <2>2. job' = [job EXCEPT ![t] = r]
        BY <1>0, <1>2 DEF LoadIdentity, Jobs, LedgerInv, PublisherTypes
    <2> QED BY <1>0, <1>2, <2>1, <2>2, JobStep DEF LoadIdentity, deviceVars, nodeVars
<1>3. CASE FindNoIdentity(t)
    <2> DEFINE r == [job[t] EXCEPT !.pc = "generate", !.key = job[t].key]
    <2>1. Continues(t, r)
        BY <1>0, <1>3, Progress DEF FindNoIdentity, At, Keyed, Signed, Marking
    <2>2. job' = [job EXCEPT ![t] = r]
        BY <1>0, <1>3 DEF FindNoIdentity, Goto, Jobs, LedgerInv, PublisherTypes
    <2> QED BY <1>0, <1>3, <2>1, <2>2, JobStep DEF FindNoIdentity, deviceVars, nodeVars
<1>4. CASE CreateIdentity(t)
    <2>1. publisherKey' \in Keys
        BY <1>4 DEF CreateIdentity, Fresh
    <2> DEFINE r == [job[t] EXCEPT !.pc = AfterIdentity(t), !.key = publisherKey']
    <2>2. Continues(t, r)
        BY <1>0, <1>1, <1>4, <2>1, Progress DEF CreateIdentity, At, Keyed, Signed, Marking
    <2>3. job' = [job EXCEPT ![t] = r]
        BY <1>0, <1>4 DEF CreateIdentity, Jobs, LedgerInv, PublisherTypes
    <2> QED BY <1>0, <1>4, <2>1, <2>2, <2>3, JobStep DEF CreateIdentity, nodeVars
<1>5. CASE IdentityFails(t)
    BY <1>0, <1>5, Settled, JobStep DEF IdentityFails, Settle, deviceVars, nodeVars
<1> QED BY <1>2, <1>3, <1>4, <1>5 DEF IdentitySteps

-----------------------------------------------------------------------------
\* The publication up to its commit.
LEMMA UploadKeepsLedger ==
    ASSUME LedgerInv, NEW t \in Tasks,
           \/ PublishFails(t)
           \/ \E policy \in Policies : FetchWeavePolicy(t, policy)
           \/ HashAndSign(t)
           \/ \E session \in Sessions(t) : BeginUpload(t, session)
           \/ \E status \in Statuses : ReadUploadStatus(t, status) \/ PutChunk(t, status)
           \/ RetryChunk(t)
    PROVE  LedgerInv'
<1>0. /\ keyHolder \subseteq Tasks /\ publisherKey \in Keys \cup {Nothing}
      /\ job[t] \in Jobs /\ job[t].key \in Keys \cup {Nothing}
      /\ job \in [Tasks -> Jobs]
      /\ job[t].pc # "idle" => job[t].artifact \in Artifacts
      /\ job[t].pc \in Keyed => job[t].kind = "publish" /\ job[t].key \in Keys
    BY DEF LedgerInv, PublisherTypes, Jobs, UnderWay
<1> DEFINE Kept == UNCHANGED <<locks, publisherKey, keyHolder, published, listed, retained>>
<1>1. CASE PublishFails(t)
    BY <1>0, <1>1, Settled, JobStep DEF PublishFails, Settle, deviceVars, nodeVars
<1>2. ASSUME NEW policy \in Policies, FetchWeavePolicy(t, policy) PROVE LedgerInv'
    <2> DEFINE r == [job[t] EXCEPT !.pc = "identity", !.key = job[t].key]
    <2>1. Continues(t, r)
        BY <1>0, <1>2, Progress DEF FetchWeavePolicy, At, Keyed, Signed, Marking
    <2>2. job' = [job EXCEPT ![t] = r] /\ Kept
        BY <1>0, <1>2 DEF FetchWeavePolicy, Goto, Jobs, deviceVars, nodeVars
    <2> QED BY <1>0, <2>1, <2>2, JobStep
<1>3. CASE HashAndSign(t)
    <2>1. PICK n \in Unused : job' = [job EXCEPT ![t].pc = "admission", ![t].nonce = n]
        BY <1>3 DEF HashAndSign, Fresh
    <2> DEFINE r == [job[t] EXCEPT !.pc = "admission", !.nonce = n]
    <2>2. /\ r \in Jobs /\ r.pc = "admission" /\ r.nonce = n /\ r.kind = job[t].kind
          /\ r.artifact = job[t].artifact /\ r.key = job[t].key
        BY <1>0, <2>1 DEF Jobs, Unused, Keyed, Signed
    <2>3. /\ n \in Nonces /\ published[n] = Nothing
          /\ \A u \in Tasks : job[u].nonce # n
        BY DEF Unused
    <2>4. Continues(t, r)
        BY <1>0, <1>3, <2>2, <2>3 DEF HashAndSign, At, Continues, Keyed, Signed, Marking
    <2>5. job' = [job EXCEPT ![t] = r] /\ Kept
        BY <1>0, <1>3, <2>1 DEF HashAndSign, Jobs, deviceVars, nodeVars
    <2> QED BY <1>0, <2>4, <2>5, JobStep
<1>4. ASSUME NEW session \in Sessions(t), BeginUpload(t, session) PROVE LedgerInv'
    <2> DEFINE r == [job[t] EXCEPT !.pc = "status", !.key = job[t].key]
    <2>1. Continues(t, r)
        BY <1>0, <1>4, Progress DEF BeginUpload, At, Keyed, Signed, Marking
    <2>2. job' = [job EXCEPT ![t] = r] /\ Kept
        BY <1>0, <1>4 DEF BeginUpload, Goto, Jobs, deviceVars, nodeVars
    <2> QED BY <1>0, <2>1, <2>2, JobStep
<1>5. ASSUME NEW left \in SUBSET Chunks, NEW n \in Nat, job[t].pc \in {"status", "chunk"},
             Kept,
             job' = [job EXCEPT ![t].missing = left, ![t].attempt = n,
                                ![t].chunk = NextChunk(left), ![t].pc = AfterChunks(left)]
      PROVE  LedgerInv'
    <2> DEFINE r == [job[t] EXCEPT !.missing = left, !.attempt = n,
                                   !.chunk = NextChunk(left), !.pc = AfterChunks(left)]
    <2>1. NextChunk(left) \in Chunks \cup {Nothing} /\ AfterChunks(left) \in {"commit", "chunk"}
        BY DEF NextChunk, AfterChunks
    <2>2. /\ r \in Jobs /\ r.pc = AfterChunks(left) /\ r.kind = job[t].kind
          /\ r.artifact = job[t].artifact /\ r.nonce = job[t].nonce /\ r.key = job[t].key
        BY <1>0, <2>1 DEF Jobs, Keyed, Signed
    <2>3. Continues(t, r)
        BY <1>0, <1>5, <2>1, <2>2 DEF Continues, LedgerInv, NoncesOwn, Keyed, Signed, Marking
    <2>4. job' = [job EXCEPT ![t] = r]
        BY <1>0, <1>5 DEF Jobs
    <2> QED BY <1>0, <1>5, <2>3, <2>4, JobStep
<1>6. ASSUME NEW status \in Statuses, ReadUploadStatus(t, status) PROVE LedgerInv'
    BY <1>5, <1>6 DEF ReadUploadStatus, At, Statuses, deviceVars, nodeVars
<1>7. ASSUME NEW status \in Statuses, PutChunk(t, status) PROVE LedgerInv'
    <2>1. job[t].missing \ {job[t].chunk} \in SUBSET Chunks
        BY <1>0 DEF Jobs
    <2> QED BY <1>5, <1>7, <2>1 DEF PutChunk, At, deviceVars, nodeVars
<1>8. CASE RetryChunk(t)
    <2> DEFINE r == [job[t] EXCEPT !.attempt = @ + 1]
    <2>1. /\ r \in Jobs /\ r.pc = job[t].pc /\ r.kind = job[t].kind
          /\ r.artifact = job[t].artifact /\ r.nonce = job[t].nonce /\ r.key = job[t].key
        BY <1>0 DEF Jobs
    <2>2. Continues(t, r)
        BY <1>0, <1>8, <2>1 DEF RetryChunk, At, Continues, LedgerInv, NoncesOwn,
            Keyed, Signed, Marking
    <2>3. job' = [job EXCEPT ![t] = r] /\ Kept
        BY <1>0, <1>8 DEF RetryChunk, Jobs, deviceVars, nodeVars
    <2> QED BY <1>0, <2>2, <2>3, JobStep
<1> QED BY <1>1, <1>2, <1>3, <1>4, <1>6, <1>7, <1>8

\* The node takes an intent that nobody else signed, so that no publication
\* is replaced.
LEMMA NodeAdmits ==
    ASSUME LedgerInv, NEW t \in Tasks, At(t, "commit"), NodePublishes(t)
    PROVE  /\ job[t].nonce \in Nonces /\ published[job[t].nonce] = Nothing
           /\ Intent(t) \in Intents /\ Intent(t) # Nothing
           /\ Intent(t).artifact = job[t].artifact
           /\ published' \in [Nonces -> Intents \cup {Nothing}]
           /\ published'[job[t].nonce] = Intent(t)
           /\ \A n \in Nonces : published[n] # Nothing => published'[n] = published[n]
           /\ \A n \in Nonces \ {job[t].nonce} : published'[n] = published[n]
           /\ job[t].artifact \in Artifacts /\ job[t].key \in Keys
<1>1. job[t].nonce \in Nonces /\ published[job[t].nonce] = Nothing
      /\ job[t].artifact \in Artifacts /\ job[t].key \in Keys
    BY DEF At, LedgerInv, UnderWay, NoncesOwn, Keyed, Signed
<1>2. Intent(t) \in Intents /\ Intent(t) # Nothing /\ Intent(t).artifact = job[t].artifact
    BY <1>1, PublisherAssumption DEF Intent, Intents
<1> QED BY <1>1, <1>2 DEF NodePublishes, LedgerInv, PublisherTypes

\* The commit, answered or not.
LEMMA CommitKeepsLedger ==
    ASSUME LedgerInv, NEW t \in Tasks, At(t, "commit"), NodePublishes(t),
           NEW r \in Jobs, job' = [job EXCEPT ![t] = r],
           \/ r = NoTask
           \/ r.kind = "publish" /\ r.pc = "bytes" /\ r.nonce = job[t].nonce
              /\ r.artifact = job[t].artifact,
           UNCHANGED <<locks, publisherKey, keyHolder, listed, retained>>
    PROVE  LedgerInv'
<1>1. \A u \in Tasks \ {t} : job'[u] = job[u]
    BY DEF LedgerInv, PublisherTypes
<1>2. job'[t] = r /\ r.pc \notin Keyed \cup {"revoke"} /\ (r.pc = "idle" \/ r.artifact \in Artifacts)
    BY NodeAdmits DEF LedgerInv, PublisherTypes, NoTask, Keyed, Signed
<1>3. PublisherTypes'
    BY NodeAdmits DEF LedgerInv, PublisherTypes
<1>4. UnderWay'
    BY <1>1, <1>2 DEF LedgerInv, UnderWay
<1>5. NoncesOwn'
    <2> SUFFICES ASSUME NEW u \in Tasks, job'[u].pc \in Signed
                 PROVE  /\ job'[u].nonce \in Nonces /\ published'[job'[u].nonce] = Nothing
                        /\ \A w \in Tasks \ {u} : job'[w].nonce # job'[u].nonce
        BY DEF NoncesOwn
    <2>1. u # t /\ job'[u] = job[u]
        BY <1>1, <1>2 DEF Keyed
    <2>2. /\ job[u].nonce \in Nonces /\ published[job[u].nonce] = Nothing
          /\ \A w \in Tasks \ {u} : job[w].nonce # job[u].nonce
        BY <2>1 DEF LedgerInv, NoncesOwn
    <2>3. r.nonce \in {Nothing, job[t].nonce} /\ job[u].nonce # Nothing
        BY <2>2, PublisherAssumption DEF NoTask
    <2> QED BY <1>1, <1>2, <2>1, <2>2, <2>3, NodeAdmits
<1>6. ReceiptsHeld'
    <2>1. ASSUME NEW u \in Tasks \ {t}, job[u].pc \in Marking, job[u].kind = "publish"
          PROVE  published'[job[u].nonce] = published[job[u].nonce]
        BY <2>1, NodeAdmits DEF LedgerInv, ReceiptsHeld
    <2>2. r = NoTask => r.pc \notin Marking
        BY DEF NoTask, Marking
    <2> QED BY <1>1, <1>2, <2>1, <2>2, NodeAdmits DEF LedgerInv, ReceiptsHeld
<1>7. ListedPublished'
    BY NodeAdmits DEF LedgerInv, PublisherTypes, ListedPublished
<1>8. RecordedPublicationIsOfArtifact'
    <2> SUFFICES ASSUME NEW a \in Artifacts, retained[a] # Nothing,
                        retained[a].publication # Nothing
                 PROVE  /\ published'[retained[a].publication] # Nothing
                        /\ published'[retained[a].publication].artifact = a
        BY DEF RecordedPublicationIsOfArtifact
    <2>1. retained[a].publication \in Nonces
        BY DEF LedgerInv, PublisherTypes, Records
    <2> QED BY <2>1, NodeAdmits DEF LedgerInv, RecordedPublicationIsOfArtifact
<1> QED BY <1>3, <1>4, <1>5, <1>6, <1>7, <1>8 DEF LedgerInv

-----------------------------------------------------------------------------
\* The commit and the Personal Weave: what is recorded is what was published.
LEMMA CommitsKeepLedger ==
    ASSUME LedgerInv, NEW t \in Tasks,
           CommitUnanswered(t) \/ \E receipt \in Receipts(t) : CommitUpload(t, receipt)
    PROVE  LedgerInv'
<1>1. CASE CommitUnanswered(t)
    <2>1. NoTask \in Jobs
        BY DEF NoTask, Jobs, Records
    <2> QED BY <1>1, <2>1, CommitKeepsLedger DEF CommitUnanswered, Settle, deviceVars
<1>2. ASSUME NEW receipt \in Receipts(t), CommitUpload(t, receipt) PROVE LedgerInv'
    <2> DEFINE r == [NoTask EXCEPT !.kind = "publish", !.pc = "bytes",
                                   !.artifact = job[t].artifact,
                                   !.nonce = receipt.intent.nonce]
    <2>1. receipt.intent.nonce = job[t].nonce
        BY <1>2 DEF CommitUpload, ValidPublicationReceipt, SameIntent, Intent
    <2>2. job[t] \in Jobs
        BY DEF LedgerInv, PublisherTypes
    <2>3. /\ r \in Jobs /\ r.kind = "publish" /\ r.pc = "bytes"
          /\ r.nonce = job[t].nonce /\ r.artifact = job[t].artifact
        BY <2>1, <2>2 DEF NoTask, Jobs, Records, Marking
    <2> QED BY <1>2, <2>3, CommitKeepsLedger DEF CommitUpload, deviceVars
<1> QED BY <1>1, <1>2

\* Keeping, marking, unmarking, revoking and removing write records that name
\* publications of their own artifact only.
LEMMA DeviceKeepsLedger ==
    ASSUME LedgerInv, NEW t \in Tasks, DeviceSteps(t)
    PROVE  LedgerInv'
<1>0. /\ keyHolder \subseteq Tasks /\ publisherKey \in Keys \cup {Nothing}
      /\ job[t] \in Jobs /\ job[t].key \in Keys \cup {Nothing}
      /\ job \in [Tasks -> Jobs]
      /\ job[t].pc # "idle" => job[t].artifact \in Artifacts
    BY DEF LedgerInv, PublisherTypes, Jobs, UnderWay
<1>1. CASE SaveBytes(t)
    <2> DEFINE r == [job[t] EXCEPT !.pc = "record", !.key = job[t].key]
    <2>1. Continues(t, r)
        BY <1>0, <1>1, Progress DEF SaveBytes, At, Keyed, Signed, Marking
    <2>2. job' = [job EXCEPT ![t] = r]
        BY <1>0, <1>1 DEF SaveBytes, Goto, Jobs
    <2> QED BY <1>0, <1>1, <2>1, <2>2, JobStep DEF SaveBytes, nodeVars
<1>2. CASE SaveRecord(t)
    <2> DEFINE r == IF job[t].kind = "publish"
                    THEN [job[t] EXCEPT !.pc = "read", !.key = job[t].key] ELSE NoTask
    <2>1. Continues(t, r)
        BY <1>0, <1>2, Progress, Settled DEF SaveRecord, At, Keyed, Signed, Marking
    <2>2. job' = [job EXCEPT ![t] = r]
        BY <1>0, <1>2 DEF SaveRecord, Goto, Settle, Jobs
    <2>3. job' \in [Tasks -> Jobs] /\ UnderWay' /\ NoncesOwn' /\ ReceiptsHeld'
        BY <1>2, <2>1, <2>2, Continued DEF SaveRecord, nodeVars
    <2>4. Private \in Records /\ Private.publication = Nothing
        BY DEF Private, Records
    <2> QED BY <1>2, <2>3, <2>4 DEF SaveRecord, nodeVars, LedgerInv, PublisherTypes,
            ListedPublished, RecordedPublicationIsOfArtifact
<1>3. CASE SaveFails(t)
    BY <1>0, <1>3, Settled, JobStep DEF SaveFails, Settle, deviceVars, nodeVars
<1>4. CASE ReadRecord(t)
    <2> DEFINE r == [job[t] EXCEPT !.seen = retained[job[t].artifact], !.pc = "mark"]
    <2>1. retained[job[t].artifact] \in Records
        BY <1>0, <1>4 DEF ReadRecord, At, LedgerInv, PublisherTypes
    <2>2. /\ r \in Jobs /\ r.pc = "mark" /\ r.kind = job[t].kind
          /\ r.artifact = job[t].artifact /\ r.nonce = job[t].nonce
        BY <1>0, <2>1 DEF Jobs, Marking
    <2>3. Continues(t, r)
        BY <1>0, <1>4, <2>2 DEF ReadRecord, At, Continues, LedgerInv, NoncesOwn,
            ReceiptsHeld, Keyed, Signed, Marking
    <2>4. job' = [job EXCEPT ![t] = r]
        BY <1>0, <1>4 DEF ReadRecord, Jobs
    <2> QED BY <1>0, <1>4, <2>3, <2>4, JobStep DEF ReadRecord, deviceVars, nodeVars
<1>5. CASE MarkPublished(t)
    <2>1. job' \in [Tasks -> Jobs] /\ UnderWay' /\ NoncesOwn' /\ ReceiptsHeld'
        BY <1>5, Settled, Continued DEF MarkPublished, Settle, nodeVars
    <2>2. /\ job[t].nonce \in Nonces /\ published[job[t].nonce] # Nothing
          /\ published[job[t].nonce].artifact = job[t].artifact
        BY <1>5 DEF MarkPublished, At, LedgerInv, ReceiptsHeld, Marking
    <2>3. Public(job[t].nonce) \in Records /\ Public(job[t].nonce).publication = job[t].nonce
        BY <2>2 DEF Public, Records
    <2>4. /\ \A a \in Artifacts : retained'[a] = retained[a]
                \/ (a = job[t].artifact /\ retained'[a] = Public(job[t].nonce))
          /\ retained' \in [Artifacts -> Records]
          /\ listed' \subseteq listed \cup {job[t].nonce}
        <3> DEFINE record == Public(job[t].nonce)
        <3>1. MarkRecord(t, record) /\ record \in Records /\ record.publication = job[t].nonce
            BY <1>5, <2>3 DEF MarkPublished
        <3>2. retained \in [Artifacts -> Records]
            BY DEF LedgerInv, PublisherTypes
        <3> HIDE DEF record
        <3>3. retained' = retained
              \/ retained' = [retained EXCEPT ![job[t].artifact] = record]
            BY <3>1 DEF MarkRecord
        <3>4. /\ \A a \in Artifacts : retained'[a] = retained[a]
                    \/ (a = job[t].artifact /\ retained'[a] = record)
              /\ retained' \in [Artifacts -> Records]
            BY <3>1, <3>2, <3>3
        <3>5. listed' \subseteq listed \cup {job[t].nonce}
            BY <3>1 DEF MarkRecord
        <3> QED BY <3>4, <3>5 DEF record
    <2>5. RecordedPublicationIsOfArtifact'
        BY <1>5, <2>2, <2>3, <2>4 DEF MarkPublished, nodeVars, LedgerInv,
            RecordedPublicationIsOfArtifact
    <2> QED BY <1>5, <2>1, <2>2, <2>4, <2>5 DEF MarkPublished, nodeVars, LedgerInv,
            PublisherTypes, ListedPublished
<1>6. CASE MarkUnpublished(t)
    <2>1. job' \in [Tasks -> Jobs] /\ UnderWay' /\ NoncesOwn' /\ ReceiptsHeld'
        BY <1>6, Settled, Continued DEF MarkUnpublished, Settle, nodeVars
    <2>2. Private \in Records /\ Private.publication = Nothing
        BY DEF Private, Records
    <2>3. /\ \A a \in Artifacts : retained'[a] = retained[a] \/ retained'[a] = Private
          /\ retained' \in [Artifacts -> Records] /\ listed' = listed
        BY <1>6, <2>2 DEF MarkUnpublished, MarkRecord, LedgerInv, PublisherTypes
    <2> QED BY <1>6, <2>1, <2>2, <2>3 DEF MarkUnpublished, nodeVars, LedgerInv,
            PublisherTypes, ListedPublished, RecordedPublicationIsOfArtifact
<1>7. CASE RevokePublication(t)
    <2> DEFINE r == [job[t] EXCEPT !.pc = "read", !.key = job[t].key]
    <2>1. r \in Jobs /\ r.pc = "read" /\ r.kind = job[t].kind
          /\ r.artifact = job[t].artifact /\ r.nonce = job[t].nonce
        BY <1>0 DEF Jobs, Marking
    <2>2. job[t].kind # "publish"
        BY <1>7 DEF RevokePublication, At, LedgerInv, UnderWay
    <2>3. Continues(t, r)
        BY <1>0, <1>7, <2>2, Progress DEF RevokePublication, At, Keyed, Signed, Marking
    <2>4. job' = [job EXCEPT ![t] = r]
        BY <1>0, <1>7 DEF RevokePublication, Goto, Jobs
    <2> QED BY <1>0, <1>7, <2>3, <2>4, JobStep DEF RevokePublication, deviceVars
<1>8. CASE RevocationFails(t)
    BY <1>0, <1>8, Settled, JobStep DEF RevocationFails, Settle, deviceVars
<1>9. CASE RemoveBytes(t)
    BY <1>0, <1>9, Settled, JobStep DEF RemoveBytes, Settle, nodeVars
<1> QED BY <1>1, <1>2, <1>3, <1>4, <1>5, <1>6, <1>7, <1>8, <1>9 DEF DeviceSteps

\* Every step of every task keeps the ledger's invariant.
LEMMA LedgerStep ==
    LedgerInv /\ [PublisherNext]_publisherVars => LedgerInv'
<1> SUFFICES ASSUME LedgerInv, [PublisherNext]_publisherVars PROVE LedgerInv'
    OBVIOUS
<1>1. ASSUME NEW t \in Tasks, NodeCalls(t) PROVE LedgerInv'
    BY <1>1, ButtonsKeepLedger
<1>2. ASSUME NEW t \in Tasks, PublishSteps(t) PROVE LedgerInv'
    BY <1>2, UploadKeepsLedger, CommitsKeepLedger DEF PublishSteps
<1>3. ASSUME NEW t \in Tasks, IdentitySteps(t) PROVE LedgerInv'
    BY <1>3, IdentityKeepsLedger
<1>4. ASSUME NEW t \in Tasks, DeviceSteps(t) PROVE LedgerInv'
    BY <1>4, DeviceKeepsLedger
<1>5. ASSUME UNCHANGED publisherVars PROVE LedgerInv'
    BY <1>5 DEF publisherVars, deviceVars, nodeVars, LedgerInv, PublisherTypes, UnderWay,
        NoncesOwn, ReceiptsHeld, ListedPublished, RecordedPublicationIsOfArtifact
<1> QED BY <1>1, <1>2, <1>3, <1>4, <1>5 DEF PublisherNext, Runs

\* RecordedPublicationIsOfArtifact: whatever answers were lost and however
\* operations overlap, a publication that the Personal Weave records is one the
\* node admitted for exactly that construction.
THEOREM RecordedPublicationIsOfArtifactHolds ==
    PublisherSpec => []RecordedPublicationIsOfArtifact
<1>1. PublisherInit => LedgerInv
    BY PublisherInitially DEF KeyInv
<1>2. LedgerInv => RecordedPublicationIsOfArtifact
    BY DEF LedgerInv
<1> QED BY <1>1, <1>2, LedgerStep, PTL DEF PublisherSpec

-----------------------------------------------------------------------------
\* A step in which no task takes a key and none creates the identity.
LEMMA KeysStay ==
    ASSUME KeyInv, NEW t \in Tasks, UNCHANGED <<tab, locks, publisherKey, keyHolder>>,
           \A u \in Tasks \ {t} : job'[u] = job[u],
           job'[t].pc # "generate",
           job'[t].pc \in Keyed => job[t].pc \in Keyed /\ job'[t].key = job[t].key
    PROVE  OneIdentity'
BY DEF KeyInv, OneIdentity, Exclusive

\* The property speaks of what the node admitted and of the stored key only.
LEMMA PublicationsKeepKey ==
    ASSUME KeyInv, UNCHANGED <<tab, locks, publisherKey, published>>
    PROVE  PublishedUnderKeptKey'
BY DEF KeyInv, PublishedUnderKeptKey

\* What a step of one task does to the keys, unless it is about the identity.
KeepsKeys(t) ==
    /\ UNCHANGED <<tab, locks, publisherKey, keyHolder>>
    /\ \A u \in Tasks \ {t} : job'[u] = job[u]
    /\ job'[t].pc # "generate"
    /\ job'[t].pc \in Keyed => job[t].pc \in Keyed /\ job'[t].key = job[t].key

\* A button starts a task without a key.
LEMMA ButtonsKeepKeys ==
    ASSUME job \in [Tasks -> Jobs], NEW t \in Tasks, NodeCalls(t)
    PROVE  KeepsKeys(t) /\ UNCHANGED published
<1> PICK a \in Artifacts : \/ PublishActiveObject(t, a)
                           \/ KeepActiveObject(t, a)
                           \/ UnpublishPersonalWeaveEntry(t, a)
                           \/ RemovePersonalObject(t, a)
    BY DEF NodeCalls
<1> USE DEF Start, NoTask, KeepsKeys, Keyed, Signed, deviceVars, nodeVars
<1>1. CASE PublishActiveObject(t, a)
    BY <1>1 DEF PublishActiveObject
<1>2. CASE KeepActiveObject(t, a)
    BY <1>2 DEF KeepActiveObject
<1>3. CASE UnpublishPersonalWeaveEntry(t, a)
    BY <1>3 DEF UnpublishPersonalWeaveEntry
<1>4. CASE RemovePersonalObject(t, a)
    BY <1>4 DEF RemovePersonalObject
<1> QED BY <1>1, <1>2, <1>3, <1>4

\* Uploading uses the key its task has; only the commit publishes.
LEMMA UploadsKeepKeys ==
    ASSUME job \in [Tasks -> Jobs], NEW t \in Tasks, PublishSteps(t)
    PROVE  /\ KeepsKeys(t)
           /\ UNCHANGED published \/ (At(t, "commit") /\ NodePublishes(t))
<1> USE DEF Settle, Goto, At, NoTask, Jobs, KeepsKeys, Keyed, Signed, deviceVars, nodeVars
<1>1. CASE PublishFails(t)
    BY <1>1 DEF PublishFails
<1>2. ASSUME NEW policy \in Policies, FetchWeavePolicy(t, policy)
      PROVE  KeepsKeys(t) /\ UNCHANGED published
    BY <1>2 DEF FetchWeavePolicy
<1>3. CASE HashAndSign(t)
    BY <1>3 DEF HashAndSign
<1>4. ASSUME NEW session \in Sessions(t), BeginUpload(t, session)
      PROVE  KeepsKeys(t) /\ UNCHANGED published
    BY <1>4 DEF BeginUpload
<1>5. ASSUME NEW status \in Statuses, ReadUploadStatus(t, status)
      PROVE  KeepsKeys(t) /\ UNCHANGED published
    BY <1>5 DEF ReadUploadStatus, AfterChunks
<1>6. ASSUME NEW status \in Statuses, PutChunk(t, status)
      PROVE  KeepsKeys(t) /\ UNCHANGED published
    BY <1>6 DEF PutChunk, AfterChunks
<1>7. CASE RetryChunk(t)
    BY <1>7 DEF RetryChunk
<1>8. ASSUME NEW receipt \in Receipts(t), CommitUpload(t, receipt)
      PROVE  KeepsKeys(t) /\ At(t, "commit") /\ NodePublishes(t)
    BY <1>8 DEF CommitUpload
<1>9. CASE CommitUnanswered(t)
    BY <1>9 DEF CommitUnanswered
<1> QED BY <1>1, <1>2, <1>3, <1>4, <1>5, <1>6, <1>7, <1>8, <1>9 DEF PublishSteps

\* The records of the device carry no key.
LEMMA DeviceKeepsKeys ==
    ASSUME job \in [Tasks -> Jobs], NEW t \in Tasks, DeviceSteps(t)
    PROVE  KeepsKeys(t) /\ UNCHANGED published
<1> USE DEF Settle, Goto, At, NoTask, Jobs, KeepsKeys, Keyed, Signed, deviceVars, nodeVars
<1>1. CASE SaveBytes(t)
    BY <1>1 DEF SaveBytes
<1>2. CASE SaveRecord(t)
    BY <1>2 DEF SaveRecord
<1>3. CASE SaveFails(t)
    BY <1>3 DEF SaveFails
<1>4. CASE ReadRecord(t)
    BY <1>4 DEF ReadRecord
<1>5. CASE MarkPublished(t)
    BY <1>5 DEF MarkPublished
<1>6. CASE MarkUnpublished(t)
    BY <1>6 DEF MarkUnpublished
<1>7. CASE RevokePublication(t)
    BY <1>7 DEF RevokePublication
<1>8. CASE RevocationFails(t)
    BY <1>8 DEF RevocationFails
<1>9. CASE RemoveBytes(t)
    BY <1>9 DEF RemoveBytes
<1> QED BY <1>1, <1>2, <1>3, <1>4, <1>5, <1>6, <1>7, <1>8, <1>9 DEF DeviceSteps

\* Outside loadOrCreatePublisherIdentity nothing decides which key is kept.
LEMMA OtherStepsKeepKey ==
    ASSUME KeyInv, NEW t \in Tasks, NodeCalls(t) \/ PublishSteps(t) \/ DeviceSteps(t)
    PROVE  OneIdentity' /\ PublishedUnderKeptKey'
<1>1. /\ KeepsKeys(t)
      /\ UNCHANGED published \/ (At(t, "commit") /\ NodePublishes(t))
    BY ButtonsKeepKeys, UploadsKeepKeys, DeviceKeepsKeys DEF KeyInv, LedgerInv, PublisherTypes
<1>2. OneIdentity'
    BY <1>1, KeysStay DEF KeepsKeys
<1>3. CASE UNCHANGED published
    BY <1>1, <1>2, <1>3, PublicationsKeepKey DEF KeepsKeys
<1>4. CASE At(t, "commit") /\ NodePublishes(t)
    <2>1. Exclusive => Intent(t).key = publisherKey
        BY <1>4 DEF At, Intent, KeyInv, OneIdentity, Keyed, Signed
    <2>2. /\ published'[job[t].nonce] = Intent(t)
          /\ \A n \in Nonces \ {job[t].nonce} : published'[n] = published[n]
        BY <1>4, NodeAdmits DEF KeyInv
    <2> QED BY <1>1, <1>2, <2>1, <2>2 DEF KeepsKeys, KeyInv, PublishedUnderKeptKey, Exclusive
<1> QED BY <1>1, <1>3, <1>4

\* The identity is read by an operation that holds everybody off, or made by
\* the one that found none: before it there is neither a key in use nor a
\* publication.
LEMMA IdentityKeepsKey ==
    ASSUME KeyInv, NEW t \in Tasks, IdentitySteps(t)
    PROVE  OneIdentity' /\ PublishedUnderKeptKey'
<1>0. job \in [Tasks -> Jobs] /\ keyHolder \subseteq Tasks
    BY DEF KeyInv, LedgerInv, PublisherTypes
<1>1. /\ UNCHANGED <<tab, locks, published>>
      /\ \A u \in Tasks \ {t} : job'[u] = job[u]
    BY <1>0 DEF IdentitySteps, LoadIdentity, FindNoIdentity, CreateIdentity, Goto,
        IdentityFails, Settle, deviceVars, nodeVars
<1> SUFFICES ASSUME Exclusive PROVE OneIdentity' /\ PublishedUnderKeptKey'
    BY <1>1 DEF OneIdentity, PublishedUnderKeptKey, Exclusive
<1>2. MayLoadIdentity(t) => keyHolder = {}
    BY <1>0 DEF MayLoadIdentity, Exclusive
<1>3. CASE LoadIdentity(t)
    <2>1. job'[t].key = publisherKey /\ job'[t].pc # "generate"
        BY <1>0, <1>3 DEF LoadIdentity, AfterIdentity, Jobs
    <2>2. OneIdentity'
        BY <1>1, <1>3, <2>1 DEF LoadIdentity, KeyInv, OneIdentity, deviceVars
    <2> QED BY <1>1, <1>3, <2>2, PublicationsKeepKey DEF LoadIdentity, deviceVars
<1>4. CASE FindNoIdentity(t)
    <2>1. job'[t].pc = "generate" /\ keyHolder' = {t} /\ publisherKey' = Nothing
        BY <1>0, <1>2, <1>4 DEF FindNoIdentity, Goto, Jobs, deviceVars
    <2>2. OneIdentity'
        BY <1>1, <1>4, <2>1 DEF FindNoIdentity, KeyInv, OneIdentity, Keyed, Signed, deviceVars
    <2> QED BY <1>1, <1>4, <2>2, PublicationsKeepKey DEF FindNoIdentity, deviceVars
<1>5. CASE CreateIdentity(t)
    <2>1. t \in keyHolder /\ keyHolder = {t} /\ publisherKey = Nothing
        BY <1>5 DEF CreateIdentity, At, KeyInv, OneIdentity
    <2>2. keyHolder' = {} /\ job'[t].pc # "generate" /\ job'[t].key = publisherKey'
        BY <1>0, <1>5, <2>1 DEF CreateIdentity, AfterIdentity, Jobs
    <2>3. \A u \in Tasks : job[u].pc \notin Keyed
        BY <2>1, PublisherAssumption DEF KeyInv, OneIdentity, LedgerInv, UnderWay
    <2>4. OneIdentity'
        BY <1>1, <2>1, <2>2, <2>3 DEF KeyInv, OneIdentity
    <2>5. \A n \in Nonces : published[n] = Nothing
        BY <2>1, PublisherAssumption DEF KeyInv, LedgerInv, PublisherTypes, Intents,
            PublishedUnderKeptKey, Exclusive
    <2> QED BY <1>1, <2>4, <2>5 DEF PublishedUnderKeptKey
<1>6. CASE IdentityFails(t)
    <2>1. job'[t].pc = "idle" /\ keyHolder' = keyHolder \ {t} /\ publisherKey' = publisherKey
        BY <1>0, <1>6 DEF IdentityFails, Settle, NoTask, deviceVars
    <2>2. OneIdentity'
        BY <1>1, <2>1 DEF KeyInv, OneIdentity, Keyed, Signed, Exclusive
    <2> QED BY <1>1, <2>1, <2>2, PublicationsKeepKey
<1> QED BY <1>3, <1>4, <1>5, <1>6 DEF IdentitySteps

\* Every step keeps one identity, under one lock or one promise.
LEMMA KeyStep == KeyInv /\ [PublisherNext]_publisherVars => KeyInv'
<1> SUFFICES ASSUME KeyInv, [PublisherNext]_publisherVars PROVE KeyInv'
    OBVIOUS
<1>1. LedgerInv'
    BY LedgerStep DEF KeyInv
<1>2. CASE PublisherNext
    BY <1>1, <1>2, OtherStepsKeepKey, IdentityKeepsKey DEF PublisherNext, Runs, KeyInv
<1>3. CASE UNCHANGED publisherVars
    BY <1>1, <1>3 DEF publisherVars, deviceVars, nodeVars, KeyInv, OneIdentity,
        PublishedUnderKeptKey, Exclusive
<1> QED BY <1>2, <1>3

\* PublishedUnderKeptKey: where operations that may create the identity
\* exclude each other, everything the device published is under the key it
\* kept, so that it can be revoked.
THEOREM PublishedUnderKeptKeyHolds == PublisherSpec => []PublishedUnderKeptKey
<1>1. KeyInv => PublishedUnderKeptKey
    BY DEF KeyInv
<1> QED BY <1>1, PublisherInitially, KeyStep, PTL DEF PublisherSpec

-----------------------------------------------------------------------------
(* Revoking with the kept identity *)

\* The phases in which an operation may still come to a revocation.
Choosing == {"policy", "identity", "generate", "revoke"}

\* An operation that revokes has an admitted publication, and the kept key.
RevokeInv ==
    /\ \A t \in Tasks :
         /\ job[t].pc \in Choosing => job[t].kind \in {"publish", "unpublish"}
         /\ job[t].kind = "unpublish" =>
              job[t].nonce \in Nonces /\ published[job[t].nonce] # Nothing
         /\ job[t].pc = "revoke" => job[t].key \in Keys
    /\ Exclusive => \A t \in Tasks : job[t].pc = "revoke" => job[t].key = publisherKey

\* What the node has admitted, and the identity once it is kept, do not change.
AdmissionsStay ==
    \A n \in Nonces : published[n] # Nothing => published'[n] = published[n]
IdentityStays ==
    Exclusive /\ publisherKey # Nothing => publisherKey' = publisherKey
NothingReplaced == AdmissionsStay /\ IdentityStays

\* Where identities are created by one operation at a time, whatever the page
\* asks the node to revoke it asks with the key that published it.
RevokesWithItsKey ==
    Exclusive => \A t \in Tasks : At(t, "revoke") => NodeRevokes(t)

\* A commit admits a nonce that was not admitted, and a key is only made while
\* there is none.
LEMMA NothingIsReplaced ==
    ASSUME KeyInv, [PublisherNext]_publisherVars
    PROVE  NothingReplaced
<1>0. job \in [Tasks -> Jobs]
    BY DEF KeyInv, LedgerInv, PublisherTypes
<1>1. ASSUME NEW t \in Tasks, NodeCalls(t) \/ PublishSteps(t) \/ DeviceSteps(t)
      PROVE  NothingReplaced
    <2>1. /\ UNCHANGED publisherKey
          /\ UNCHANGED published \/ (At(t, "commit") /\ NodePublishes(t))
        BY <1>0, <1>1, ButtonsKeepKeys, UploadsKeepKeys, DeviceKeepsKeys DEF KeepsKeys
    <2>2. CASE At(t, "commit") /\ NodePublishes(t)
        <3>1. /\ published[job[t].nonce] = Nothing
              /\ \A n \in Nonces \ {job[t].nonce} : published'[n] = published[n]
            BY <2>2, NodeAdmits DEF At, Signed, KeyInv, LedgerInv, NoncesOwn
        <3> QED BY <2>1, <3>1 DEF NothingReplaced, AdmissionsStay, IdentityStays
    <2> QED BY <2>1, <2>2 DEF NothingReplaced, AdmissionsStay, IdentityStays
<1>2. ASSUME NEW t \in Tasks, IdentitySteps(t) PROVE NothingReplaced
    <2>1. published' = published
        BY <1>2 DEF IdentitySteps, LoadIdentity, FindNoIdentity, CreateIdentity,
            IdentityFails, nodeVars
    <2>2. CASE CreateIdentity(t)
        <3>1. Exclusive => publisherKey = Nothing
            BY <2>2 DEF CreateIdentity, At, KeyInv, OneIdentity
        <3> QED BY <2>1, <3>1 DEF NothingReplaced, AdmissionsStay, IdentityStays
    <2>3. CASE ~CreateIdentity(t)
        <3>1. publisherKey' = publisherKey
            BY <1>2, <2>3 DEF IdentitySteps, LoadIdentity, FindNoIdentity, IdentityFails,
                deviceVars
        <3> QED BY <2>1, <3>1 DEF NothingReplaced, AdmissionsStay, IdentityStays
    <2> QED BY <2>2, <2>3
<1>3. CASE UNCHANGED publisherVars
    BY <1>3 DEF publisherVars, deviceVars, nodeVars, NothingReplaced, AdmissionsStay,
        IdentityStays
<1> QED BY <1>1, <1>2, <1>3 DEF PublisherNext, Runs

\* What a step of one task does to the revocations that are under way, unless
\* it is about the identity or asks for a new one.
KeepsRevoking(t) ==
    /\ \A u \in Tasks \ {t} : job'[u] = job[u]
    /\ job'[t].kind = "unpublish" =>
          job[t].kind = "unpublish" /\ job'[t].nonce = job[t].nonce
    /\ job'[t].pc \in Choosing =>
          \/ job[t].pc \in Choosing /\ job'[t].kind = job[t].kind
          \/ job'[t].kind = "publish"
    /\ job'[t].pc = "revoke" => job[t].pc = "revoke" /\ job'[t].key = job[t].key

\* Only a button makes a task one that revokes.
LEMMA ButtonsKeepRevoking ==
    ASSUME LedgerInv, NEW t \in Tasks, NodeCalls(t)
    PROVE  \/ KeepsRevoking(t)
           \/ /\ \A u \in Tasks \ {t} : job'[u] = job[u]
              /\ job'[t].pc = "identity" /\ job'[t].kind = "unpublish"
              /\ job'[t].nonce \in Nonces /\ published[job'[t].nonce] # Nothing
<1>0. job \in [Tasks -> Jobs] /\ listed \subseteq Nonces
    BY DEF LedgerInv, PublisherTypes
<1> PICK a \in Artifacts : \/ PublishActiveObject(t, a)
                           \/ KeepActiveObject(t, a)
                           \/ UnpublishPersonalWeaveEntry(t, a)
                           \/ RemovePersonalObject(t, a)
    BY DEF NodeCalls
<1>1. CASE UnpublishPersonalWeaveEntry(t, a)
    <2>1. PICK n \in Entries(a) :
            job' = [job EXCEPT ![t] = [NoTask EXCEPT !.kind = "unpublish",
                       !.pc = "identity", !.artifact = a, !.nonce = n]]
        BY <1>1, Zenon DEF UnpublishPersonalWeaveEntry
    <2>2. n \in Nonces /\ published[n] # Nothing
        BY <1>0 DEF Entries, LedgerInv, ListedPublished
    <2> DEFINE begun == [NoTask EXCEPT !.kind = "unpublish", !.pc = "identity",
                                       !.artifact = a, !.nonce = n]
    <2>3. begun.kind = "unpublish" /\ begun.pc = "identity" /\ begun.nonce = n
        BY DEF NoTask
    <2> HIDE DEF begun
    <2>4. job'[t] = begun /\ \A u \in Tasks \ {t} : job'[u] = job[u]
        BY <1>0, <2>1 DEF begun
    <2> QED BY <2>2, <2>3, <2>4
<1>2. ASSUME NEW kind \in {"publish", "keep", "remove"}, NEW pc \in {"policy", "bytes", "unlink"},
             kind # "publish" => pc # "policy", Start(t, kind, pc, a)
      PROVE  KeepsRevoking(t)
    <2> DEFINE begun == [NoTask EXCEPT !.kind = kind, !.pc = pc, !.artifact = a]
    <2>1. begun.kind = kind /\ begun.pc = pc
        BY DEF NoTask
    <2>2. job' = [job EXCEPT ![t] = begun]
        BY <1>2 DEF Start
    <2> HIDE DEF begun
    <2> QED BY <1>0, <1>2, <2>1, <2>2 DEF KeepsRevoking, Choosing
<1>3. CASE PublishActiveObject(t, a) \/ KeepActiveObject(t, a) \/ RemovePersonalObject(t, a)
    BY <1>2, <1>3 DEF PublishActiveObject, KeepActiveObject, RemovePersonalObject
<1> QED BY <1>1, <1>3

\* The other steps of a task go on with what it has, or end it.
LEMMA StepsKeepRevoking ==
    ASSUME LedgerInv, NEW t \in Tasks, PublishSteps(t) \/ DeviceSteps(t)
    PROVE  KeepsRevoking(t)
<1>0. job \in [Tasks -> Jobs] /\ (job[t].pc \in Keyed => job[t].kind = "publish")
    BY DEF LedgerInv, PublisherTypes, UnderWay
<1> USE <1>0 DEF Settle, Goto, At, NoTask, Jobs, KeepsRevoking, Choosing, Keyed, Signed
<1>1. CASE PublishFails(t)
    BY <1>1 DEF PublishFails
<1>2. ASSUME NEW policy \in Policies, FetchWeavePolicy(t, policy) PROVE KeepsRevoking(t)
    BY <1>2 DEF FetchWeavePolicy
<1>3. CASE HashAndSign(t)
    BY <1>3 DEF HashAndSign
<1>4. ASSUME NEW session \in Sessions(t), BeginUpload(t, session) PROVE KeepsRevoking(t)
    BY <1>4 DEF BeginUpload
<1>5. ASSUME NEW status \in Statuses, ReadUploadStatus(t, status) PROVE KeepsRevoking(t)
    BY <1>5 DEF ReadUploadStatus, AfterChunks
<1>6. ASSUME NEW status \in Statuses, PutChunk(t, status) PROVE KeepsRevoking(t)
    BY <1>6 DEF PutChunk, AfterChunks
<1>7. CASE RetryChunk(t)
    BY <1>7 DEF RetryChunk
<1>8. ASSUME NEW receipt \in Receipts(t), CommitUpload(t, receipt) PROVE KeepsRevoking(t)
    BY <1>8 DEF CommitUpload
<1>9. CASE CommitUnanswered(t)
    BY <1>9 DEF CommitUnanswered
<1>10. CASE DeviceSteps(t)
    BY <1>10 DEF DeviceSteps, SaveBytes, SaveRecord, SaveFails, ReadRecord, MarkPublished,
        MarkUnpublished, RevokePublication, RevocationFails, RemoveBytes
<1> QED BY <1>1, <1>2, <1>3, <1>4, <1>5, <1>6, <1>7, <1>8, <1>9, <1>10 DEF PublishSteps

\* An identity that was read or made is the kept one from then on.
LEMMA RevokeStep ==
    ASSUME KeyInv, RevokeInv, [PublisherNext]_publisherVars
    PROVE  RevokeInv'
<1>0. job \in [Tasks -> Jobs] /\ publisherKey \in Keys \cup {Nothing}
    BY DEF KeyInv, LedgerInv, PublisherTypes
<1>1. AdmissionsStay /\ IdentityStays
    BY NothingIsReplaced DEF NothingReplaced
<1>2. /\ UNCHANGED <<tab, locks>> /\ (Exclusive' <=> Exclusive)
    <2>1. UNCHANGED <<tab, locks>>
        BY <1>0, ButtonsKeepKeys, UploadsKeepKeys, DeviceKeepsKeys DEF PublisherNext, Runs,
            KeepsKeys, IdentitySteps, LoadIdentity, FindNoIdentity, CreateIdentity,
            IdentityFails, publisherVars
    <2> QED BY <2>1 DEF Exclusive
<1>3. \A t \in Tasks : Exclusive /\ job[t].pc = "revoke" => job[t].key = publisherKey'
    BY <1>1, PublisherAssumption DEF RevokeInv, IdentityStays
<1>4. ASSUME NEW t \in Tasks, KeepsRevoking(t) PROVE RevokeInv'
    BY <1>1, <1>2, <1>3, <1>4 DEF RevokeInv, KeepsRevoking, AdmissionsStay, Choosing
<1>5. ASSUME NEW t \in Tasks, NodeCalls(t) PROVE RevokeInv'
    BY <1>1, <1>2, <1>3, <1>4, <1>5, ButtonsKeepRevoking
        DEF RevokeInv, AdmissionsStay, Choosing, KeyInv
<1>6. ASSUME NEW t \in Tasks, PublishSteps(t) \/ DeviceSteps(t) PROVE RevokeInv'
    BY <1>4, <1>6, StepsKeepRevoking DEF KeyInv
<1>7. ASSUME NEW t \in Tasks, IdentitySteps(t) PROVE RevokeInv'
    <2> USE <1>0 DEF Jobs
    <2>1. CASE FindNoIdentity(t) \/ IdentityFails(t)
        <3>1. KeepsRevoking(t)
            BY <2>1 DEF FindNoIdentity, IdentityFails, Goto, Settle, At, NoTask,
                KeepsRevoking, Choosing
        <3> QED BY <1>4, <3>1
    <2>2. CASE LoadIdentity(t) \/ CreateIdentity(t)
        <3>1. /\ \A u \in Tasks \ {t} : job'[u] = job[u]
              /\ job[t].pc \in {"identity", "generate"}
              /\ job'[t].kind = job[t].kind /\ job'[t].nonce = job[t].nonce
              /\ job'[t].key = publisherKey' /\ publisherKey' \in Keys
              /\ job'[t].pc \in {"hashing", "revoke"}
            BY <2>2 DEF LoadIdentity, CreateIdentity, AfterIdentity, At, deviceVars, Fresh
        <3> QED BY <1>1, <1>2, <1>3, <3>1 DEF RevokeInv, AdmissionsStay, Choosing
    <2> QED BY <1>7, <2>1, <2>2 DEF IdentitySteps
<1>8. CASE UNCHANGED publisherVars
    BY <1>8, <1>2 DEF publisherVars, deviceVars, nodeVars, RevokeInv
<1> QED BY <1>5, <1>6, <1>7, <1>8 DEF PublisherNext, Runs

\* RevokesWithItsKey: a revocation the page asks for is never refused for its
\* key, however publications, revocations and the creation of the identity
\* overlap, as long as one operation at a time may create it.
THEOREM RevokesWithItsKeyHolds == PublisherSpec => []RevokesWithItsKey
<1>1. PublisherInit => RevokeInv
    BY DEF PublisherInit, RevokeInv, NoTask, Choosing
<1>2. KeyInv /\ RevokeInv => RevokesWithItsKey
    <2> SUFFICES ASSUME KeyInv, RevokeInv, Exclusive, NEW t \in Tasks, At(t, "revoke")
                 PROVE  NodeRevokes(t)
        BY DEF RevokesWithItsKey
    <2>1. job[t].kind = "unpublish"
        BY DEF At, RevokeInv, Choosing, KeyInv, LedgerInv, UnderWay
    <2> QED BY <2>1 DEF At, RevokeInv, KeyInv, PublishedUnderKeptKey, Exclusive, NodeRevokes
<1>3. KeyInv /\ RevokeInv /\ [PublisherNext]_publisherVars => RevokeInv'
    BY RevokeStep
<1> QED BY <1>1, <1>2, <1>3, PublisherInitially, KeyStep, PTL DEF PublisherSpec

\* What the node admitted is never replaced, and neither is the kept identity
\* where it is created by one operation at a time.
THEOREM NothingReplacedHolds == PublisherSpec => [][NothingReplaced]_publisherVars
<1>1. KeyInv /\ [PublisherNext]_publisherVars => NothingReplaced
    BY NothingIsReplaced
<1> QED BY <1>1, PublisherInitially, KeyStep, PTL DEF PublisherSpec

-----------------------------------------------------------------------------
(* The files of the device *)


Phases == {"none", "journal", "chunks"}
SomeObject == Objects \cup {NoObject}

DeviceTypes ==
    /\ journal \in [Objects -> [acknowledged : SUBSET Nat, complete : BOOLEAN,
                                there : BOOLEAN]]
    /\ activeObject \in [MobileTabs -> SomeObject]
    /\ ingest \in [MobileTabs -> [at : {"none", "read", "persisted"}, object : SomeObject]]
    /\ transfer \in [MobileTabs -> [at : Phases, object : SomeObject,
                                    acknowledged : SUBSET Nat, missing : SUBSET Nat]]
    /\ replicated \in [Objects -> SUBSET Nat]
    /\ \A o \in Objects : replicated[o] \subseteq ChunksIn(o)
    /\ \A p \in MobileTabs : ingest[p].at # "none" => ingest[p].object \in Objects
    /\ \A p \in MobileTabs : transfer[p].at # "none" => transfer[p].object \in Objects

\* What a transfer counts has reached the peer, and it misses the rest.
TransfersCount ==
    \A p \in MobileTabs :
        transfer[p].at = "chunks" /\ transfer[p].object \notin mixed =>
            /\ transfer[p].acknowledged \subseteq replicated[transfer[p].object]
            /\ ChunksIn(transfer[p].object)
                 \subseteq transfer[p].acknowledged \cup transfer[p].missing

FilesInv == DeviceTypes /\ TransfersCount /\ JournalCountsReplicated

-----------------------------------------------------------------------------
\* With an empty device there is nothing to acknowledge.
LEMMA FilesInitially == DeviceFilesInit => FilesInv
BY DeviceFilesAssumption DEF DeviceFilesInit, FilesInv, DeviceTypes, TransfersCount,
    JournalCountsReplicated, NoJournal, NoTransfer, NoIngest, Phases, SomeObject, ChunksIn

\* As many acknowledgements as a file has chunks are all of them.
LEMMA AllAreAcknowledged ==
    ASSUME NEW o \in Objects, NEW acknowledged, acknowledged \subseteq ChunksIn(o),
           AllAcknowledged(o, acknowledged)
    PROVE  acknowledged = ChunksIn(o)
<1>1. ChunkCount[o] \in Int /\ 1 \in Int /\ ChunkCount[o] >= 1
    BY DeviceFilesAssumption
<1>2. IsFiniteSet(ChunksIn(o)) /\ Cardinality(ChunksIn(o)) = ChunkCount[o]
  <2> DEFINE n == ChunkCount[o]
  <2>1. n \in Int /\ n >= 1
    BY <1>1
  <2> HIDE DEF n
  <2>2. IsFiniteSet(1 .. n) /\ Cardinality(1 .. n) = n - 1 + 1
    BY <1>1, <2>1, FS_Interval
  <2>3. ChunksIn(o) = 1 .. n
    BY DEF ChunksIn, n
  <2> QED
    BY <2>1, <2>2, <2>3 DEF n
<1> QED BY <1>2, FS_Subset DEF AllAcknowledged

\* Steps that touch neither a journal nor a transfer.
LEMMA OtherFilesStep ==
    ASSUME FilesInv, UNCHANGED <<journal, transfer, historyVars>>,
           activeObject' \in [MobileTabs -> SomeObject],
           ingest' \in [MobileTabs -> [at : {"none", "read", "persisted"}, object : SomeObject]],
           \A p \in MobileTabs : ingest'[p].at # "none" => ingest'[p].object \in Objects
    PROVE  FilesInv'
BY DEF FilesInv, DeviceTypes, TransfersCount, JournalCountsReplicated, historyVars

\* A journal that starts again, or goes, counts nothing.
LEMMA EmptyJournals ==
    ASSUME FilesInv,
           \A o \in Objects :
              \/ journal'[o] = journal[o]
              \/ journal'[o].acknowledged = {} /\ ~journal'[o].complete,
           journal' \in [Objects -> [acknowledged : SUBSET Nat, complete : BOOLEAN,
                                     there : BOOLEAN]],
           UNCHANGED <<activeObject, transfer, historyVars>>,
           ingest' \in [MobileTabs -> [at : {"none", "read", "persisted"}, object : SomeObject]],
           \A p \in MobileTabs : ingest'[p].at # "none" => ingest'[p].object \in Objects
    PROVE  FilesInv'
BY DEF FilesInv, DeviceTypes, TransfersCount, JournalCountsReplicated, historyVars

\* Forgetting an object takes its journal, and claims nothing of another.
LEMMA ForgetStep ==
    ASSUME FilesInv, NEW objects, Forget(objects),
           UNCHANGED <<activeObject, ingest, transfer, historyVars>>
    PROVE  FilesInv'
<1>1. journal' \in [Objects -> [acknowledged : SUBSET Nat, complete : BOOLEAN,
                                there : BOOLEAN]]
    BY DEF Forget, NoJournal, FilesInv, DeviceTypes
<1>2. \A o \in Objects :
          \/ journal'[o] = journal[o]
          \/ journal'[o].acknowledged = {} /\ ~journal'[o].complete
    BY DEF Forget, NoJournal
<1> QED BY <1>1, <1>2, EmptyJournals DEF FilesInv, DeviceTypes

-----------------------------------------------------------------------------
(* The transfer.                                                           *)

Journals == [acknowledged : SUBSET Nat, complete : BOOLEAN, there : BOOLEAN]
Transfers == [at : Phases, object : SomeObject, acknowledged : SUBSET Nat, missing : SUBSET Nat]

\* A transfer that begins counts nothing yet.
LEMMA SynchronizeStep ==
    ASSUME FilesInv, NEW p \in MobileTabs, Synchronize(p)
    PROVE  FilesInv'
<1> DEFINE t == [NoTransfer EXCEPT !.at = "journal", !.object = activeObject[p]]
<1>1. /\ t \in Transfers /\ t.at = "journal" /\ t.object \in Objects
      /\ transfer' = [transfer EXCEPT ![p] = t]
    BY DEF Synchronize, NoTransfer, Transfers, Phases, FilesInv, DeviceTypes, SomeObject
<1> HIDE DEF t
<1>2. transfer' \in [MobileTabs -> Transfers]
    BY <1>1 DEF FilesInv, DeviceTypes, Transfers
<1> QED BY <1>1, <1>2 DEF Synchronize, FilesInv, DeviceTypes, TransfersCount, Transfers,
        JournalCountsReplicated, storeVars, historyVars

\* A journal that is read for another object mixes both up.
LEMMA ReadJournalStep ==
    ASSUME FilesInv, NEW p \in MobileTabs, ReadJournal(p)
    PROVE  FilesInv'
<1> DEFINE o == transfer[p].object
           a == activeObject[p]
           acknowledged == journal[o].acknowledged
           missing == Unacknowledged(a, acknowledged)
<1>1. /\ o \in Objects /\ a \in Objects
      /\ acknowledged \in SUBSET Nat /\ missing \in SUBSET Nat
      /\ mixed \subseteq mixed' /\ (a # o => o \in mixed')
      /\ a = o => ChunksIn(o) \subseteq acknowledged \cup missing
    BY DEF ReadJournal, Mixes, Unacknowledged, ChunksIn, FilesInv, DeviceTypes, SomeObject
<1>2. o \notin mixed => acknowledged \subseteq replicated[o]
    BY <1>1 DEF FilesInv, JournalCountsReplicated
<1> HIDE DEF missing, acknowledged
<1>3. transfer' = [transfer EXCEPT ![p].at = "chunks", ![p].acknowledged = acknowledged,
                                   ![p].missing = missing]
    BY DEF ReadJournal, missing, acknowledged
<1>4. transfer \in [MobileTabs -> Transfers]
    BY DEF FilesInv, DeviceTypes, Transfers
<1> DEFINE next == [transfer[p] EXCEPT !.at = "chunks", !.acknowledged = acknowledged,
                                       !.missing = missing]
<1>4a. next \in Transfers
    BY <1>1, <1>4 DEF Transfers, Phases
<1>4b. transfer' = [transfer EXCEPT ![p] = next]
    BY <1>3, <1>4 DEF Transfers
<1>5. transfer' \in [MobileTabs -> Transfers]
    <2> HIDE DEF next
    <2> QED BY <1>4, <1>4a, <1>4b
<1>6. /\ transfer'[p].object = o /\ transfer'[p].acknowledged = acknowledged
      /\ transfer'[p].missing = missing
      /\ \A q \in MobileTabs \ {p} : transfer'[q] = transfer[q]
    BY <1>3, <1>4 DEF Transfers
<1>7. TransfersCount'
    <2>1. /\ o \notin mixed' => acknowledged \subseteq replicated'[o]
          /\ activeObject' = activeObject
          /\ \A q \in MobileTabs : transfer[q].object \notin mixed' =>
                 transfer[q].object \notin mixed
          /\ replicated' = replicated
        BY <1>1, <1>2 DEF ReadJournal, storeVars
    <2> QED BY <1>1, <1>6, <2>1 DEF FilesInv, TransfersCount
<1>8. DeviceTypes'
    BY <1>1, <1>5, <1>6 DEF ReadJournal, FilesInv, DeviceTypes, Transfers, storeVars
<1>9. JournalCountsReplicated'
    BY <1>1 DEF ReadJournal, FilesInv, JournalCountsReplicated, storeVars
<1> QED BY <1>7, <1>8, <1>9 DEF FilesInv

\* The journal of the active object takes an acknowledgement the peer gave.
LEMMA AcknowledgeStep ==
    ASSUME FilesInv, NEW p \in MobileTabs, NEW interrupted \in BOOLEAN,
           AcknowledgeChunk(p, interrupted)
    PROVE  FilesInv'
<1> DEFINE o == activeObject[p]
           chunk == NextMissing(p)
           acknowledged == transfer[p].acknowledged \cup {chunk}
           complete == AllAcknowledged(o, acknowledged)
           t == IF interrupted THEN NoTransfer
                ELSE [transfer[p] EXCEPT !.acknowledged = acknowledged,
                                         !.missing = @ \ {chunk}]
<1>1. /\ o \in Objects /\ chunk \in ChunksIn(o) /\ chunk \in Nat
      /\ transfer[p] \in Transfers /\ acknowledged \in SUBSET Nat /\ complete \in BOOLEAN
      /\ mixed' = Mixes(p) /\ mixed \subseteq mixed'
      /\ transfer[p].object # o => {o, transfer[p].object} \subseteq mixed'
    BY DEF AcknowledgeChunk, PersistJournal, Mixes, ChunksIn, AllAcknowledged, FilesInv,
        DeviceTypes, SomeObject, Transfers
<1>2. /\ replicated' = [replicated EXCEPT ![o] = replicated[o] \cup {chunk}]
      /\ journal' = [journal EXCEPT ![o] = Journal(acknowledged, complete)]
    BY <1>1 DEF AcknowledgeChunk, PersistJournal
<1>3. transfer' = [transfer EXCEPT ![p] = t]
    BY <1>1 DEF AcknowledgeChunk, TransferStops, FilesInv, DeviceTypes, Transfers
<1>4. /\ t \in Transfers
      /\ t.at = "chunks" => /\ transfer[p].at = "chunks" /\ t.object = transfer[p].object
                            /\ t.acknowledged = acknowledged
                            /\ t.missing = transfer[p].missing \ {chunk}
      /\ t.at \in {"none", "chunks"} /\ (t.at # "none" => t.object \in Objects)
    BY <1>1 DEF AcknowledgeChunk, NoTransfer, Transfers, Phases, SomeObject, FilesInv,
        DeviceTypes
<1> HIDE DEF t, complete
<1>5. /\ replicated' \in [Objects -> SUBSET Nat]
      /\ \A x \in Objects : /\ replicated[x] \subseteq replicated'[x]
                            /\ replicated'[x] \subseteq ChunksIn(x)
      /\ chunk \in replicated'[o]
    BY <1>1, <1>2 DEF FilesInv, DeviceTypes
<1>6. /\ journal' \in [Objects -> Journals]
      /\ journal'[o].acknowledged = acknowledged /\ journal'[o].complete = complete
      /\ \A x \in Objects \ {o} : journal'[x] = journal[x] /\ replicated'[x] = replicated[x]
    BY <1>1, <1>2 DEF FilesInv, DeviceTypes, Journals, Journal
<1>7. DeviceTypes'
    <2>1. transfer' \in [MobileTabs -> Transfers]
        BY <1>3, <1>4 DEF FilesInv, DeviceTypes, Transfers
    <2>2. \A q \in MobileTabs : transfer'[q].at # "none" => transfer'[q].object \in Objects
        BY <1>3, <1>4 DEF FilesInv, DeviceTypes
    <2> QED BY <1>5, <1>6, <2>1, <2>2 DEF AcknowledgeChunk, FilesInv, DeviceTypes,
            Transfers, Journals
<1>8. o \notin mixed' => /\ o = transfer[p].object /\ acknowledged \subseteq replicated'[o]
    BY <1>1, <1>5 DEF AcknowledgeChunk, FilesInv, TransfersCount
<1>9. TransfersCount'
    <2> SUFFICES ASSUME NEW q \in MobileTabs, transfer'[q].at = "chunks",
                        transfer'[q].object \notin mixed'
                 PROVE  /\ transfer'[q].acknowledged \subseteq replicated'[transfer'[q].object]
                        /\ ChunksIn(transfer'[q].object)
                             \subseteq transfer'[q].acknowledged \cup transfer'[q].missing
        BY DEF TransfersCount
    <2>1. CASE q # p
        <3>1. transfer'[q] = transfer[q] /\ transfer[q].object \in Objects
            BY <1>3, <2>1 DEF FilesInv, DeviceTypes
        <3> QED BY <1>1, <1>5, <3>1 DEF FilesInv, TransfersCount
    <2>2. CASE q = p
        <3>1. transfer'[p] = t
            BY <1>3 DEF FilesInv, DeviceTypes
        <3>2. o = transfer[p].object /\ o \notin mixed'
            BY <1>1, <1>4, <2>2, <3>1
        <3>3. ChunksIn(o) \subseteq transfer[p].acknowledged \cup transfer[p].missing
            BY <1>1, <1>4, <2>2, <3>1, <3>2 DEF FilesInv, TransfersCount
        <3> QED BY <1>4, <1>8, <2>2, <3>1, <3>2, <3>3
    <2> QED BY <2>1, <2>2
<1>10. JournalCountsReplicated'
    <2> SUFFICES ASSUME NEW x \in Objects \ mixed'
                 PROVE  /\ journal'[x].acknowledged \subseteq replicated'[x]
                        /\ journal'[x].complete => replicated'[x] = ChunksIn(x)
        BY DEF JournalCountsReplicated
    <2>1. CASE x # o
        BY <1>1, <1>6, <2>1 DEF FilesInv, JournalCountsReplicated
    <2>2. CASE x = o
        <3>1. acknowledged \subseteq replicated'[o] /\ replicated'[o] \subseteq ChunksIn(o)
            BY <1>5, <1>8, <2>2
        <3>2. complete => acknowledged = ChunksIn(o)
            BY <1>1, <3>1, AllAreAcknowledged DEF complete
        <3> QED BY <1>6, <2>2, <3>1, <3>2
    <2> QED BY <2>1, <2>2
<1> QED BY <1>7, <1>9, <1>10 DEF FilesInv

\* A transfer that misses nothing has counted every chunk.
LEMMA ConvergeStep ==
    ASSUME FilesInv, NEW p \in MobileTabs, Converge(p)
    PROVE  FilesInv'
<1> DEFINE o == activeObject[p]
           acknowledged == transfer[p].acknowledged
<1>1. /\ o \in Objects /\ transfer[p] \in Transfers /\ acknowledged \in SUBSET Nat
      /\ mixed \subseteq mixed'
      /\ transfer[p].object # o => o \in mixed'
      /\ journal' = [journal EXCEPT ![o] = Journal(acknowledged, TRUE)]
    BY DEF Converge, PersistJournal, Mixes, FilesInv, DeviceTypes, SomeObject, Transfers
<1>2. transfer' = [transfer EXCEPT ![p] = NoTransfer] /\ replicated' = replicated
    BY DEF Converge, TransferStops
<1>3. /\ NoTransfer \in Transfers /\ NoTransfer.at = "none"
    BY DEF NoTransfer, Transfers, Phases, SomeObject
<1>4. transfer' \in [MobileTabs -> Transfers] /\ transfer'[p].at = "none"
      /\ \A q \in MobileTabs \ {p} : transfer'[q] = transfer[q]
    BY <1>2, <1>3 DEF FilesInv, DeviceTypes, Transfers
<1>5. /\ journal' \in [Objects -> Journals]
      /\ journal'[o].acknowledged = acknowledged
      /\ \A x \in Objects \ {o} : journal'[x] = journal[x]
    BY <1>1 DEF FilesInv, DeviceTypes, Journals, Journal
<1>6. o \notin mixed' => acknowledged \subseteq replicated[o] /\ replicated[o] = ChunksIn(o)
    <2> SUFFICES ASSUME o \notin mixed'
                 PROVE  acknowledged \subseteq replicated[o] /\ replicated[o] = ChunksIn(o)
        OBVIOUS
    <2>1. /\ acknowledged \subseteq replicated[o]
          /\ ChunksIn(o) \subseteq acknowledged \cup transfer[p].missing
        BY <1>1 DEF Converge, FilesInv, TransfersCount
    <2>2. transfer[p].missing = {} /\ replicated[o] \subseteq ChunksIn(o)
        BY <1>1 DEF Converge, FilesInv, DeviceTypes
    <2> QED BY <2>1, <2>2
<1>7. DeviceTypes'
    BY <1>2, <1>4, <1>5 DEF Converge, FilesInv, DeviceTypes, Transfers, Journals
<1>8. TransfersCount'
    BY <1>1, <1>2, <1>4 DEF FilesInv, TransfersCount
<1>9. JournalCountsReplicated'
    BY <1>1, <1>2, <1>5, <1>6 DEF FilesInv, JournalCountsReplicated
<1> QED BY <1>7, <1>8, <1>9 DEF FilesInv

\* An interrupted transfer leaves the journal it wrote last.
LEMMA ThrowsStep ==
    ASSUME FilesInv, NEW p \in MobileTabs, TransferThrows(p)
    PROVE  FilesInv'
<1>1. NoTransfer \in Transfers /\ NoTransfer.at = "none"
    BY DEF NoTransfer, Transfers, Phases, SomeObject
<1>2. transfer' \in [MobileTabs -> Transfers] /\ transfer'[p].at = "none"
      /\ \A q \in MobileTabs \ {p} : transfer'[q] = transfer[q]
    BY <1>1 DEF TransferThrows, FilesInv, DeviceTypes, Transfers
<1>3. DeviceTypes'
    BY <1>2 DEF TransferThrows, FilesInv, DeviceTypes, Transfers, storeVars, historyVars
<1>4. TransfersCount'
    BY <1>2 DEF TransferThrows, FilesInv, TransfersCount, historyVars
<1> QED BY <1>3, <1>4 DEF TransferThrows, FilesInv, JournalCountsReplicated, storeVars,
        historyVars

-----------------------------------------------------------------------------
\* Every handler of every tab keeps journals and transfers counting only what
\* the peer has.
LEMMA FilesStep == FilesInv /\ [DeviceFilesNext]_deviceFilesVars => FilesInv'
<1> SUFFICES ASSUME FilesInv, [DeviceFilesNext]_deviceFilesVars PROVE FilesInv'
    OBVIOUS
<1> DEFINE Ingests == [at : {"none", "read", "persisted"}, object : SomeObject]
<1>0. /\ activeObject \in [MobileTabs -> SomeObject] /\ ingest \in [MobileTabs -> Ingests]
      /\ \A p \in MobileTabs : ingest[p].at # "none" => ingest[p].object \in Objects
    BY DEF FilesInv, DeviceTypes
<1>1. ASSUME NEW p \in MobileTabs, NEW o \in Objects, IngestFile(p, o) PROVE FilesInv'
    <2>1. /\ ingest' \in [MobileTabs -> Ingests]
          /\ \A q \in MobileTabs : ingest'[q].at # "none" => ingest'[q].object \in Objects
        BY <1>0, <1>1 DEF IngestFile, SomeObject
    <2> QED BY <1>0, <1>1, <2>1, OtherFilesStep DEF IngestFile, storeVars
<1>2. ASSUME NEW p \in MobileTabs, PersistPersonalObject(p) PROVE FilesInv'
    <2>1. /\ ingest' \in [MobileTabs -> Ingests]
          /\ \A q \in MobileTabs : ingest'[q].at # "none" => ingest'[q].object \in Objects
        BY <1>0, <1>2 DEF PersistPersonalObject
    <2>2. /\ journal' \in [Objects -> [acknowledged : SUBSET Nat, complete : BOOLEAN,
                                       there : BOOLEAN]]
          /\ \A o \in Objects :
                \/ journal'[o] = journal[o]
                \/ journal'[o].acknowledged = {} /\ ~journal'[o].complete
        BY <1>2 DEF PersistPersonalObject, Journal, FilesInv, DeviceTypes
    <2> QED BY <1>2, <2>1, <2>2, EmptyJournals DEF PersistPersonalObject
<1>3. ASSUME NEW p \in MobileTabs, ObjectAdmitted(p) PROVE FilesInv'
    <2>1. activeObject' \in [MobileTabs -> SomeObject]
        BY <1>0, <1>3 DEF ObjectAdmitted, SomeObject
    <2>2. /\ ingest' \in [MobileTabs -> Ingests]
          /\ \A q \in MobileTabs : ingest'[q].at # "none" => ingest'[q].object \in Objects
        BY <1>0, <1>3 DEF ObjectAdmitted, NoIngest, SomeObject
    <2> QED BY <1>3, <2>1, <2>2, OtherFilesStep DEF ObjectAdmitted, storeVars
<1>4. ASSUME NEW p \in MobileTabs, IngestFails(p) PROVE FilesInv'
    <2>1. /\ ingest' \in [MobileTabs -> Ingests]
          /\ \A q \in MobileTabs : ingest'[q].at # "none" => ingest'[q].object \in Objects
        BY <1>0, <1>4 DEF IngestFails, NoIngest, SomeObject
    <2> QED BY <1>0, <1>4, <2>1, OtherFilesStep DEF IngestFails, storeVars
<1>5. ASSUME NEW p \in MobileTabs,
             \/ Synchronize(p) \/ ReadJournal(p) \/ Converge(p) \/ TransferThrows(p)
             \/ \E interrupted \in BOOLEAN : AcknowledgeChunk(p, interrupted)
      PROVE  FilesInv'
    BY <1>5, SynchronizeStep, ReadJournalStep, AcknowledgeStep, ConvergeStep, ThrowsStep
<1>6. ASSUME NEW p \in MobileTabs,
             DeleteActiveObject(p) \/ ClearAllObjects(p) \/ DeletionFails(p)
      PROVE  FilesInv'
    BY <1>0, <1>6, OtherFilesStep
    DEF DeleteActiveObject, ClearAllObjects, DeletionFails, storeVars
<1>7. ASSUME NEW p \in MobileTabs, DeletePersonalObject(p) PROVE FilesInv'
    BY <1>7, ForgetStep DEF DeletePersonalObject
<1>8. ASSUME NEW p \in MobileTabs, NEW o \in Objects \cup {NoObject}, ShowListed(p, o)
      PROVE  FilesInv'
    <2>1. activeObject' \in [MobileTabs -> SomeObject]
        BY <1>0, <1>8 DEF ShowListed, SomeObject
    <2> QED BY <1>0, <1>8, <2>1, OtherFilesStep DEF ShowListed, storeVars
<1>9. ASSUME NEW o \in Objects, RemoveObject(o) PROVE FilesInv'
    BY <1>9, ForgetStep DEF RemoveObject
<1>10. CASE ClearAll
    BY <1>10, ForgetStep DEF ClearAll
<1>11. CASE UNCHANGED deviceFilesVars
    BY <1>0, <1>11, OtherFilesStep DEF deviceFilesVars, storeVars
<1> QED BY <1>1, <1>2, <1>3, <1>4, <1>5, <1>6, <1>7, <1>8, <1>9, <1>10, <1>11
        DEF DeviceFilesNext

\* JournalCountsReplicated: an interrupted transfer resumes from a journal that
\* names only what the peer has, and calls a file complete when it has it all.
THEOREM JournalCountsReplicatedHolds == DeviceFilesSpec => []JournalCountsReplicated
<1>1. FilesInv => JournalCountsReplicated
    BY DEF FilesInv
<1> QED BY <1>1, FilesInitially, FilesStep, PTL DEF DeviceFilesSpec
=============================================================================
