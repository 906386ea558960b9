----------------------------- MODULE Publisher -----------------------------
(***************************************************************************)
(* The browser side of the Object Weave: weave-client.ts (the publisher    *)
(* identity, signed publication and revocation, the Personal Weave kept in *)
(* IndexedDB and in the origin private file system) and the handlers of    *)
(* main.ts and personal-weave.ts that call it.                             *)
(*                                                                         *)
(* Every button starts an asynchronous operation, a task.  A task belongs  *)
(* to a page (a tab); tasks of one page share its variables and tasks of   *)
(* every page share the device: the database, the files and the Web Lock.  *)
(* One action is the code between two awaits.  A call of the node may fail *)
(* before or after the node acted; its answer may be the answer to another *)
(* call, or none.                                                          *)
(***************************************************************************)
EXTENDS Naturals

CONSTANTS
    Tasks, Tabs,       \* operations in flight, and the tabs that run them
    Artifacts,          \* verified constructions, named by their digest
    Keys,               \* identities generateKey may return
    Nonces,             \* one per signed intent; bounds the publications
    Chunks,             \* chunk indexes of an artifact
    Nothing

ASSUME PublisherAssumption ==
    Nothing \notin Nonces \cup Keys
                    \cup [artifact : Artifacts, key : Keys, nonce : Nonces]

Attempts == 3

VARIABLES
    tab,           \* the tab of each task
    locks,          \* whether navigator.locks exists
    publisherKey,   \* IDENTITY_STORE: the stored key, or Nothing
    keyHolder,      \* tasks that are inside loadOrCreatePublisherIdentity
    retained,       \* OBJECT_STORE: Nothing, or the record of an artifact
    stored,         \* artifacts whose bytes are in the file system
    listed,         \* publications that the list of some page may show
    published,      \* the node: nonce -> the intent it admitted, or Nothing
    withdrawn,      \* the node: publications it revoked
    job

deviceVars == <<publisherKey, retained, stored, listed>>
nodeVars == <<published, withdrawn>>
publisherVars ==
    <<tab, locks, deviceVars, keyHolder, nodeVars, job>>

NoTask == [kind |-> "idle", pc |-> "idle", artifact |-> Nothing,
         key |-> Nothing, nonce |-> Nothing, missing |-> {},
         chunk |-> Nothing, attempt |-> 0, seen |-> Nothing]

\* A record of the Personal Weave: it may name a publication.
Private == [publication |-> Nothing]
Public(n) == [publication |-> n]

At(t, pc) == job[t].pc = pc
Goto(t, pc) == job' = [job EXCEPT ![t].pc = pc]

\* Random values differ from every earlier one; which one is drawn does not
\* matter.
Fresh(values) == CHOOSE v \in values : TRUE
Unused == {n \in Nonces : published[n] = Nothing
                          /\ \A t \in Tasks : job[t].nonce # n}

PublisherInit ==
    /\ tab \in [Tasks -> Tabs]
    /\ locks \in BOOLEAN
    /\ publisherKey = Nothing
    /\ keyHolder = {}
    /\ retained = [a \in Artifacts |-> Nothing]
    /\ stored = {}
    /\ listed = {}
    /\ published = [n \in Nonces |-> Nothing]
    /\ withdrawn = {}
    /\ job = [t \in Tasks |-> NoTask]

-----------------------------------------------------------------------------
(* The buttons of the page.                                                *)

Start(t, kind, pc, a) ==
    /\ At(t, "idle")
    /\ job' = [job EXCEPT ![t] = [NoTask EXCEPT !.kind = kind, !.pc = pc,
                                                !.artifact = a]]

\* The awaits that throw once the signal has fired: the dialog was closed, or
\* another publication began.  A signal that fires earlier acts here.
Signalled == {"hashing", "admission", "status", "chunk", "commit"}

Settle(t) == job' = [job EXCEPT ![t] = NoTask]

\* publishActiveObject fixes the file and the metadata of the form.
PublishActiveObject(t, a) ==
    /\ Start(t, "publish", "policy", a)
    /\ UNCHANGED <<tab, locks, deviceVars, keyHolder, nodeVars>>

KeepActiveObject(t, a) ==
    /\ Start(t, "keep", "bytes", a)
    /\ UNCHANGED <<tab, locks, deviceVars, keyHolder, nodeVars>>

-----------------------------------------------------------------------------
(* The publisher identity.                                                 *)

\* One operation at a time where the browser has Web Locks; otherwise the
\* tasks of one page share one promise and other pages are not excluded.
MayAlwaysLoad(t) == t \in Tasks     \* fault: no lock around the identity
MayLoadIdentity(t) ==
    \A u \in keyHolder : ~locks /\ tab[u] # tab[t]

AfterIdentity(t) ==
    IF job[t].kind = "publish" THEN "hashing" ELSE "revoke"

\* The retained identity is used as it is read.  (An extractable key is first
\* replaced by a non-extractable form of the same key.)
LoadIdentity(t) ==
    /\ At(t, "identity") /\ MayLoadIdentity(t)
    /\ publisherKey # Nothing
    /\ job' = [job EXCEPT ![t].key = publisherKey, ![t].pc = AfterIdentity(t)]
    /\ UNCHANGED <<tab, locks, deviceVars, keyHolder, nodeVars>>

FindNoIdentity(t) ==
    /\ At(t, "identity") /\ MayLoadIdentity(t)
    /\ publisherKey = Nothing
    /\ keyHolder' = keyHolder \cup {t}
    /\ Goto(t, "generate")
    /\ UNCHANGED <<tab, locks, deviceVars, nodeVars>>

\* Nothing was stored when the task looked: it makes a key and writes it.
CreateIdentity(t) ==
    /\ At(t, "generate") /\ Keys \ {publisherKey} # {}
    /\ publisherKey' = Fresh(Keys \ {publisherKey})
    /\ keyHolder' = keyHolder \ {t}
    /\ job' = [job EXCEPT ![t].key = publisherKey', ![t].pc = AfterIdentity(t)]
    /\ UNCHANGED <<tab, locks, retained, stored, listed, nodeVars>>

\* The database cannot be read or written, the retained identity is malformed,
\* or the browser has no Ed25519: nothing is kept.
IdentityFails(t) ==
    /\ job[t].pc \in {"identity", "generate"}
    /\ job[t].pc = "identity" => MayLoadIdentity(t)
    /\ keyHolder' = keyHolder \ {t}
    /\ Settle(t)
    /\ UNCHANGED <<tab, locks, deviceVars, nodeVars>>

-----------------------------------------------------------------------------
(* Publication: publishArtifact.                                           *)

\* A rejected publication: an unusable answer, a failed call or an abort; for a
\* chunk, an abort or the failure of its last attempt.
PublishFails(t) ==
    /\ job[t].pc \in Signalled \cup {"policy"}
    /\ Settle(t)
    /\ UNCHANGED <<tab, locks, deviceVars, keyHolder, nodeVars>>

\* Every limit of the node is positive, the node promises immutable content
\* and revocable discovery, it admits this kind of artifact and its size.
UsablePolicy(policy) ==
    /\ policy.limits > 0
    /\ {"immutable_content_identity", "revocable_discovery"} \subseteq policy.promises

Policies == [limits : {0, 1},
             promises : SUBSET {"immutable_content_identity", "revocable_discovery"},
             admits : BOOLEAN]

Admitted(policy) == UsablePolicy(policy) /\ policy.admits

FetchWeavePolicy(t, policy) ==
    /\ At(t, "policy") /\ Admitted(policy)
    /\ Goto(t, "identity")
    /\ UNCHANGED <<tab, locks, deviceVars, keyHolder, nodeVars>>

\* The digest is computed window by window; then the intent is signed over
\* the artifact and a fresh nonce with the key the task holds.
HashAndSign(t) ==
    /\ At(t, "hashing")
    /\ Unused # {}
    /\ job' = [job EXCEPT ![t].pc = "admission", ![t].nonce = Fresh(Unused)]
    /\ UNCHANGED <<tab, locks, deviceVars, keyHolder, nodeVars>>

Intent(t) == [artifact |-> job[t].artifact, key |-> job[t].key,
              nonce |-> job[t].nonce]

\* Field by field equality, so that an answer about another signed intent
\* is refused even for the same artifact.
SameIntent(left, right) ==
    \A f \in {"artifact", "key", "nonce"} : left[f] = right[f]

Sessions(t) ==
    [intent : {Intent(t), [Intent(t) EXCEPT !.nonce = Nothing]},
     chunks : {Chunks, {}}]

ValidUploadSession(session, intent) ==
    /\ session.chunks # {} /\ session.chunks = Chunks
    /\ SameIntent(session.intent, intent)

BeginUpload(t, session) ==
    /\ At(t, "admission") /\ ValidUploadSession(session, Intent(t))
    /\ Goto(t, "status")
    /\ UNCHANGED <<tab, locks, deviceVars, keyHolder, nodeVars>>

Statuses == [received : SUBSET Chunks, missing : SUBSET Chunks, ready : BOOLEAN]

\* The two lists are disjoint, name every chunk, and agree with the flag.
ValidUploadStatus(status) ==
    /\ status.received \cap status.missing = {}
    /\ status.received \cup status.missing = Chunks
    /\ status.ready = (status.missing = {})

NextChunk(missing) ==
    IF missing = {} THEN Nothing ELSE CHOOSE c \in missing : TRUE
AfterChunks(missing) == IF missing = {} THEN "commit" ELSE "chunk"

ReadUploadStatus(t, status) ==
    /\ At(t, "status") /\ ValidUploadStatus(status)
    /\ job' = [job EXCEPT ![t].missing = status.missing,
                            ![t].attempt = 0,
                            ![t].chunk = NextChunk(status.missing),
                            ![t].pc = AfterChunks(status.missing)]
    /\ UNCHANGED <<tab, locks, deviceVars, keyHolder, nodeVars>>

\* The PUT of one chunk.  The node acknowledges it in a valid status that
\* lists it, and the loop goes on to the next missing chunk.
PutChunk(t, status) ==
    /\ At(t, "chunk")
    /\ ValidUploadStatus(status) /\ job[t].chunk \in status.received
    /\ LET left == job[t].missing \ {job[t].chunk} IN
       job' = [job EXCEPT ![t].missing = left,
                            ![t].attempt = 0,
                            ![t].chunk = NextChunk(left),
                            ![t].pc = AfterChunks(left)]
    /\ UNCHANGED <<tab, locks, deviceVars, keyHolder, nodeVars>>

\* Anything else is an error of this attempt.  The last one is thrown.
RetryChunk(t) ==
    /\ At(t, "chunk")
    /\ job[t].attempt < Attempts - 1
    /\ job' = [job EXCEPT ![t].attempt = @ + 1]
    /\ UNCHANGED <<tab, locks, deviceVars, keyHolder, nodeVars>>

\* The node admits the intent.  Its answer may be lost, and an answer may
\* be the receipt of another publication, of this device or of none it knows.
NodePublishes(t) ==
    published' = [published EXCEPT ![job[t].nonce] = Intent(t)]

Receipts(t) == {[intent |-> published[n], bound |-> b] :
                  n \in {m \in Nonces : published[m] # Nothing}, b \in BOOLEAN}
               \cup {[intent |-> [Intent(t) EXCEPT !.nonce = n], bound |-> b] :
                        n \in Nonces, b \in BOOLEAN}

\* The receipt repeats the intent and names the artifact URL, the cell and
\* the Rootprint branch that were verified on this device.  The id that the node
\* gives the publication follows from its intent; nothing else is checked of it.
ReceiptIsBound(receipt, intent) ==    \* fault: the intent is not compared
    receipt.bound /\ intent.nonce # Nothing
ValidPublicationReceipt(receipt, intent) ==
    receipt.bound /\ SameIntent(receipt.intent, intent)

CommitUpload(t, receipt) ==
    /\ At(t, "commit")
    /\ NodePublishes(t)
    /\ ValidPublicationReceipt(receipt, Intent(t))
    /\ job' = [job EXCEPT ![t] =
                  [NoTask EXCEPT !.kind = "publish", !.pc = "bytes",
                               !.artifact = job[t].artifact,
                               !.nonce = receipt.intent.nonce]]
    /\ UNCHANGED <<tab, locks, deviceVars, keyHolder, withdrawn>>

\* The commit is not retried: a lost or unusable answer is a rejection, and
\* the construction is public without this device knowing it.
CommitUnanswered(t) ==
    /\ At(t, "commit")
    /\ NodePublishes(t)
    /\ Settle(t)
    /\ UNCHANGED <<tab, locks, deviceVars, keyHolder, withdrawn>>

-----------------------------------------------------------------------------
(* The Personal Weave on the device.                                       *)

\* saveToPersonalWeave: the bytes first, then a record without publication.
SaveBytes(t) ==
    /\ At(t, "bytes")
    /\ stored' = stored \cup {job[t].artifact}
    /\ Goto(t, "record")
    /\ UNCHANGED <<tab, locks, publisherKey, retained, listed, keyHolder, nodeVars>>

SaveRecord(t) ==
    /\ At(t, "record")
    /\ retained' = [retained EXCEPT ![job[t].artifact] = Private]
    /\ IF job[t].kind = "publish" THEN Goto(t, "read") ELSE Settle(t)
    /\ UNCHANGED <<tab, locks, publisherKey, stored, listed, keyHolder, nodeVars>>

\* The origin refuses or loses the write: quota, private mode, eviction.
SaveFails(t) ==
    /\ job[t].pc \in {"bytes", "record"}
    /\ Settle(t)
    /\ UNCHANGED <<tab, locks, deviceVars, keyHolder, nodeVars>>

\* markPersonalObjectPublished and markPersonalObjectUnpublished read the
\* record in one transaction and write the changed copy in another.
ReadRecord(t) ==
    /\ At(t, "read")
    /\ job' = [job EXCEPT ![t].seen = retained[job[t].artifact],
                            ![t].pc = "mark"]
    /\ UNCHANGED <<tab, locks, deviceVars, keyHolder, nodeVars>>

MarkRecord(t, record) ==
    /\ retained' = IF job[t].seen = Nothing THEN retained
                   ELSE [retained EXCEPT ![job[t].artifact] = record]
    /\ listed' = IF job[t].seen = Nothing \/ record = Private THEN listed
                 ELSE listed \cup {record.publication}

MarkPublished(t) ==
    /\ At(t, "mark") /\ job[t].kind = "publish"
    /\ MarkRecord(t, Public(job[t].nonce))
    /\ Settle(t)
    /\ UNCHANGED <<tab, locks, publisherKey, stored, keyHolder, nodeVars>>

MarkUnpublished(t) ==
    /\ At(t, "mark") /\ job[t].kind = "unpublish"
    /\ MarkRecord(t, Private)
    /\ Settle(t)
    /\ UNCHANGED <<tab, locks, publisherKey, stored, keyHolder, nodeVars>>

\* populatePersonalObjects: an entry with a publication offers to unpublish
\* it.  A page reads the records when it opens and when it adds to them, so its
\* entry may be older than the record.
Entries(a) == {n \in listed : published[n].artifact = a}

UnpublishPersonalWeaveEntry(t, a) ==
    /\ At(t, "idle")
    /\ \E n \in Entries(a) :
         job' = [job EXCEPT ![t] =
                    [NoTask EXCEPT !.kind = "unpublish", !.pc = "identity",
                                 !.artifact = a, !.nonce = n]]
    /\ UNCHANGED <<tab, locks, deviceVars, keyHolder, nodeVars>>

\* The node revokes only what the signing key published, and repeats its
\* answer for a publication it has already revoked.
NodeRevokes(t) == published[job[t].nonce].key = job[t].key

RevokePublication(t) ==
    /\ At(t, "revoke") /\ NodeRevokes(t)
    /\ withdrawn' = withdrawn \cup {job[t].nonce}
    /\ Goto(t, "read")
    /\ UNCHANGED <<tab, locks, deviceVars, keyHolder, published>>

\* A refused call, or one whose answer is lost after the node revoked.
RevocationFails(t) ==
    /\ At(t, "revoke")
    /\ \/ withdrawn' = withdrawn
       \/ NodeRevokes(t) /\ withdrawn' = withdrawn \cup {job[t].nonce}
    /\ Settle(t)
    /\ UNCHANGED <<tab, locks, deviceVars, keyHolder, published>>

\* removePersonalObject: the record first, then the bytes, whose absence is
\* not an error.
RemovePersonalObject(t, a) ==
    /\ retained[a] # Nothing
    /\ retained' = [retained EXCEPT ![a] = Nothing]
    /\ Start(t, "remove", "unlink", a)
    /\ UNCHANGED <<tab, locks, publisherKey, stored, listed, keyHolder, nodeVars>>

RemoveBytes(t) ==
    /\ At(t, "unlink")
    /\ stored' = stored \ {job[t].artifact}
    /\ Settle(t)
    /\ UNCHANGED <<tab, locks, publisherKey, retained, listed, keyHolder, nodeVars>>

-----------------------------------------------------------------------------
NodeCalls(t) ==
    \E a \in Artifacts :
        \/ PublishActiveObject(t, a)
        \/ KeepActiveObject(t, a)
        \/ UnpublishPersonalWeaveEntry(t, a)
        \/ RemovePersonalObject(t, a)

PublishSteps(t) ==
    \/ PublishFails(t)
    \/ \E policy \in Policies : FetchWeavePolicy(t, policy)
    \/ HashAndSign(t)
    \/ \E session \in Sessions(t) : BeginUpload(t, session)
    \/ \E status \in Statuses : ReadUploadStatus(t, status) \/ PutChunk(t, status)
    \/ RetryChunk(t)
    \/ \E receipt \in Receipts(t) : CommitUpload(t, receipt)
    \/ CommitUnanswered(t)

IdentitySteps(t) ==
    \/ LoadIdentity(t)
    \/ FindNoIdentity(t)
    \/ CreateIdentity(t)
    \/ IdentityFails(t)

DeviceSteps(t) ==
    \/ SaveBytes(t)
    \/ SaveRecord(t)
    \/ SaveFails(t)
    \/ ReadRecord(t)
    \/ MarkPublished(t)
    \/ MarkUnpublished(t)
    \/ RevokePublication(t)
    \/ RevocationFails(t)
    \/ RemoveBytes(t)

\* What happens without the user: the code goes on, the network answers or
\* fails.
Runs(t) == PublishSteps(t) \/ IdentitySteps(t) \/ DeviceSteps(t)

PublisherNext ==
    \E t \in Tasks : NodeCalls(t) \/ Runs(t)

PublisherSpec == PublisherInit /\ [][PublisherNext]_publisherVars

-----------------------------------------------------------------------------
(* What the publisher promises.                                            *)

\* Revoking a publication takes the key that signed it.  Where operations
\* that may create the identity exclude each other, by a Web Lock or by the
\* promise the tasks of one page share, everything this device published is
\* under the key it kept (publisherIdentity, loadOrCreatePublisherIdentity).
PublishedUnderKeptKey ==
    locks \/ (\A t, u \in Tasks : tab[t] = tab[u]) =>
        \A n \in Nonces :
            published[n] # Nothing => published[n].key = publisherKey

\* The publication a record of the Personal Weave names is one the node
\* admitted for exactly that artifact, through lost and foreign answers and
\* through overlapping keeps, removals and marks of other tasks.
RecordedPublicationIsOfArtifact ==
    \A a \in Artifacts :
        retained[a] # Nothing /\ retained[a].publication # Nothing =>
            /\ published[retained[a].publication] # Nothing
            /\ published[retained[a].publication].artifact = a

=============================================================================
