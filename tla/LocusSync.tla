------------------------------ MODULE LocusSync ------------------------------
(***************************************************************************)
(* A peer that receives signed Loci and installs them: receive_sync_packet *)
(* and install_locus (crates/tessaryn-sync), CellStore (tessaryn-store),   *)
(* the RevocationRegistry (tessaryn-privacy) and the expiry of witness     *)
(* receipts (tessaryn-witness).                                            *)
(*                                                                         *)
(* The network may deliver any packet that was ever made, at any time, in  *)
(* any order, any number of times or never.  The application around the    *)
(* library keeps the SyncState in memory, installs the Loci it is given    *)
(* with several calls at once, and saves the SyncState when none is left   *)
(* to install; it may be killed between any two steps.                     *)
(***************************************************************************)
EXTENDS Naturals, FiniteSets

CONSTANTS
  Ids,          \* packet identities
  Streams,      \* pairs of a sender and a branch
  Packet,       \* the packet with each identity
  Cells,        \* Cell identities
  Chunks,       \* chunk identities
  ChunksOf,     \* the chunks a Cell's manifest commits to
  Installs,     \* names of running install_locus calls
  MaxU64,       \* the largest sequence number, u64::MAX in the code
  MaxTime,      \* BOUND: the last instant of the clock
  MaxFaults,    \* BOUND: how many crashes and failed writes there may be
  NoId, NoCell

Never == MaxTime + 1
Times == 0 .. Never

\* validate_chain_shape, which create_sync_packet and verify_sync_packet share.
ChainShape(p) == p.sequence = 0 <=> p.previous = NoId

\* A packet whose identity, payload digest and signature agree (intact), that
\* names this peer among its recipients (addressed), whose plaintext is the one
\* canonical form of a valid Locus of the packet's branch (canonical), and the
\* instant after which its first witness receipt has expired.
SyncPacket ==
  {p \in [stream : Streams, sequence : 0 .. MaxU64, previous : Ids \cup {NoId},
          cells : SUBSET Cells \ {{}}, intact : BOOLEAN, addressed : BOOLEAN,
          canonical : BOOLEAN, expiry : Times] : ChainShape(p)}

ASSUME PacketAssumption == Packet \in [Ids -> SyncPacket]
ASSUME ContentAssumption == ChunksOf \in [Cells -> SUBSET Chunks]
ASSUME SyncNamesAssumption == NoId \notin Ids /\ NoCell \notin Cells
ASSUME SyncBoundsAssumption == /\ MaxU64 \in Nat \ {0}
                               /\ MaxTime \in Nat
                               /\ MaxFaults \in Nat

VARIABLES
  head,        \* the accepted head of each stream
  seen,        \* the packets accepted
  saved,       \* both, as they were last saved
  unfinished,  \* packets accepted whose Locus is not installed yet
  install,     \* the running install_locus calls
  chunks,      \* the chunks in the store
  manifests,   \* the manifests in the store
  effective,   \* the registry's revocation time for this peer
  recorded,    \* HISTORY: every revocation time recorded
  leaked,      \* HISTORY: whether a packet was decrypted after one of them
  now,
  faults

syncState == <<head, seen>>
store == <<chunks, manifests>>
revocation == <<effective, recorded>>
vars == <<syncState, saved, unfinished, install, store, revocation, leaked, now,
          faults>>

IdleInstall == [id |-> NoId, left |-> {}, cell |-> NoCell, todo |-> {}]

Init ==
  /\ head = [k \in Streams |-> NoId]
  /\ seen = {}
  /\ saved = [head |-> head, seen |-> seen]
  /\ unfinished = {}
  /\ install = [t \in Installs |-> IdleInstall]
  /\ chunks = {}
  /\ manifests = {}
  /\ effective = Never
  /\ recorded = {}
  /\ leaked = FALSE
  /\ now = 0
  /\ faults = 0

-----------------------------------------------------------------------------
(* receive_sync_packet *)

\* head.sequence.saturating_add(1)
Following(n) == IF n = MaxU64 THEN n ELSE n + 1

ValidateNextSequence(id) ==                   \* fault: predecessor not compared
  LET p == Packet[id]
      h == head[p.stream]
  IN /\ id \notin seen
     /\ IF h = NoId THEN p.sequence = 0
                    ELSE p.sequence = Following(Packet[h].sequence)
ValidateNext(id) ==
  LET p == Packet[id]
      h == head[p.stream]
  IN /\ id \notin seen
     /\ IF h = NoId THEN p.sequence = 0 /\ p.previous = NoId
                    ELSE /\ p.sequence = Following(Packet[h].sequence)
                         /\ p.previous = h

VerifiesPacket(id) == Packet[id].intact

\* RevocationRegistry::permits
Permits == now < effective

DecryptsLocus(id) == Permits /\ Packet[id].addressed
DecodesLocus(id) == Packet[id].canonical
WitnessesCurrent(id) == now <= Packet[id].expiry

AcceptUnadvanced(id) ==                       \* fault: head not advanced
  seen' = seen \cup {id} /\ UNCHANGED head
Accept(id) ==
  /\ seen' = seen \cup {id}
  /\ head' = [head EXCEPT ![Packet[id].stream] = id]

\* A packet that fails a check changes nothing, but one that fails only after
\* decrypt_locus has been decrypted all the same.
ReceiveSyncPacket(id) ==
  /\ VerifiesPacket(id)
  /\ ValidateNext(id)
  /\ DecryptsLocus(id)
  /\ leaked' = (leaked \/ \E t \in recorded : now >= t)
  /\ IF DecodesLocus(id) /\ WitnessesCurrent(id)
     THEN Accept(id) /\ unfinished' = unfinished \cup {id}
     ELSE UNCHANGED <<syncState, unfinished>>
  /\ UNCHANGED <<saved, install, store, revocation, now, faults>>

-----------------------------------------------------------------------------
(* install_locus *)

InstallLocus(t, id) ==
  /\ install[t] = IdleInstall
  /\ id \in unfinished
  /\ \E c \in Packet[id].cells :
       install' = [install EXCEPT ![t] = [id |-> id, cell |-> c,
                                          left |-> Packet[id].cells \ {c},
                                          todo |-> ChunksOf[c]]]
  /\ UNCHANGED <<syncState, saved, unfinished, store, revocation, leaked, now,
                 faults>>

\* CellStore::write_atomic: a path that exists is taken for the content, and a
\* new file appears under it whole.
PutChunk(t, k) ==
  /\ k \in install[t].todo
  /\ chunks' = chunks \cup {k}
  /\ install' = [install EXCEPT ![t].todo = @ \ {k}]
  /\ UNCHANGED <<syncState, saved, unfinished, manifests, revocation, leaked, now,
                 faults>>

ChunksPutAlways(t) == install[t].cell # NoCell    \* fault: manifests first
ChunksPut(t) == install[t].cell # NoCell /\ install[t].todo = {}

LastCellAlways(t) == install[t] # IdleInstall     \* fault: only the first Cell
LastCell(t) == install[t].left = {}

\* The manifest of a Cell follows its chunks, and the next Cell, or the end,
\* follows the manifest.
PutManifest(t) ==
  /\ ChunksPut(t)
  /\ manifests' = manifests \cup {install[t].cell}
  /\ \/ /\ LastCell(t)
        /\ install' = [install EXCEPT ![t] = IdleInstall]
        /\ unfinished' = unfinished \ {install[t].id}
     \/ /\ ~LastCell(t)
        /\ \E c \in install[t].left :
             install' = [install EXCEPT ![t].cell = c, ![t].left = @ \ {c},
                                        ![t].todo = ChunksOf[c]]
        /\ UNCHANGED unfinished
  /\ UNCHANGED <<syncState, saved, chunks, revocation, leaked, now, faults>>

\* Any `?` of install_locus; the application keeps the Locus and tries again.
InstallFails(t) ==
  /\ faults < MaxFaults /\ install[t] # IdleInstall
  /\ faults' = faults + 1
  /\ install' = [install EXCEPT ![t] = IdleInstall]
  /\ UNCHANGED <<syncState, saved, unfinished, store, revocation, leaked, now>>

-----------------------------------------------------------------------------
(* RevocationRegistry::revoke *)

EarliestOrLatest(t) == t                      \* fault: the last record wins
Earliest(t) == IF t < effective THEN t ELSE effective

Revoke(t) ==
  /\ t \notin recorded
  /\ effective' = Earliest(t)
  /\ recorded' = recorded \cup {t}
  /\ UNCHANGED <<syncState, saved, unfinished, install, store, leaked, now, faults>>

-----------------------------------------------------------------------------
(* The application and its surroundings *)

\* Saving earlier would lose a Locus: its packet would come back as a Replay.
Save ==
  /\ unfinished = {}
  /\ saved' = [head |-> head, seen |-> seen]
  /\ UNCHANGED <<syncState, unfinished, install, store, revocation, leaked, now,
                 faults>>

\* The store and the registry outlive the process, and so does what was saved.
Crash ==
  /\ faults < MaxFaults
  /\ faults' = faults + 1
  /\ head' = saved.head /\ seen' = saved.seen
  /\ unfinished' = {}
  /\ install' = [t \in Installs |-> IdleInstall]
  /\ UNCHANGED <<saved, store, revocation, leaked, now>>

Tick ==
  /\ now < MaxTime
  /\ now' = now + 1
  /\ UNCHANGED <<syncState, saved, unfinished, install, store, revocation, leaked,
                 faults>>

InstallStep(t) ==
  \/ \E id \in unfinished : InstallLocus(t, id)
  \/ \E k \in install[t].todo : PutChunk(t, k)
  \/ PutManifest(t)

Next ==
  \/ \E id \in Ids : ReceiveSyncPacket(id)
  \/ \E t \in Installs : InstallStep(t) \/ InstallFails(t)
  \/ \E t \in 0 .. MaxTime : Revoke(t)
  \/ Save \/ Crash \/ Tick

Spec == Init /\ [][Next]_vars

-----------------------------------------------------------------------------
(* Properties *)

\* Every part of the state has its type.
TypeOK ==
  /\ head \in [Streams -> Ids \cup {NoId}]
  /\ seen \subseteq Ids
  /\ saved \in [head : [Streams -> Ids \cup {NoId}], seen : SUBSET Ids]
  /\ unfinished \subseteq seen
  /\ install \in [Installs -> [id : Ids \cup {NoId}, left : SUBSET Cells,
                               cell : Cells \cup {NoCell}, todo : SUBSET Chunks]]
  /\ \A t \in Installs : install[t].id = NoId => install[t] = IdleInstall
  /\ chunks \subseteq Chunks
  /\ manifests \subseteq Cells
  /\ effective \in Times
  /\ recorded \subseteq 0 .. MaxTime
  /\ leaked \in BOOLEAN
  /\ now \in 0 .. MaxTime
  /\ faults \in 0 .. MaxFaults

\* The accepted packets S of every stream, up to its head in h, are one chain:
\* each follows the packet it names, and no two follow the same one.
Chain(h, S) ==
  /\ \A k \in Streams : h[k] # NoId => h[k] \in S /\ Packet[h[k]].stream = k
  /\ \A id \in S : h[Packet[id].stream] # NoId
  /\ \A id \in S :
       LET p == Packet[id]
           q == Packet[p.previous]
       IN p.sequence # 0 => /\ p.previous \in S
                            /\ p.stream = q.stream
                            /\ p.sequence = Following(q.sequence)
  /\ \A i, j \in S : /\ Packet[i].stream = Packet[j].stream
                     /\ Packet[i].previous = Packet[j].previous
                     => i = j

\* Whatever is lost, repeated, reordered or sent twice with one sequence number,
\* and whatever a crash undoes, a receiver has one chain per sender and branch.
OneChain == Chain(head, seen) /\ Chain(saved.head, saved.seen)

\* A Cell whose manifest can be read has all its chunks, although calls that
\* share Cells and chunks run at once and may stop halfway.
ManifestsComplete == \A c \in manifests : ChunksOf[c] \subseteq chunks

\* The peer implements the packet journal, which has neither heads nor calls:
\* every packet it accepts extends what it has, and no Locus is lost, although
\* packets are accepted long before their Cells are installed.
Journal == INSTANCE PacketJournal WITH
             accepted <- seen, durable <- saved.seen, installed <- manifests
ImplementsJournal == Journal!Spec

\* What a restart will refuse as a Replay is installed.
SavedInstalled == Journal!DurableInstalled

\* Nothing is decrypted at or after the earliest revocation time recorded, in
\* whatever order the revocations came.
RevokedReadsNothing == ~leaked

-----------------------------------------------------------------------------
(* Progress *)

\* The network delivers again what was not accepted; calls run; the application
\* saves its state and restarts a call that failed.
Fairness ==
  /\ \A id \in Ids : WF_vars(ReceiveSyncPacket(id))
  /\ \A t \in Installs : WF_vars(InstallStep(t))
  /\ WF_vars(Save)
FairSpec == Spec /\ Fairness

Acceptable(p) == p.intact /\ p.addressed /\ p.canonical

\* A chain that nothing in its own packets, and no rival of any of them, keeps
\* from being accepted.
Unobstructed(id) ==
  \E C \in SUBSET Ids :
    /\ id \in C
    /\ \A i \in C :
         LET p == Packet[i]
         IN /\ Acceptable(p) /\ p.expiry = Never
            /\ p.sequence # 0 =>
                 /\ p.previous \in C
                 /\ p.stream = Packet[p.previous].stream
                 /\ p.sequence = Following(Packet[p.previous].sequence)
            /\ \A j \in Ids : /\ Acceptable(Packet[j])
                              /\ Packet[j].stream = p.stream
                              /\ Packet[j].previous = p.previous
                              => i = j

\* Such a packet is accepted, installed and saved in the end, unless the peer is
\* revoked before: no crash, failed write or refused packet blocks its stream.
UnobstructedArrive ==
  \A id \in Ids : Unobstructed(id) => <>(id \in saved.seen \/ ~Permits)
=============================================================================
