--------------------------- MODULE LocusSyncProofs ---------------------------
(***************************************************************************)
(* The four safety properties of a receiving peer, for any packets, streams *)
(* and Cells, any number of calls, crashes and failed writes.  Each needs a *)
(* part of the invariant below: that the head of a stream is nobody's       *)
(* predecessor, although sequence numbers saturate; that the chunks a call  *)
(* has put and the Cells it has finished are there; and that an accepted    *)
(* packet is either unfinished or installed.                               *)
(***************************************************************************)
EXTENDS LocusSync, TLAPS

Call == [id : Ids \cup {NoId}, left : SUBSET Cells, cell : Cells \cup {NoCell},
         todo : SUBSET Chunks]

SyncTypes ==
  /\ head \in [Streams -> Ids \cup {NoId}] /\ seen \subseteq Ids
  /\ saved \in [head : [Streams -> Ids \cup {NoId}], seen : SUBSET Ids]
  /\ unfinished \subseteq seen
  /\ install \in [Installs -> Call]
  /\ \A t \in Installs : install[t].id = NoId => install[t] = IdleInstall
  /\ chunks \subseteq Chunks /\ manifests \subseteq Cells
  /\ effective \in Times /\ recorded \subseteq 0 .. MaxTime
  /\ leaked \in BOOLEAN /\ now \in 0 .. MaxTime /\ faults \in 0 .. MaxFaults

\* A chain whose head no packet follows.
OpenChain(h, S) ==
  /\ Chain(h, S)
  /\ \A id \in S : Packet[id].previous # h[Packet[id].stream]

\* What a running call has put is in the store.
CallsLag ==
  /\ ManifestsComplete
  /\ \A t \in Installs :
       install[t].cell # NoCell => ChunksOf[install[t].cell] \ install[t].todo \subseteq chunks

\* The Cells a running call has finished are installed, and so are the packets
\* that are no longer unfinished.
Installed ==
  /\ SavedInstalled
  /\ \A id \in seen \ unfinished : Packet[id].cells \subseteq manifests
  /\ \A t \in Installs :
       install[t].id # NoId =>
         Packet[install[t].id].cells \ (install[t].left \cup {install[t].cell})
           \subseteq manifests

\* The registry keeps the earliest time.
EarliestKept == ~leaked /\ \A t \in recorded : effective <= t

SyncInv ==
  /\ SyncTypes
  /\ OpenChain(head, seen) /\ OpenChain(saved.head, saved.seen)
  /\ CallsLag /\ Installed /\ EarliestKept

-----------------------------------------------------------------------------
\* What a packet of the network is made of.
LEMMA PacketParts ==
  ASSUME NEW id \in Ids
  PROVE  /\ Packet[id].stream \in Streams
         /\ Packet[id].sequence \in Nat
         /\ Packet[id].previous \in Ids \cup {NoId}
         /\ Packet[id].cells \subseteq Cells
         /\ Packet[id].sequence = 0 <=> Packet[id].previous = NoId
<1>1. Packet[id] \in SyncPacket
  BY PacketAssumption
<1> QED BY <1>1, SyncBoundsAssumption DEF SyncPacket, ChainShape

\* A peer that has received nothing.
LEMMA SyncInitially == Init => SyncInv
<1> SUFFICES ASSUME Init PROVE SyncInv
  OBVIOUS
<1>1. SyncTypes
  <2>1. head \in [Streams -> Ids \cup {NoId}]
    BY DEF Init
  <2>2. saved \in [head : [Streams -> Ids \cup {NoId}], seen : SUBSET Ids]
    BY <2>1 DEF Init
  <2>3. IdleInstall \in Call
    BY DEF Call, IdleInstall
  <2>4. effective \in Times /\ now \in 0 .. MaxTime /\ faults \in 0 .. MaxFaults
    BY SyncBoundsAssumption DEF Init, Times, Never
  <2> QED BY <2>1, <2>2, <2>3, <2>4 DEF Init, SyncTypes
<1>2. OpenChain(head, seen) /\ OpenChain(saved.head, saved.seen)
  BY DEF Init, OpenChain, Chain
<1>3. CallsLag /\ Installed /\ EarliestKept
  BY DEF Init, CallsLag, ManifestsComplete, Installed, SavedInstalled, Journal!DurableInstalled, EarliestKept, IdleInstall
<1> QED BY <1>1, <1>2, <1>3 DEF SyncInv

-----------------------------------------------------------------------------
\* A packet that passes validate_next lengthens the chain of its stream: it
\* follows the head, which nothing followed before, and nothing follows it.
LEMMA AcceptKeepsChain ==
  ASSUME head \in [Streams -> Ids \cup {NoId}], seen \subseteq Ids,
         OpenChain(head, seen), NEW id \in Ids, ValidateNext(id), Accept(id)
  PROVE  OpenChain(head', seen')
<1> DEFINE p == Packet[id]
           k == p.stream
<1>1. /\ k \in Streams /\ p.previous \in Ids \cup {NoId} /\ NoId \notin Ids
      /\ p.sequence = 0 <=> p.previous = NoId
  BY PacketParts, SyncNamesAssumption
<1>2. /\ id \notin seen
      /\ head[k] = NoId => p.sequence = 0 /\ p.previous = NoId
      /\ head[k] # NoId => p.sequence = Following(Packet[head[k]].sequence)
                            /\ p.previous = head[k]
  BY DEF ValidateNext
<1>3. /\ head' = [head EXCEPT ![k] = id] /\ seen' = seen \cup {id}
      /\ head'[k] = id /\ \A l \in Streams \ {k} : head'[l] = head[l]
  BY <1>1 DEF Accept
<1>4. \A j \in seen : /\ Packet[j].stream \in Streams
                      /\ Packet[j].previous \in Ids \cup {NoId}
                      /\ Packet[j].sequence = 0 <=> Packet[j].previous = NoId
  BY PacketParts
<1>5. /\ \A l \in Streams : head[l] # NoId => head[l] \in seen /\ Packet[head[l]].stream = l
      /\ \A j \in seen : head[Packet[j].stream] # NoId
      /\ \A j \in seen : Packet[j].previous # head[Packet[j].stream]
  BY DEF OpenChain, Chain
<1>6. \A j \in seen : Packet[j].sequence # 0 =>
        /\ Packet[j].previous \in seen
        /\ Packet[j].stream = Packet[Packet[j].previous].stream
        /\ Packet[j].sequence = Following(Packet[Packet[j].previous].sequence)
  BY DEF OpenChain, Chain
<1>7. \A i, j \in seen : /\ Packet[i].stream = Packet[j].stream
                         /\ Packet[i].previous = Packet[j].previous
                         => i = j
  BY DEF OpenChain, Chain
<1> HIDE DEF p, k
<1>8. \A l \in Streams : head'[l] # NoId => head'[l] \in seen' /\ Packet[head'[l]].stream = l
  BY <1>1, <1>3, <1>5 DEF p, k
<1>9. \A j \in seen' : head'[Packet[j].stream] # NoId
  BY <1>1, <1>3, <1>4, <1>5 DEF p, k
<1>10. \A j \in seen' : Packet[j].sequence # 0 =>
         /\ Packet[j].previous \in seen'
         /\ Packet[j].stream = Packet[Packet[j].previous].stream
         /\ Packet[j].sequence = Following(Packet[Packet[j].previous].sequence)
  BY <1>1, <1>2, <1>3, <1>5, <1>6 DEF p, k
<1>11. \A j \in seen : ~(Packet[j].stream = k /\ Packet[j].previous = p.previous)
  BY <1>1, <1>2, <1>5 DEF p, k
<1>12. \A i, j \in seen' : /\ Packet[i].stream = Packet[j].stream
                           /\ Packet[i].previous = Packet[j].previous
                           => i = j
  BY <1>3, <1>7, <1>11 DEF p, k
<1>13. \A j \in seen' : Packet[j].previous # head'[Packet[j].stream]
  <2>1. \A j \in seen : Packet[j].previous # id
    BY <1>1, <1>2, <1>4, <1>6
  <2>2. p.previous # id
    BY <1>1, <1>2, <1>5
  <2> QED BY <1>3, <1>4, <1>5, <2>1, <2>2 DEF p, k
<1> QED BY <1>8, <1>9, <1>10, <1>12, <1>13 DEF OpenChain, Chain

\* receive_sync_packet: what it accepts is unfinished, and what it decrypts was
\* permitted.
LEMMA ReceiveKeepsSync ==
  ASSUME SyncInv, NEW id \in Ids, ReceiveSyncPacket(id)
  PROVE  SyncInv'
<1>1. OpenChain(head', seen') /\ OpenChain(saved'.head, saved'.seen)
  <2>1. CASE Accept(id)
    BY <2>1, AcceptKeepsChain DEF SyncInv, SyncTypes, ReceiveSyncPacket
  <2>2. CASE UNCHANGED syncState
    BY <2>2 DEF SyncInv, ReceiveSyncPacket, syncState
  <2> QED BY <2>1, <2>2 DEF ReceiveSyncPacket
<1>2. ~leaked'
  <2>1. now < effective /\ \A t \in recorded : effective <= t
    BY DEF SyncInv, EarliestKept, ReceiveSyncPacket, DecryptsLocus, Permits
  <2>2. now \in Nat /\ effective \in Nat /\ recorded \subseteq 0 .. MaxTime
    BY SyncBoundsAssumption DEF SyncInv, SyncTypes, Times, Never
  <2>3. \A t \in recorded : ~(now >= t)
    BY <2>1, <2>2
  <2> QED BY <2>3 DEF SyncInv, EarliestKept, ReceiveSyncPacket
<1>3. SyncTypes'
  <2>1. Packet[id].stream \in Streams
    BY PacketParts
  <2>2. /\ head' \in [Streams -> Ids \cup {NoId}] /\ seen' \subseteq Ids
        /\ unfinished' \subseteq seen'
    <3>1. CASE Accept(id) /\ unfinished' = unfinished \cup {id}
      BY <2>1, <3>1 DEF SyncInv, SyncTypes, Accept
    <3>2. CASE UNCHANGED <<syncState, unfinished>>
      BY <3>2 DEF SyncInv, SyncTypes, syncState
    <3> QED BY <3>1, <3>2 DEF ReceiveSyncPacket
  <2> QED BY <1>2, <2>2 DEF SyncInv, SyncTypes, ReceiveSyncPacket, store, revocation
<1>4. CallsLag'
  BY DEF SyncInv, CallsLag, ManifestsComplete, ReceiveSyncPacket, store
<1>5. Installed'
  <2>1. seen' \ unfinished' \subseteq seen \ unfinished
    BY DEF ReceiveSyncPacket, Accept, syncState
  <2> QED BY <2>1 DEF SyncInv, Installed, SavedInstalled, Journal!DurableInstalled, ReceiveSyncPacket, store
<1>6. EarliestKept'
  BY <1>2 DEF SyncInv, EarliestKept, ReceiveSyncPacket, revocation
<1> QED BY <1>1, <1>3, <1>4, <1>5, <1>6 DEF SyncInv

-----------------------------------------------------------------------------
\* A step of install_locus: the calls, the store and the unfinished packets.
LEMMA StoreStep ==
  ASSUME SyncInv, NEW t \in Installs, NEW c \in Call,
         install' = [install EXCEPT ![t] = c], c.id = NoId => c = IdleInstall,
         chunks \subseteq chunks', chunks' \subseteq Chunks,
         manifests \subseteq manifests', manifests' \subseteq Cells,
         unfinished' \subseteq unfinished, faults' \in 0 .. MaxFaults,
         UNCHANGED <<syncState, saved, revocation, leaked, now>>,
         \A m \in manifests' \ manifests : ChunksOf[m] \subseteq chunks',
         c.cell # NoCell => ChunksOf[c.cell] \ c.todo \subseteq chunks',
         c.id # NoId => Packet[c.id].cells \ (c.left \cup {c.cell}) \subseteq manifests',
         \A id \in unfinished \ unfinished' : Packet[id].cells \subseteq manifests'
  PROVE  SyncInv'
<1>0. /\ install \in [Installs -> Call] /\ install'[t] = c
      /\ \A s \in Installs \ {t} : install'[s] = install[s]
  BY DEF SyncInv, SyncTypes
<1>1. SyncTypes'
  <2>1. /\ install' \in [Installs -> Call] /\ unfinished' \subseteq seen'
        /\ \A s \in Installs : install'[s].id = NoId => install'[s] = IdleInstall
    BY <1>0 DEF SyncInv, SyncTypes, syncState
  <2> QED BY <2>1 DEF SyncInv, SyncTypes, syncState, revocation
<1>2. OpenChain(head', seen') /\ OpenChain(saved'.head, saved'.seen)
  BY DEF SyncInv, syncState
<1>3. CallsLag'
  BY <1>0 DEF SyncInv, CallsLag, ManifestsComplete
<1>4. Installed'
  BY <1>0 DEF SyncInv, Installed, SavedInstalled, Journal!DurableInstalled, syncState
<1>5. EarliestKept'
  BY DEF SyncInv, EarliestKept, revocation
<1> QED BY <1>1, <1>2, <1>3, <1>4, <1>5 DEF SyncInv

\* install_locus: chunks, then the manifest, then the next Cell.
LEMMA InstallKeeps ==
  ASSUME SyncInv, NEW t \in Installs, InstallStep(t) \/ InstallFails(t)
  PROVE  SyncInv'
<1>0. /\ install \in [Installs -> Call] /\ install[t] \in Call
      /\ install[t].id = NoId => install[t] = IdleInstall
      /\ faults \in 0 .. MaxFaults /\ MaxFaults \in Nat
      /\ chunks \subseteq Chunks /\ manifests \subseteq Cells
      /\ unfinished \subseteq Ids
  BY SyncBoundsAssumption DEF SyncInv, SyncTypes
<1>1. \A c \in Cells : ChunksOf[c] \subseteq Chunks /\ c # NoCell
  BY ContentAssumption, SyncNamesAssumption
<1>2. /\ install[t].cell # NoCell =>
           ChunksOf[install[t].cell] \ install[t].todo \subseteq chunks
      /\ install[t].id # NoId =>
           Packet[install[t].id].cells \ (install[t].left \cup {install[t].cell})
             \subseteq manifests
  BY DEF SyncInv, CallsLag, Installed
<1>3. IdleInstall \in Call
  BY DEF Call, IdleInstall
<1>4. ASSUME NEW id \in unfinished, InstallLocus(t, id)
      PROVE  SyncInv'
  <2>1. PICK c \in Packet[id].cells :
          install' = [install EXCEPT ![t] = [id |-> id, cell |-> c,
                                             left |-> Packet[id].cells \ {c},
                                             todo |-> ChunksOf[c]]]
    BY <1>4 DEF InstallLocus
  <2> DEFINE d == [id |-> id, cell |-> c, left |-> Packet[id].cells \ {c},
                   todo |-> ChunksOf[c]]
  <2>2. Packet[id].cells \subseteq Cells /\ id \in Ids /\ id # NoId
    BY <1>0, PacketParts, SyncNamesAssumption
  <2>3. d \in Call /\ d.id # NoId
    BY <1>1, <2>1, <2>2 DEF Call
  <2>4. /\ ChunksOf[d.cell] \ d.todo \subseteq chunks
        /\ Packet[d.id].cells \ (d.left \cup {d.cell}) \subseteq manifests
    OBVIOUS
  <2> HIDE DEF d
  <2> QED BY <1>0, <1>4, <2>1, <2>3, <2>4, StoreStep DEF InstallLocus, store, d
<1>5. ASSUME NEW k \in install[t].todo, PutChunk(t, k)
      PROVE  SyncInv'
  <2> DEFINE d == [install[t] EXCEPT !.todo = @ \ {k}]
  <2>1. /\ d \in Call /\ d.id = install[t].id /\ d.cell = install[t].cell
        /\ d.left = install[t].left /\ d.todo = install[t].todo \ {k} /\ k \in Chunks
    BY <1>0 DEF Call
  <2>2. d.id # NoId
    BY <1>0, <2>1 DEF IdleInstall
  <2>3. install' = [install EXCEPT ![t] = d] /\ chunks' = chunks \cup {k}
    BY <1>0, <1>5 DEF PutChunk
  <2>4. /\ d.cell # NoCell => ChunksOf[d.cell] \ d.todo \subseteq chunks'
        /\ d.id # NoId => Packet[d.id].cells \ (d.left \cup {d.cell}) \subseteq manifests'
    BY <1>2, <1>5, <2>1, <2>3 DEF PutChunk
  <2> HIDE DEF d
  <2> QED BY <1>0, <1>5, <2>1, <2>2, <2>3, <2>4, StoreStep DEF PutChunk
<1>6. CASE PutManifest(t)
  <2> DEFINE m == install[t].cell
  <2>1. m \in Cells /\ install[t].todo = {} /\ manifests' = manifests \cup {m}
    BY <1>0, <1>6 DEF PutManifest, ChunksPut, Call
  <2>2. install[t].id # NoId /\ install[t].id \in Ids
    BY <1>0, <1>1, <2>1 DEF IdleInstall, Call
  <2>3. ChunksOf[m] \subseteq chunks
    BY <1>1, <1>2, <2>1
  <2>4. Packet[install[t].id].cells \ install[t].left \subseteq manifests'
    BY <1>2, <2>1, <2>2
  <2>5. CASE /\ LastCell(t) /\ install' = [install EXCEPT ![t] = IdleInstall]
             /\ unfinished' = unfinished \ {install[t].id}
    <3>1. Packet[install[t].id].cells \subseteq manifests'
      BY <2>4, <2>5 DEF LastCell
    <3> HIDE DEF m
    <3> QED BY <1>0, <1>3, <1>6, <2>1, <2>3, <2>5, <3>1, StoreStep
            DEF PutManifest, IdleInstall
  <2>6. CASE /\ UNCHANGED unfinished
             /\ \E c \in install[t].left :
                  install' = [install EXCEPT ![t].cell = c, ![t].left = @ \ {c},
                                             ![t].todo = ChunksOf[c]]
    <3>1. PICK c \in install[t].left :
            install' = [install EXCEPT ![t].cell = c, ![t].left = @ \ {c},
                                       ![t].todo = ChunksOf[c]]
      BY <2>6
    <3> DEFINE d == [install[t] EXCEPT !.cell = c, !.left = @ \ {c}, !.todo = ChunksOf[c]]
    <3>2. c \in Cells
      BY <1>0 DEF Call
    <3>3. /\ d \in Call /\ d.id = install[t].id /\ d.cell = c
          /\ d.left = install[t].left \ {c} /\ d.todo = ChunksOf[c]
      BY <1>0, <1>1, <3>2 DEF Call
    <3>4. install' = [install EXCEPT ![t] = d]
      BY <1>0, <3>1
    <3>5. Packet[d.id].cells \ (d.left \cup {d.cell}) \subseteq manifests'
      BY <2>4, <3>3
    <3> HIDE DEF m, d
    <3> QED BY <1>0, <1>6, <2>1, <2>2, <2>3, <2>6, <3>3, <3>4, <3>5, StoreStep
            DEF PutManifest
  <2> QED BY <1>6, <2>5, <2>6 DEF PutManifest
<1>7. CASE InstallFails(t)
  <2>1. faults' \in 0 .. MaxFaults
    BY <1>0, <1>7 DEF InstallFails
  <2> QED BY <1>0, <1>3, <1>7, <2>1, StoreStep DEF InstallFails, IdleInstall, store
<1> QED BY <1>4, <1>5, <1>6, <1>7 DEF InstallStep

-----------------------------------------------------------------------------
\* RevocationRegistry::revoke keeps the earliest time.
LEMMA RevokeKeeps ==
  ASSUME SyncInv, NEW t \in 0 .. MaxTime, Revoke(t)
  PROVE  SyncInv'
<1>1. effective \in Nat /\ t \in Nat /\ MaxTime \in Nat /\ \A r \in recorded : r \in Nat
  BY SyncBoundsAssumption DEF SyncInv, SyncTypes, Times, Never
<1>2. effective' \in Times /\ recorded' \subseteq 0 .. MaxTime
  BY <1>1 DEF SyncInv, SyncTypes, Revoke, Earliest, Times, Never
<1>3. \A r \in recorded' : effective' <= r
  BY <1>1 DEF SyncInv, EarliestKept, Revoke, Earliest
<1>4. SyncTypes' /\ EarliestKept'
  BY <1>2, <1>3 DEF SyncInv, SyncTypes, EarliestKept, Revoke, syncState, store
<1>5. CallsLag' /\ Installed' /\ OpenChain(head', seen') /\ OpenChain(saved'.head, saved'.seen)
  BY DEF SyncInv, CallsLag, ManifestsComplete, Installed, SavedInstalled, Journal!DurableInstalled, Revoke, syncState, store
<1> QED BY <1>4, <1>5 DEF SyncInv

\* The application saves what is installed; a crash goes back to it; time passes.
LEMMA SurroundingsKeep ==
  ASSUME SyncInv, Save \/ Crash \/ Tick
  PROVE  SyncInv'
<1>1. CASE Save
  <2>1. /\ saved'.head = head /\ saved'.seen = seen /\ unfinished = {}
        /\ saved' \in [head : [Streams -> Ids \cup {NoId}], seen : SUBSET Ids]
    BY <1>1 DEF Save, SyncInv, SyncTypes
  <2>2. SyncTypes'
    BY <1>1, <2>1 DEF Save, SyncInv, SyncTypes, syncState, store, revocation
  <2>3. OpenChain(head', seen') /\ OpenChain(saved'.head, saved'.seen)
    BY <1>1, <2>1 DEF Save, SyncInv, syncState
  <2>4. Installed'
    BY <1>1, <2>1 DEF Save, SyncInv, Installed, SavedInstalled, Journal!DurableInstalled, syncState, store
  <2>5. CallsLag' /\ EarliestKept'
    BY <1>1 DEF Save, SyncInv, CallsLag, ManifestsComplete, EarliestKept, store, revocation
  <2> QED BY <2>2, <2>3, <2>4, <2>5 DEF SyncInv
<1>2. CASE Crash
  <2>1. \A t \in Installs : install'[t] = IdleInstall
    BY <1>2 DEF Crash
  <2>2. SyncTypes'
    <3>1. install' \in [Installs -> Call]
      BY <1>2 DEF Crash, Call, IdleInstall
    <3>2. faults' \in 0 .. MaxFaults
      BY <1>2, SyncBoundsAssumption DEF Crash, SyncInv, SyncTypes
    <3> QED BY <1>2, <2>1, <3>1, <3>2 DEF Crash, SyncInv, SyncTypes, store, revocation
  <2>3. OpenChain(head', seen') /\ OpenChain(saved'.head, saved'.seen)
    BY <1>2 DEF Crash, SyncInv
  <2>4. Installed'
    BY <1>2, <2>1 DEF Crash, SyncInv, Installed, SavedInstalled, Journal!DurableInstalled, store, IdleInstall
  <2>5. CallsLag'
    BY <1>2, <2>1 DEF Crash, SyncInv, CallsLag, ManifestsComplete, store, IdleInstall
  <2>6. EarliestKept'
    BY <1>2 DEF Crash, SyncInv, EarliestKept, revocation
  <2> QED BY <2>2, <2>3, <2>4, <2>5, <2>6 DEF SyncInv
<1>3. CASE Tick
  <2>1. now' \in 0 .. MaxTime
    BY <1>3, SyncBoundsAssumption DEF Tick, SyncInv, SyncTypes
  <2>2. SyncTypes'
    BY <1>3, <2>1 DEF Tick, SyncInv, SyncTypes, syncState, store, revocation
  <2> QED BY <1>3, <2>2 DEF Tick, SyncInv, CallsLag, ManifestsComplete, Installed,
            SavedInstalled, Journal!DurableInstalled, EarliestKept, syncState, store, revocation
<1> QED BY <1>1, <1>2, <1>3

\* A stuttering step.
LEMMA SyncStutters == SyncInv /\ UNCHANGED vars => SyncInv'
BY DEF vars, syncState, store, revocation, SyncInv, SyncTypes, CallsLag, ManifestsComplete,
  Installed, SavedInstalled, Journal!DurableInstalled, EarliestKept

\* Every step keeps the invariant.
LEMMA SyncAlways == Spec => []SyncInv
<1>1. SyncInv /\ [Next]_vars => SyncInv'
  BY ReceiveKeepsSync, InstallKeeps, RevokeKeeps, SurroundingsKeep, SyncStutters DEF Next
<1> QED BY SyncInitially, <1>1, PTL DEF Spec

-----------------------------------------------------------------------------
\* A receiver has one chain per sender and branch, before and after a crash,
\* whatever the network and the senders do (validate_next).
THEOREM OneChainHolds == Spec => []OneChain
<1>1. SyncInv => OneChain
  BY DEF SyncInv, OpenChain, OneChain
<1> QED BY <1>1, SyncAlways, PTL

\* A Cell whose manifest is in the store has all its chunks (CellStore::put).
THEOREM ManifestsCompleteHolds == Spec => []ManifestsComplete
<1>1. SyncInv => ManifestsComplete
  BY DEF SyncInv, CallsLag
<1> QED BY <1>1, SyncAlways, PTL

\* What a restart refuses as a Replay is installed (install_locus).
THEOREM SavedInstalledHolds == Spec => []SavedInstalled
<1>1. SyncInv => SavedInstalled
  BY DEF SyncInv, Installed
<1> QED BY <1>1, SyncAlways, PTL

\* Nothing is decrypted at or after a recorded revocation (RevocationRegistry).
THEOREM RevokedReadsNothingHolds == Spec => []RevokedReadsNothing
<1>1. SyncInv => RevokedReadsNothing
  BY DEF SyncInv, EarliestKept, RevokedReadsNothing
<1> QED BY <1>1, SyncAlways, PTL

-----------------------------------------------------------------------------
(* The journal *)

\* A running call installs Cells of a packet that was accepted.
CallsServe ==
  \A t \in Installs :
    install[t].id # NoId =>
      /\ install[t].id \in seen
      /\ install[t].left \subseteq Packet[install[t].id].cells
      /\ install[t].cell \in Packet[install[t].id].cells

\* A call starts with an accepted packet, and takes one of its Cells after the
\* other.
LEMMA CallsServeStep == SyncInv /\ CallsServe /\ [Next]_vars => CallsServe'
<1> SUFFICES ASSUME SyncInv, CallsServe, [Next]_vars PROVE CallsServe'
  OBVIOUS
<1>0. /\ install \in [Installs -> Call] /\ unfinished \subseteq seen
      /\ \A t \in Installs : install[t].id = NoId => install[t] = IdleInstall
  BY DEF SyncInv, SyncTypes
<1>1. ASSUME UNCHANGED install, seen \subseteq seen' PROVE CallsServe'
  BY <1>1 DEF CallsServe
<1>2. ASSUME NEW t \in Installs, NEW c \in Call, install' = [install EXCEPT ![t] = c],
             seen' = seen,
             c.id # NoId => /\ c.id \in seen
                            /\ c.left \subseteq Packet[c.id].cells
                            /\ c.cell \in Packet[c.id].cells
      PROVE  CallsServe'
  <2>1. \A s \in Installs : install'[s] = IF s = t THEN c ELSE install[s]
    BY <1>0, <1>2
  <2> QED BY <1>2, <2>1 DEF CallsServe
<1>3. ASSUME NEW id \in Ids, ReceiveSyncPacket(id) PROVE CallsServe'
  BY <1>1, <1>3 DEF ReceiveSyncPacket, Accept, syncState
<1>4. IdleInstall \in Call /\ IdleInstall.id = NoId
  BY DEF Call, IdleInstall
<1>5. ASSUME NEW t \in Installs, InstallStep(t) \/ InstallFails(t) PROVE CallsServe'
  <2>0. install[t] \in Call /\ seen' = seen /\ unfinished \subseteq Ids
    BY <1>0, <1>5 DEF InstallStep, InstallFails, InstallLocus, PutChunk, PutManifest, syncState,
       SyncInv, SyncTypes
  <2>1. ASSUME NEW id \in unfinished, InstallLocus(t, id) PROVE CallsServe'
    <3>1. PICK c \in Packet[id].cells :
            install' = [install EXCEPT ![t] = [id |-> id, cell |-> c,
                                               left |-> Packet[id].cells \ {c},
                                               todo |-> ChunksOf[c]]]
      BY <2>1 DEF InstallLocus
    <3>2. Packet[id].cells \subseteq Cells /\ ChunksOf[c] \subseteq Chunks
      BY <2>0, <3>1, PacketParts, ContentAssumption
    <3> DEFINE d == [id |-> id, cell |-> c, left |-> Packet[id].cells \ {c},
                     todo |-> ChunksOf[c]]
    <3>3. d \in Call /\ d.id \in seen /\ d.left \subseteq Packet[d.id].cells
          /\ d.cell \in Packet[d.id].cells
      BY <1>0, <2>0, <3>2 DEF Call
    <3> HIDE DEF d
    <3> QED BY <1>2, <2>0, <3>1, <3>3 DEF d
  <2>2. ASSUME NEW k \in install[t].todo, PutChunk(t, k) PROVE CallsServe'
    <3> DEFINE d == [install[t] EXCEPT !.todo = @ \ {k}]
    <3>1. /\ d \in Call /\ d.id = install[t].id /\ d.cell = install[t].cell
          /\ d.left = install[t].left
      BY <2>0 DEF Call
    <3>2. install' = [install EXCEPT ![t] = d]
      BY <1>0, <2>2 DEF PutChunk
    <3> HIDE DEF d
    <3> QED BY <1>2, <2>0, <3>1, <3>2 DEF CallsServe
  <2>3. CASE install' = [install EXCEPT ![t] = IdleInstall]
    BY <1>2, <1>4, <2>0, <2>3
  <2>4. ASSUME NEW c \in install[t].left, PutManifest(t),
               install' = [install EXCEPT ![t].cell = c, ![t].left = @ \ {c},
                                          ![t].todo = ChunksOf[c]]
        PROVE  CallsServe'
    <3> DEFINE d == [install[t] EXCEPT !.cell = c, !.left = @ \ {c}, !.todo = ChunksOf[c]]
    <3>1. c \in Cells /\ ChunksOf[c] \subseteq Chunks
      BY <2>0, ContentAssumption DEF Call
    <3>2. /\ d \in Call /\ d.id = install[t].id /\ d.cell = c
          /\ d.left = install[t].left \ {c}
      BY <2>0, <3>1 DEF Call
    <3>3. install' = [install EXCEPT ![t] = d]
      BY <1>0, <2>4
    <3> HIDE DEF d
    <3> QED BY <1>2, <2>0, <3>2, <3>3 DEF CallsServe
  <2> QED BY <1>5, <2>1, <2>2, <2>3, <2>4 DEF InstallStep, InstallFails, PutManifest
<1>6. CASE (\E t \in 0 .. MaxTime : Revoke(t)) \/ Save \/ Tick \/ UNCHANGED vars
  BY <1>1, <1>6 DEF Revoke, Save, Tick, vars, syncState
<1>7. CASE Crash
  BY <1>4, <1>7 DEF Crash, CallsServe
<1> QED BY <1>3, <1>5, <1>6, <1>7 DEF Next

\* A packet that passes validate_next extends the journal: its place is free.
LEMMA ValidExtends ==
  ASSUME SyncInv, NEW id \in Ids, ValidateNext(id)
  PROVE  Journal!Extends(id)
<1> DEFINE p == Packet[id]
           h == head[p.stream]
<1>1. /\ p.stream \in Streams /\ (p.sequence = 0 <=> p.previous = NoId)
      /\ \A j \in seen : Packet[j].stream \in Streams
  BY PacketParts DEF SyncInv, SyncTypes
<1>2. /\ \A j \in seen : head[Packet[j].stream] # NoId
      /\ \A j \in seen : Packet[j].previous # head[Packet[j].stream]
      /\ h # NoId => h \in seen /\ Packet[h].stream = p.stream
  BY <1>1 DEF SyncInv, OpenChain, Chain
<1>3. IF h = NoId THEN p.sequence = 0 /\ p.previous = NoId
                  ELSE p.sequence = Following(Packet[h].sequence) /\ p.previous = h
  BY DEF ValidateNext
<1> HIDE DEF p, h
<1>4. CASE h = NoId
  <2>1. \A j \in seen : Packet[j].stream # p.stream
    BY <1>2, <1>4 DEF h
  <2> QED BY <1>3, <1>4, <2>1 DEF Journal!Extends, p
<1>5. CASE h # NoId
  <2>1. \A j \in seen : ~(Packet[j].stream = p.stream /\ Packet[j].previous = p.previous)
    BY <1>2, <1>3, <1>5 DEF h
  <2> QED BY <1>2, <1>3, <1>5, <2>1 DEF Journal!Extends, Journal!Following, Following, p, h
<1> QED BY <1>4, <1>5

\* Every step of the peer is a step of the journal, or leaves it as it is.
LEMMA JournalStep ==
  SyncInv /\ CallsServe /\ [Next]_vars => [Journal!Next]_(Journal!vars)
<1> SUFFICES ASSUME SyncInv, CallsServe, [Next]_vars
             PROVE  [Journal!Next]_(Journal!vars)
  OBVIOUS
<1>1. ASSUME NEW id \in Ids, ReceiveSyncPacket(id) PROVE [Journal!Next]_(Journal!vars)
  <2>1. CASE Accept(id) /\ DecodesLocus(id) /\ WitnessesCurrent(id)
    <3>1. \A t \in recorded : now < t
      <4>1. now < effective /\ \A t \in recorded : effective <= t
        BY <1>1 DEF SyncInv, EarliestKept, ReceiveSyncPacket, DecryptsLocus, Permits
      <4>2. now \in Nat /\ effective \in Nat /\ recorded \subseteq Nat
        BY SyncBoundsAssumption DEF SyncInv, SyncTypes, Times, Never
      <4> QED BY <4>1, <4>2
    <3>2. Journal!Extends(id)
      BY <1>1, ValidExtends DEF ReceiveSyncPacket
    <3>3. Journal!Accept(id)
      BY <1>1, <2>1, <3>1, <3>2 DEF ReceiveSyncPacket, VerifiesPacket, DecryptsLocus,
         DecodesLocus, WitnessesCurrent, Accept, Journal!Accept, store, revocation
    <3> QED BY <3>3, PacketAssumption DEF Journal!Next
  <2>2. CASE UNCHANGED <<syncState, unfinished>>
    BY <1>1, <2>2 DEF ReceiveSyncPacket, syncState, store, revocation, Journal!vars
  <2> QED BY <1>1, <2>1, <2>2 DEF ReceiveSyncPacket
<1>2. ASSUME NEW t \in Installs, PutManifest(t) PROVE [Journal!Next]_(Journal!vars)
  <2>1. /\ install[t].cell # NoCell /\ manifests' = manifests \cup {install[t].cell}
        /\ UNCHANGED <<seen, saved, recorded, now>>
    BY <1>2 DEF PutManifest, ChunksPut, syncState, revocation
  <2>2. /\ install[t].id \in seen
        /\ install[t].cell \in Packet[install[t].id].cells
    BY <2>1 DEF SyncInv, SyncTypes, CallsServe, IdleInstall
  <2>3. Journal!Install(install[t].cell)
    BY <2>1, <2>2 DEF Journal!Install
  <2> QED BY <2>2, <2>3 DEF Journal!Next
<1>3. ASSUME NEW t \in 0 .. MaxTime, Revoke(t) PROVE [Journal!Next]_(Journal!vars)
  <2>1. Journal!Record(t)
    BY <1>3 DEF Revoke, Journal!Record, syncState, store
  <2> QED BY <2>1 DEF Journal!Next
<1>4. CASE Save
  <2>1. Journal!Save
    BY <1>4 DEF Save, Journal!Save, SyncInv, Installed, syncState, store, revocation
  <2> QED BY <2>1 DEF Journal!Next
<1>5. CASE Crash
  <2>1. Journal!Restart
    BY <1>5 DEF Crash, Journal!Restart, store, revocation
  <2> QED BY <2>1 DEF Journal!Next
<1>6. CASE Tick
  <2>1. Journal!Tick
    BY <1>6 DEF Tick, Journal!Tick, syncState, store, revocation
  <2> QED BY <2>1 DEF Journal!Next
<1>7. ASSUME NEW t \in Installs,
             \/ \E id \in unfinished : InstallLocus(t, id)
             \/ \E k \in install[t].todo : PutChunk(t, k)
             \/ InstallFails(t)
      PROVE  UNCHANGED Journal!vars
  BY <1>7 DEF InstallLocus, PutChunk, InstallFails, syncState, store, revocation, Journal!vars
<1>8. CASE UNCHANGED vars
  BY <1>8 DEF vars, syncState, store, revocation, Journal!vars
<1> QED BY <1>1, <1>2, <1>3, <1>4, <1>5, <1>6, <1>7, <1>8 DEF Next, InstallStep

\* The peer implements the packet journal, for any packets, streams and Cells,
\* any number of calls, crashes and failed writes: receive_sync_packet extends
\* what was accepted, install_locus installs only Cells of accepted packets, and
\* a saved SyncState covers only what is installed.
THEOREM ImplementsJournalHolds == Spec => ImplementsJournal
<1>1. Init => Journal!Init /\ CallsServe
  BY DEF Init, Journal!Init, CallsServe, IdleInstall
<1> QED BY <1>1, SyncAlways, CallsServeStep, JournalStep, PTL
        DEF Spec, ImplementsJournal, Journal!Spec

-----------------------------------------------------------------------------
(* What the numbers say, and what a save keeps *)

PacketsOf(S, k) == {id \in S : Packet[id].stream = k}

\* A stream with head h holds the numbers up to that of its head, and holds none
\* twice that does not saturate.
Numbered(h, S) ==
  \A k \in Streams :
    /\ h[k] = NoId => PacketsOf(S, k) = {}
    /\ h[k] # NoId => {Packet[id].sequence : id \in PacketsOf(S, k)}
                        = 0 .. Packet[h[k]].sequence
    /\ \A i, j \in PacketsOf(S, k) :
         Packet[i].sequence = Packet[j].sequence /\ Packet[i].sequence < MaxU64 => i = j

AllNumbered == Numbered(head, seen) /\ Numbered(saved.head, saved.seen)

\* A packet that passes validate_next has the next number of its stream.
LEMMA AcceptNumbers ==
  ASSUME SyncInv, Numbered(head, seen), NEW id \in Ids, ValidateNext(id), Accept(id)
  PROVE  Numbered(head', seen')
<1> DEFINE p == Packet[id]
           k == p.stream
           N == {Packet[i].sequence : i \in PacketsOf(seen, k)}
<1>1. /\ k \in Streams /\ p.sequence \in Nat /\ head \in [Streams -> Ids \cup {NoId}]
      /\ seen \subseteq Ids /\ id # NoId /\ MaxU64 \in Nat \ {0}
      /\ \A j \in Ids : Packet[j].sequence \in 0 .. MaxU64
  BY PacketParts, SyncNamesAssumption, SyncBoundsAssumption, PacketAssumption
     DEF SyncInv, SyncTypes, SyncPacket
<1>2. /\ head[k] = NoId => p.sequence = 0
      /\ head[k] # NoId => p.sequence = Following(Packet[head[k]].sequence)
  BY DEF ValidateNext
<1>3. /\ \A l \in Streams : head'[l] = IF l = k THEN id ELSE head[l]
      /\ \A l \in Streams : PacketsOf(seen', l) = IF l = k THEN PacketsOf(seen, k) \cup {id}
                                                  ELSE PacketsOf(seen, l)
  BY <1>1 DEF Accept, PacketsOf
<1>4. /\ head[k] = NoId => PacketsOf(seen, k) = {}
      /\ head[k] # NoId => N = 0 .. Packet[head[k]].sequence
      /\ \A i, j \in PacketsOf(seen, k) :
           Packet[i].sequence = Packet[j].sequence /\ Packet[i].sequence < MaxU64 => i = j
  BY <1>1 DEF Numbered
<1>5. {Packet[i].sequence : i \in PacketsOf(seen', k)} = N \cup {p.sequence}
  BY <1>1, <1>3
<1>6. \A i \in PacketsOf(seen, k) : Packet[i].sequence \in N /\ i \in Ids
  BY <1>1 DEF PacketsOf
<1> HIDE DEF p, k, N
<1>7. N \cup {p.sequence} = 0 .. p.sequence
  <2>1. CASE head[k] = NoId
    <3>1. N = {}
      BY <1>4, <2>1 DEF N
    <3> QED BY <1>2, <2>1, <3>1
  <2>2. CASE head[k] # NoId
    <3>1. Packet[head[k]].sequence \in Nat
      BY <1>1, <2>2
    <3> QED BY <1>1, <1>2, <1>4, <2>2, <3>1 DEF Following
  <2> QED BY <2>1, <2>2
<1>8. p.sequence < MaxU64 => \A i \in PacketsOf(seen, k) : Packet[i].sequence # p.sequence
  <2> SUFFICES ASSUME p.sequence < MaxU64, NEW i \in PacketsOf(seen, k)
               PROVE  Packet[i].sequence # p.sequence
    OBVIOUS
  <2>1. head[k] # NoId /\ Packet[i].sequence \in 0 .. Packet[head[k]].sequence
    BY <1>4, <1>6
  <2>2. Packet[head[k]].sequence \in 0 .. MaxU64
    BY <1>1, <2>1
  <2> QED BY <1>1, <1>2, <2>1, <2>2 DEF Following
<1>9. \A i, j \in PacketsOf(seen', k) :
        Packet[i].sequence = Packet[j].sequence /\ Packet[i].sequence < MaxU64 => i = j
  BY <1>1, <1>3, <1>4, <1>8 DEF p
<1>10. ASSUME NEW l \in Streams, l # k
       PROVE  /\ head'[l] = NoId => PacketsOf(seen', l) = {}
              /\ head'[l] # NoId => {Packet[i].sequence : i \in PacketsOf(seen', l)}
                                      = 0 .. Packet[head'[l]].sequence
              /\ \A i, j \in PacketsOf(seen', l) :
                   Packet[i].sequence = Packet[j].sequence /\ Packet[i].sequence < MaxU64
                     => i = j
  <2>1. head'[l] = head[l] /\ PacketsOf(seen', l) = PacketsOf(seen, l)
    BY <1>3, <1>10
  <2> QED BY <2>1 DEF Numbered
<1>11. /\ head'[k] = id /\ head'[k] # NoId
       /\ {Packet[i].sequence : i \in PacketsOf(seen', k)} = 0 .. Packet[head'[k]].sequence
  BY <1>1, <1>3, <1>5, <1>7 DEF p
<1> QED BY <1>9, <1>10, <1>11 DEF Numbered

LEMMA NumberedStep == SyncInv /\ AllNumbered /\ [Next]_vars => AllNumbered'
<1> SUFFICES ASSUME SyncInv, AllNumbered, [Next]_vars PROVE AllNumbered'
  OBVIOUS
<1>1. ASSUME NEW id \in Ids, ReceiveSyncPacket(id) PROVE AllNumbered'
  <2>1. CASE Accept(id)
    BY <1>1, <2>1, AcceptNumbers DEF ReceiveSyncPacket, AllNumbered
  <2>2. CASE UNCHANGED syncState
    BY <1>1, <2>2 DEF ReceiveSyncPacket, AllNumbered, syncState
  <2> QED BY <1>1, <2>1, <2>2 DEF ReceiveSyncPacket
<1>2. ASSUME NEW t \in Installs, InstallStep(t) \/ InstallFails(t) PROVE AllNumbered'
  BY <1>2 DEF InstallStep, InstallFails, InstallLocus, PutChunk, PutManifest, AllNumbered, syncState
<1>3. CASE (\E t \in 0 .. MaxTime : Revoke(t)) \/ Tick \/ UNCHANGED vars
  BY <1>3 DEF Revoke, Tick, vars, AllNumbered, syncState
<1>4. CASE Save
  BY <1>4 DEF Save, AllNumbered, syncState
<1>5. CASE Crash
  BY <1>5 DEF Crash, AllNumbered
<1> QED BY <1>1, <1>2, <1>3, <1>4, <1>5 DEF Next

\* However packets are lost, repeated, reordered or sent twice with one number,
\* the accepted packets of a sender and branch are numbered without a gap up to
\* the head (validate_next), and none below u64::MAX comes twice; saved ones too.
THEOREM StreamsAreNumbered == Spec => []AllNumbered
<1>1. Init => AllNumbered
  BY DEF Init, AllNumbered, Numbered, PacketsOf
<1> QED BY <1>1, SyncAlways, NumberedStep, PTL DEF Spec

\* What was saved was accepted, and a save never goes back behind an earlier one.
SavedBehind == saved.seen \subseteq seen
SavesAdvance ==
  /\ saved.seen \subseteq saved'.seen
  /\ \A k \in Streams : saved.head[k] # NoId =>
       /\ saved'.head[k] # NoId
       /\ Packet[saved.head[k]].sequence <= Packet[saved'.head[k]].sequence

LEMMA SavedBehindStep ==
  SyncInv /\ SavedBehind /\ AllNumbered /\ [Next]_vars => SavedBehind' /\ SavesAdvance
<1> SUFFICES ASSUME SyncInv, SavedBehind, AllNumbered, [Next]_vars
             PROVE  SavedBehind' /\ SavesAdvance
  OBVIOUS
<1>0. \A k \in Streams : saved.head[k] # NoId =>
        /\ saved.head[k] \in Ids /\ saved.head[k] \in saved.seen
        /\ Packet[saved.head[k]].stream = k
        /\ Packet[saved.head[k]].sequence \in Nat
  BY PacketParts DEF SyncInv, SyncTypes, OpenChain, Chain
<1>1. CASE saved' = saved
  <2>1. SavesAdvance
    BY <1>0, <1>1 DEF SavesAdvance
  <2>2. seen \subseteq seen' \/ seen' = saved.seen
    BY DEF Next, vars, ReceiveSyncPacket, Accept, InstallStep, InstallFails, InstallLocus,
       PutChunk, PutManifest, Revoke, Save, Crash, Tick, syncState
  <2> QED BY <1>1, <2>1, <2>2 DEF SavedBehind
<1>2. CASE Save
  <2>1. saved'.seen = seen /\ saved'.head = head /\ seen' = seen
    BY <1>2 DEF Save, syncState
  <2>2. ASSUME NEW k \in Streams, saved.head[k] # NoId
        PROVE  head[k] # NoId /\ Packet[saved.head[k]].sequence <= Packet[head[k]].sequence
    <3>1. saved.head[k] \in PacketsOf(seen, k)
      BY <1>0, <2>2 DEF SavedBehind, PacketsOf
    <3>2. /\ head[k] # NoId
          /\ {Packet[id].sequence : id \in PacketsOf(seen, k)} = 0 .. Packet[head[k]].sequence
      BY <3>1 DEF AllNumbered, Numbered
    <3>3. Packet[head[k]].sequence \in Nat
      BY <3>2, PacketParts DEF SyncInv, SyncTypes
    <3>4. Packet[saved.head[k]].sequence \in 0 .. Packet[head[k]].sequence
      BY <3>1, <3>2
    <3> QED BY <3>2, <3>3, <3>4
  <2> QED BY <2>1, <2>2 DEF SavesAdvance, SavedBehind
<1> QED BY <1>1, <1>2 DEF Next, vars, ReceiveSyncPacket, InstallStep, InstallFails,
        InstallLocus, PutChunk, PutManifest, Revoke, Crash, Tick

\* A crash may undo what was accepted, never what was saved: no step takes a
\* saved packet back or moves a saved head to a lower number.
THEOREM SavesOnlyAdvance == Spec => [][SavesAdvance]_vars
<1>1. Init => AllNumbered /\ SavedBehind
  BY DEF Init, AllNumbered, Numbered, PacketsOf, SavedBehind
<1>2. SyncInv /\ SavedBehind /\ AllNumbered /\ [Next]_vars => [SavesAdvance]_vars
  BY SavedBehindStep
<1>3. SyncInv /\ SavedBehind /\ AllNumbered /\ [Next]_vars => SavedBehind'
  BY SavedBehindStep
<1> QED BY <1>1, <1>2, <1>3, SyncAlways, NumberedStep, PTL DEF Spec
=============================================================================
