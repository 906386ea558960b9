---------------------------- MODULE PacketJournal ----------------------------
(***************************************************************************)
(* What a peer that receives Loci promises, whatever the network delivers,  *)
(* however many calls install at once and whenever it is killed: a packet   *)
(* is accepted only behind the one it names and never beside a rival, a     *)
(* save covers only packets whose Cells are installed, a restart goes back  *)
(* to the last save, and nothing is accepted once a revocation is in force. *)
(* There are no heads, calls, chunks or failures here: LocusSync, which has *)
(* them, implements it.                                                     *)
(***************************************************************************)
EXTENDS Naturals

CONSTANTS
  Packet,    \* the packet with each identity
  MaxU64,    \* the largest sequence number
  MaxTime    \* BOUND: the last instant of the clock

VARIABLES
  accepted,   \* the packets accepted since the last restart, or saved
  durable,    \* the packets accepted for good
  installed,  \* the Cells that can be read
  recorded,   \* the revocation times on record
  now

vars == <<accepted, durable, installed, recorded, now>>

Init ==
  /\ accepted = {} /\ durable = {} /\ installed = {}
  /\ recorded = {} /\ now = 0

Following(n) == IF n = MaxU64 THEN n ELSE n + 1

\* The place behind the packet that id names, or the first of its stream, is free.
Extends(id) ==
  LET p == Packet[id]
      q == Packet[p.previous]
  IN /\ \A j \in accepted : ~(/\ Packet[j].stream = p.stream
                              /\ Packet[j].previous = p.previous)
     /\ p.sequence # 0 => /\ p.previous \in accepted
                          /\ p.stream = q.stream
                          /\ p.sequence = Following(q.sequence)

Accept(id) ==
  /\ Packet[id].intact /\ Packet[id].addressed /\ Packet[id].canonical
  /\ now <= Packet[id].expiry
  /\ \A t \in recorded : now < t
  /\ Extends(id)
  /\ accepted' = accepted \cup {id}
  /\ UNCHANGED <<durable, installed, recorded, now>>

Install(c) ==
  /\ \E id \in accepted : c \in Packet[id].cells
  /\ installed' = installed \cup {c}
  /\ UNCHANGED <<accepted, durable, recorded, now>>

Save ==
  /\ \A id \in accepted : Packet[id].cells \subseteq installed
  /\ durable' = accepted
  /\ UNCHANGED <<accepted, installed, recorded, now>>

Restart ==
  /\ accepted' = durable
  /\ UNCHANGED <<durable, installed, recorded, now>>

Record(t) ==
  /\ recorded' = recorded \cup {t}
  /\ UNCHANGED <<accepted, durable, installed, now>>

Tick ==
  /\ now' = now + 1
  /\ UNCHANGED <<accepted, durable, installed, recorded>>

Next ==
  \/ \E id \in DOMAIN Packet : Accept(id)
  \/ \E id \in accepted : \E c \in Packet[id].cells : Install(c)
  \/ \E t \in 0 .. MaxTime : Record(t)
  \/ Save \/ Restart \/ Tick

Spec == Init /\ [][Next]_vars

-----------------------------------------------------------------------------

\* What a restart will refuse as a Replay can be read.
DurableInstalled == \A id \in durable : Packet[id].cells \subseteq installed
=============================================================================
