----------------------------- MODULE MCLocusSync -----------------------------
(* An instance of LocusSync for TLC. *)
EXTENDS LocusSync, TLC

CONSTANTS a, b, i0, i1, g1, j0, j1, f0, x, y, k1, k2, t1, t2

MCPacket(stream, sequence, previous, cells) ==
  [stream |-> stream, sequence |-> sequence, previous |-> previous,
   cells |-> cells, intact |-> TRUE, addressed |-> TRUE, canonical |-> TRUE,
   expiry |-> Never]

\* Stream a is one chain beside a packet that is not canonical.  Stream b starts
\* twice, as with a sender that lost its state, and the first of the two starts,
\* which another packet follows, has a witness receipt that expires.
MCTable ==
  i0 :> MCPacket(a, 0, NoId, {x})
  @@ i1 :> MCPacket(a, 1, i0, {x, y})
  @@ g1 :> [MCPacket(a, 1, i0, {y}) EXCEPT !.canonical = FALSE]
  @@ j0 :> [MCPacket(b, 0, NoId, {y}) EXCEPT !.expiry = 0]
  @@ j1 :> MCPacket(b, 1, j0, {x})
  @@ f0 :> MCPacket(b, 0, NoId, {x})

MCPackets == [id \in Ids |-> MCTable[id]]

\* The Cells share a chunk.
MCChunksOf == [c \in Cells |-> IF c = x THEN {k1, k2} ELSE {k2}]
=============================================================================
