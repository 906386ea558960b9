---------------------------- MODULE MCWeaveNode ----------------------------
(* Instances of WeaveNode for TLC.  One byte stands for 64 KiB. *)
EXTENDS WeaveNode, TLC

CONSTANTS p1, p2, d1, d2, u1, u2, u3, c1, c2

\* Two publishers; a content of two bytes, and one of one byte that both sign.
MCSize == d1 :> 2 @@ d2 :> 1
MCIntent ==
  [u \in Uploads |->
     CASE u = u1 -> [publisher |-> p1, digest |-> d1, bytes |-> 2]
       [] u = u2 -> [publisher |-> p1, digest |-> d2, bytes |-> 1]
       [] u = u3 -> [publisher |-> p2, digest |-> d2, bytes |-> 1]]

MCLimits(chunk, receiptsEach, receiptsTotal, pending, retained, activeEach, active) ==
  "chunk_bytes" :> chunk @@ "max_object_bytes" :> 2
  @@ "max_publisher_bytes" :> 2 @@ "max_pending_bytes" :> pending
  @@ "max_retained_bytes" :> retained
  @@ "max_active_uploads" :> active
  @@ "max_active_uploads_per_publisher" :> activeEach
  @@ "max_publications" :> receiptsTotal
  @@ "max_publications_per_publisher" :> receiptsEach

\* A content of two bytes takes two chunks.
OverlapPolicy == MCLimits(1, 2, 2, 3, 3, 2, 2)
\* Three uploads compete for three bytes; a publisher has one session at a time.
LedgerPolicy == MCLimits(2, 2, 3, 3, 3, 1, 2)
\* One receipt, although a publisher may have the bytes of both contents.
FaultPolicy ==
  [MCLimits(2, 1, 1, 3, 3, 2, 2) EXCEPT !["max_publisher_bytes"] = 3]
\* One session at a time.
ProgressPolicy == MCLimits(2, 2, 2, 3, 3, 1, 1)
Symmetry == Permutations(Commits)
=============================================================================
