-------------------------- MODULE PublicationLedger --------------------------
(***************************************************************************)
(* What an Object Weave node promises about its storage, whatever its      *)
(* handlers, locks and files do: an upload is opened only when its bytes   *)
(* can be reserved, an object is retained only for an open upload, and a   *)
(* receipt is issued only for a retained object.  WeaveNode implements it. *)
(***************************************************************************)
EXTENDS WeavePolicy

VARIABLES
  open,      \* uploads with a session
  objects,   \* digests of the retained objects
  receipts   \* uploads with a publication receipt

vars == <<open, objects, receipts>>

Init == open = {} /\ objects = {} /\ receipts = {}

\* The bytes retained, with what the uploads of S may still add to them.
Claim(S) == ByteSum(Size, objects) + ByteSum(Declared, Unstored(S, objects))

WithinPending(S) ==
  /\ Cardinality(S) <= Policy["max_active_uploads"]
  /\ \A u \in S : Cardinality(OfPublisher(S, u))
                    <= Policy["max_active_uploads_per_publisher"]
  /\ ByteSum(Declared, S) <= Policy["max_pending_bytes"]

\* begin_upload
Open(u) ==
  /\ u \notin open
  /\ Intent[u].bytes <= Policy["max_object_bytes"]
  /\ WithinPending(open \cup {u})
  /\ Claim(open \cup {u}) <= Policy["max_retained_bytes"]
  /\ open' = open \cup {u}
  /\ UNCHANGED <<objects, receipts>>

\* A session expires, or its upload has been published.
Close(u) ==
  /\ u \in open
  /\ open' = open \ {u}
  /\ UNCHANGED <<objects, receipts>>

\* A commit retains the admitted content of an open upload.
Retain(u) ==
  /\ u \in open
  /\ u \in Admitted
  /\ Intent[u].bytes = Size[Intent[u].digest]
  /\ objects' = objects \cup {Intent[u].digest}
  /\ UNCHANGED <<open, receipts>>

\* It issues the receipt once the object is retained.
Publish(u) ==
  /\ Intent[u].digest \in objects
  /\ Intent[u].bytes = Size[Intent[u].digest]
  /\ receipts' = receipts \cup {u}
  /\ UNCHANGED <<open, objects>>

Next == \E u \in Uploads : Open(u) \/ Close(u) \/ Retain(u) \/ Publish(u)

Spec == Init /\ [][Next]_vars

-----------------------------------------------------------------------------

TypeOK == open \subseteq Uploads /\ objects \subseteq Digests /\ receipts \subseteq Uploads

\* The retained bytes, with every reservation, stay within max_retained_bytes:
\* a commit that was admitted never runs out of space.
Reserved == Claim(open) <= Policy["max_retained_bytes"]

\* The open uploads stay within the session and byte limits of the node and of
\* each publisher.
PendingWithinPolicy == WithinPending(open)
=============================================================================
