----------------------------- MODULE Revocations -----------------------------
(***************************************************************************)
(* Discovery revocation in the Object Weave node: revoke_publication and   *)
(* catalog (services/tessaryn-weave-node/src/lib.rs).  Neither takes a     *)
(* lock; they meet in the revocations/ directory, where write_bytes_atomic *)
(* writes a temporary file beside the statement's own and renames it.      *)
(***************************************************************************)
EXTENDS Naturals

CONSTANTS
  Publications, \* publication ids
  Statements,   \* signed PublicationRevocationV1 statements
  Subject,      \* the publication a statement names
  Requests,     \* running revoke_publication calls
  Readers,      \* running catalog calls
  MaxCrashes,   \* BOUND: how often the process may be killed
  NoStatement

ASSUME StatementsAssumption == /\ Subject \in [Statements -> Publications]
                               /\ NoStatement \notin Statements
                               /\ MaxCrashes \in Nat

VARIABLES
  published,    \* publications with a receipt
  revocation,   \* the statement in revocations/<id>.json
  leftover,     \* publications with a temporary file no call will remove
  request,      \* the revoke_publication calls
  reader,       \* the catalog calls
  acked,        \* HISTORY: the statements accepted and answered
  crashes

vars == <<published, revocation, leftover, request, reader, acked, crashes>>

IdleRequest == [at |-> "idle", statement |-> NoStatement]
IdleReader == [at |-> "idle", hidden |-> {}, listed |-> {}, settled |-> {}]

Init ==
  /\ published = {}
  /\ revocation = [p \in Publications |-> NoStatement]
  /\ leftover = {}
  /\ request = [r \in Requests |-> IdleRequest]
  /\ reader = [k \in Readers |-> IdleReader]
  /\ acked = {}
  /\ crashes = 0

-----------------------------------------------------------------------------

\* A commit elsewhere in the node issues a receipt.
Publish(p) ==
  /\ p \notin published
  /\ published' = published \cup {p}
  /\ UNCHANGED <<revocation, leftover, request, reader, acked, crashes>>

\* The receipt is read and the signature verified.  A statement that is already
\* stored is answered again and another one is refused with Conflict: both end
\* the call at once.
Revoke(r, s) ==
  LET p == Subject[s]
  IN /\ request[r].at = "idle" /\ p \in published
     /\ IF revocation[p] = NoStatement
        THEN /\ request' = [request EXCEPT ![r] = [at |-> "write", statement |-> s]]
             /\ UNCHANGED acked
        ELSE /\ acked' = IF revocation[p] = s THEN acked \cup {s} ELSE acked
             /\ UNCHANGED request
     /\ UNCHANGED <<published, revocation, leftover, reader, crashes>>

\* write_bytes_atomic: the temporary file, which an incomplete write leaves
\* behind (the `?` of write_all and sync_all), ...
WriteAnswered(r) ==                           \* fault: answered before the rename
  /\ request[r].at = "write"
  /\ request' = [request EXCEPT ![r].at = "rename"]
  /\ acked' = acked \cup {request[r].statement}
  /\ UNCHANGED <<published, revocation, leftover, reader, crashes>>
WriteTemporary(r) ==
  /\ request[r].at = "write"
  /\ request' = [request EXCEPT ![r].at = "rename"]
  /\ UNCHANGED <<published, revocation, leftover, reader, acked, crashes>>

WriteIncomplete(r) ==
  /\ request[r].at = "rename"
  /\ leftover' = leftover \cup {Subject[request[r].statement]}
  /\ request' = [request EXCEPT ![r] = IdleRequest]
  /\ UNCHANGED <<published, revocation, reader, acked, crashes>>

\* ... then the rename, which replaces whatever is there, ...
RenameTemporary(r) ==
  /\ request[r].at = "rename"
  /\ revocation' = [revocation EXCEPT ![Subject[request[r].statement]] =
                      request[r].statement]
  /\ request' = [request EXCEPT ![r].at = "answer"]
  /\ UNCHANGED <<published, leftover, reader, acked, crashes>>

\* ... and the answer, once the directory is synchronized.
Answer(r) ==
  /\ request[r].at = "answer"
  /\ acked' = acked \cup {request[r].statement}
  /\ request' = [request EXCEPT ![r] = IdleRequest]
  /\ UNCHANGED <<published, revocation, leftover, reader, crashes>>

-----------------------------------------------------------------------------

\* file_stems takes the stem of every file, so the temporary file of a
\* statement stands for its publication as the statement's own file does.
InFlight == {Subject[request[r].statement] : r \in
               {q \in Requests : request[q].at = "rename"}}
FileStems ==
  {p \in Publications : revocation[p] # NoStatement} \cup leftover \cup InFlight

\* catalog first lists revocations/ ...  (settled records what the catalog
\* is held to: the publications whose revocation was answered when the call
\* began)
ReadRevoked(k) ==
  /\ reader[k].at = "idle"
  /\ reader' = [reader EXCEPT ![k] =
                  [at |-> "receipts", hidden |-> FileStems, listed |-> {},
                   settled |-> {Subject[s] : s \in acked}]]
  /\ UNCHANGED <<published, revocation, leftover, request, acked, crashes>>

\* ... and then reads the receipts that are not among them.
ListAll(k) ==                                 \* fault: revoked ones too
  /\ reader[k].at = "receipts"
  /\ reader' = [reader EXCEPT ![k].at = "answered", ![k].listed = published]
  /\ UNCHANGED <<published, revocation, leftover, request, acked, crashes>>
ListReceipts(k) ==
  /\ reader[k].at = "receipts"
  /\ reader' = [reader EXCEPT ![k].at = "answered",
                              ![k].listed = published \ reader[k].hidden]
  /\ UNCHANGED <<published, revocation, leftover, request, acked, crashes>>

Forget(k) ==
  /\ reader[k].at = "answered"
  /\ reader' = [reader EXCEPT ![k] = IdleReader]
  /\ UNCHANGED <<published, revocation, leftover, request, acked, crashes>>

\* A temporary file outlives the process that wrote it.
Crash ==
  /\ crashes < MaxCrashes
  /\ crashes' = crashes + 1
  /\ leftover' = leftover \cup InFlight
  /\ request' = [r \in Requests |-> IdleRequest]
  /\ reader' = [k \in Readers |-> IdleReader]
  /\ UNCHANGED <<published, revocation, acked>>

RequestStep(r) == \/ WriteTemporary(r) \/ WriteIncomplete(r)
                  \/ RenameTemporary(r) \/ Answer(r)

Next ==
  \/ \E p \in Publications : Publish(p)
  \/ \E r \in Requests : RequestStep(r) \/ \E s \in Statements : Revoke(r, s)
  \/ \E k \in Readers : ReadRevoked(k) \/ ListReceipts(k) \/ Forget(k)
  \/ Crash

Spec == Init /\ [][Next]_vars

-----------------------------------------------------------------------------
(* Properties *)

\* Every part of the state has its type, a statement is kept under the id of the
\* publication it names, and an idle request holds none.
TypeOK ==
  /\ published \subseteq Publications
  /\ revocation \in [Publications -> Statements \cup {NoStatement}]
  /\ \A p \in Publications :
       revocation[p] # NoStatement => Subject[revocation[p]] = p
  /\ leftover \subseteq Publications
  /\ \A r \in Requests :
       (request[r].at = "idle") <=> (request[r].statement = NoStatement)
  /\ request \in [Requests -> [at : {"idle", "write", "rename", "answer"},
                               statement : Statements \cup {NoStatement}]]
  /\ reader \in [Readers -> [at : {"idle", "receipts", "answered"},
                             hidden : SUBSET Publications,
                             listed : SUBSET Publications,
                             settled : SUBSET Publications]]
  /\ acked \subseteq Statements
  /\ crashes \in 0 .. MaxCrashes

\* An accepted revocation outlives any crash: its publication keeps a statement.
AcknowledgedRevocationsKept ==
  \A s \in acked : revocation[Subject[s]] # NoStatement

\* A catalog that was asked for after a revocation was answered does not list
\* its publication, although the two share no lock.
RevokedNotListed ==
  \A k \in Readers : reader[k].at = "answered" =>
    reader[k].listed \cap reader[k].settled = {}

\* The first statement wins: the accepted statement is the one that is kept, and
\* "publication was already revoked by a different signed statement" answers
\* every other.
FirstStatementWins ==
  \A s, t \in acked : Subject[s] = Subject[t] => s = t
=============================================================================
