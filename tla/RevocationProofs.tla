-------------------------- MODULE RevocationProofs --------------------------
(***************************************************************************)
(* Revocation and catalog take no lock.  What makes them safe together is   *)
(* an order: a statement is in the directory before it is answered, the     *)
(* catalog lists the directory before the receipts, and the directory never *)
(* loses a name.  For any number of calls, publications and crashes.        *)
(***************************************************************************)
EXTENDS Revocations, TLAPS

ReaderStates ==
    [at : {"idle", "receipts", "answered"},
     hidden : SUBSET Publications, listed : SUBSET Publications,
     settled : SUBSET Publications]

\* A call that is about to answer has its publication in the directory.
AnswersAreWritten ==
    \A r \in Requests :
        request[r].at = "answer" =>
            revocation[Subject[request[r].statement]] # NoStatement

\* A catalog hides what was revoked when it was asked for.
ReadersHide ==
    \A k \in Readers :
        /\ reader[k].at = "receipts" => reader[k].settled \subseteq reader[k].hidden
        /\ reader[k].at = "answered" => reader[k].listed \cap reader[k].settled = {}

RevocationInv ==
    TypeOK /\ AcknowledgedRevocationsKept /\ AnswersAreWritten /\ ReadersHide

-----------------------------------------------------------------------------
\* Nothing is written, answered or read.
LEMMA RevocationInitially == Init => RevocationInv
BY StatementsAssumption DEF Init, RevocationInv, TypeOK, AcknowledgedRevocationsKept,
    AnswersAreWritten, ReadersHide, IdleRequest, IdleReader

\* What the catalog reads from the directory.
LEMMA StemsCover ==
    ASSUME RevocationInv
    PROVE  /\ FileStems \subseteq Publications
           /\ {Subject[s] : s \in acked} \subseteq FileStems
           /\ InFlight \subseteq Publications
<1>1. InFlight \subseteq Publications
    BY StatementsAssumption DEF InFlight, RevocationInv, TypeOK
<1>2. {Subject[s] : s \in acked} \subseteq {p \in Publications : revocation[p] # NoStatement}
    BY StatementsAssumption DEF RevocationInv, TypeOK, AcknowledgedRevocationsKept
<1> QED BY <1>1, <1>2 DEF FileStems, RevocationInv, TypeOK

\* A request that holds a statement holds one of the statements.
LEMMA HeldStatement ==
    ASSUME RevocationInv, NEW r \in Requests, request[r].at # "idle"
    PROVE  request[r].statement \in Statements /\ Subject[request[r].statement] \in Publications
BY StatementsAssumption DEF RevocationInv, TypeOK

\* Every step of a request, of a reader and of the process keeps the
\* invariant.
LEMMA RevocationStep == RevocationInv /\ [Next]_vars => RevocationInv'
<1> SUFFICES ASSUME RevocationInv, [Next]_vars PROVE RevocationInv'
    OBVIOUS
<1> USE StatementsAssumption DEF RevocationInv
<1>1. ASSUME NEW p \in Publications, Publish(p) PROVE RevocationInv'
    BY <1>1 DEF Publish, TypeOK, AcknowledgedRevocationsKept, AnswersAreWritten, ReadersHide
<1>2. ASSUME NEW r \in Requests, NEW s \in Statements, Revoke(r, s) PROVE RevocationInv'
    <2>1. TypeOK'
        BY <1>2 DEF Revoke, TypeOK
    <2>2. AcknowledgedRevocationsKept'
        BY <1>2 DEF Revoke, TypeOK, AcknowledgedRevocationsKept
    <2>3. AnswersAreWritten'
        BY <1>2 DEF Revoke, TypeOK, AnswersAreWritten
    <2>4. ReadersHide'
        BY <1>2 DEF Revoke, ReadersHide
    <2> QED BY <2>1, <2>2, <2>3, <2>4
<1>3. ASSUME NEW r \in Requests, WriteTemporary(r) PROVE RevocationInv'
    BY <1>3 DEF WriteTemporary, TypeOK, AcknowledgedRevocationsKept, AnswersAreWritten,
        ReadersHide
<1>4. ASSUME NEW r \in Requests, WriteIncomplete(r) PROVE RevocationInv'
    <2>1. TypeOK'
        BY <1>4, HeldStatement DEF WriteIncomplete, TypeOK, IdleRequest
    <2> QED BY <1>4, <2>1 DEF WriteIncomplete, TypeOK, IdleRequest,
            AcknowledgedRevocationsKept, AnswersAreWritten, ReadersHide
<1>5. ASSUME NEW r \in Requests, RenameTemporary(r) PROVE RevocationInv'
    <2>1. /\ request[r].statement \in Statements
          /\ Subject[request[r].statement] \in Publications
        BY <1>5, HeldStatement DEF RenameTemporary
    <2>2. /\ revocation' \in [Publications -> Statements \cup {NoStatement}]
          /\ revocation'[Subject[request[r].statement]] = request[r].statement
          /\ \A p \in Publications \ {Subject[request[r].statement]} :
                revocation'[p] = revocation[p]
        BY <1>5, <2>1 DEF RenameTemporary, TypeOK
    <2>3. TypeOK'
        BY <1>5, <2>1, <2>2 DEF RenameTemporary, TypeOK
    <2>4. AcknowledgedRevocationsKept'
        BY <1>5, <2>1, <2>2 DEF RenameTemporary, TypeOK, AcknowledgedRevocationsKept
    <2>5. AnswersAreWritten'
        <3> SUFFICES ASSUME NEW q \in Requests, request'[q].at = "answer"
                     PROVE  revocation'[Subject[request'[q].statement]] # NoStatement
            BY DEF AnswersAreWritten
        <3>1. CASE q = r
            BY <1>5, <2>1, <2>2, <3>1 DEF RenameTemporary, TypeOK
        <3>2. CASE q # r
            BY <1>5, <2>1, <2>2, <3>2, HeldStatement DEF RenameTemporary, TypeOK,
                AnswersAreWritten
        <3> QED BY <3>1, <3>2
    <2>6. ReadersHide'
        BY <1>5 DEF RenameTemporary, ReadersHide
    <2> QED BY <2>3, <2>4, <2>5, <2>6
<1>6. ASSUME NEW r \in Requests, Answer(r) PROVE RevocationInv'
    <2>1. request[r].statement \in Statements
        BY <1>6, HeldStatement DEF Answer
    <2>2. TypeOK'
        BY <1>6, <2>1 DEF Answer, TypeOK, IdleRequest
    <2>3. AcknowledgedRevocationsKept'
        BY <1>6 DEF Answer, AcknowledgedRevocationsKept, AnswersAreWritten
    <2>4. AnswersAreWritten' /\ ReadersHide'
        BY <1>6 DEF Answer, TypeOK, IdleRequest, AnswersAreWritten, ReadersHide
    <2> QED BY <2>2, <2>3, <2>4
<1>7. ASSUME NEW k \in Readers, ReadRevoked(k) PROVE RevocationInv'
    <2> DEFINE settled == {Subject[s] : s \in acked}
    <2>1. /\ FileStems \subseteq Publications
          /\ settled \subseteq FileStems
        BY StemsCover
    <2> HIDE DEF settled
    <2>2. reader' = [reader EXCEPT ![k] =
             [at |-> "receipts", hidden |-> FileStems, listed |-> {}, settled |-> settled]]
        BY <1>7 DEF ReadRevoked, settled
    <2>3. TypeOK'
        BY <1>7, <2>1, <2>2 DEF ReadRevoked, TypeOK
    <2>4. ReadersHide'
        BY <1>7, <2>1, <2>2 DEF ReadRevoked, TypeOK, ReadersHide
    <2> QED BY <1>7, <2>3, <2>4 DEF ReadRevoked, AcknowledgedRevocationsKept, AnswersAreWritten
<1>8. ASSUME NEW k \in Readers, ListReceipts(k) PROVE RevocationInv'
    <2>1. published \ reader[k].hidden \in SUBSET Publications
        BY DEF TypeOK
    <2>2. reader' \in [Readers -> ReaderStates]
        <3>1. reader \in [Readers -> ReaderStates]
            BY DEF TypeOK, ReaderStates
        <3>2. /\ reader[k].hidden \in SUBSET Publications
              /\ reader[k].settled \in SUBSET Publications
            BY <3>1 DEF ReaderStates
        <3> DEFINE left == published \ reader[k].hidden
        <3> HIDE DEF left
        <3>3. reader' = [reader EXCEPT ![k].at = "answered", ![k].listed = left]
            BY <1>8 DEF ListReceipts, left
        <3>4. left \in SUBSET Publications
            BY <2>1 DEF left
        <3> QED BY <3>1, <3>2, <3>3, <3>4 DEF ReaderStates
    <2>4. TypeOK'
        BY <1>8, <2>2 DEF ListReceipts, TypeOK, ReaderStates
    <2>3. ReadersHide'
        BY <1>8 DEF ListReceipts, TypeOK, ReadersHide
    <2> QED BY <1>8, <2>3, <2>4 DEF ListReceipts, AcknowledgedRevocationsKept, AnswersAreWritten
<1>9. ASSUME NEW k \in Readers, Forget(k) PROVE RevocationInv'
    <2>1. TypeOK' /\ ReadersHide'
        BY <1>9 DEF Forget, IdleReader, TypeOK, ReadersHide
    <2> QED BY <1>9, <2>1 DEF Forget, AcknowledgedRevocationsKept, AnswersAreWritten
<1>10. CASE Crash
    <2>1. TypeOK'
        BY <1>10, StemsCover DEF Crash, TypeOK, IdleRequest, IdleReader
    <2> QED BY <1>10, <2>1 DEF Crash, IdleRequest, IdleReader, AcknowledgedRevocationsKept,
            AnswersAreWritten, ReadersHide
<1>11. CASE UNCHANGED vars
    BY <1>11 DEF vars, TypeOK, AcknowledgedRevocationsKept, AnswersAreWritten, ReadersHide
<1> QED BY <1>1, <1>2, <1>3, <1>4, <1>5, <1>6, <1>7, <1>8, <1>9, <1>10, <1>11
        DEF Next, RequestStep

\* The inductive invariant holds always.
LEMMA RevocationInvariant == Spec => []RevocationInv
BY RevocationInitially, RevocationStep, PTL DEF Spec

\* AcknowledgedRevocationsKept: an accepted revocation outlives any number of
\* crashes, incomplete writes and competing statements.
THEOREM AcknowledgedRevocationsKeptHolds == Spec => []AcknowledgedRevocationsKept
<1>1. RevocationInv => AcknowledgedRevocationsKept
    BY DEF RevocationInv
<1> QED BY <1>1, RevocationInvariant, PTL

\* RevokedNotListed: a catalog asked for after a revocation was answered does
\* not list its publication.
THEOREM RevokedNotListedHolds == Spec => []RevokedNotListed
<1>1. RevocationInv => RevokedNotListed
    BY DEF RevocationInv, ReadersHide, RevokedNotListed
<1> QED BY <1>1, RevocationInvariant, PTL

-----------------------------------------------------------------------------
(* Whose statement is kept.  Two rival statements that overlap can both be  *)
(* answered (the run revoked_once): both calls found no file before either  *)
(* wrote its own.  Nothing else lets one statement take the place of        *)
(* another.                                                                *)

\* Calls that overlap on one publication carry the same statement.
Unrivalled ==
    \A q, r \in Requests :
        /\ request[q].at # "idle" /\ request[r].at # "idle"
        /\ Subject[request[q].statement] = Subject[request[r].statement]
        => request[q].statement = request[r].statement

\* What a call found when it looked still holds, but for its own statement.
CallsFoundNoOther ==
    \A r \in Requests :
        request[r].at # "idle" =>
            revocation[Subject[request[r].statement]] \in
                {NoStatement, request[r].statement}
AnsweredOnesStored ==
    /\ \A s \in acked : revocation[Subject[s]] = s
    /\ \A r \in Requests :
         request[r].at = "answer" =>
             revocation[Subject[request[r].statement]] = request[r].statement
FirstInv == CallsFoundNoOther /\ AnsweredOnesStored

StatementsStay ==
    \A p \in Publications :
        revocation[p] # NoStatement => revocation'[p] = revocation[p]

\* A rename puts a statement where there is none, or where it already is.
LEMMA FirstStep ==
    ASSUME RevocationInv, FirstInv, Unrivalled, [Next]_vars
    PROVE  FirstInv' /\ StatementsStay
<1> USE StatementsAssumption DEF FirstInv
<1>0. /\ revocation \in [Publications -> Statements \cup {NoStatement}]
      /\ acked \subseteq Statements
      /\ request \in [Requests -> [at : {"idle", "write", "rename", "answer"},
                                   statement : Statements \cup {NoStatement}]]
    BY DEF RevocationInv, TypeOK
<1>1. ASSUME UNCHANGED revocation, acked' \subseteq acked,
             \A r \in Requests :
                request'[r].at # "idle" =>
                    /\ request[r].at # "idle"
                    /\ request'[r].statement = request[r].statement
                    /\ request'[r].at = "answer" => request[r].at = "answer"
      PROVE  FirstInv' /\ StatementsStay
    BY <1>0, <1>1 DEF CallsFoundNoOther, AnsweredOnesStored, StatementsStay
<1>2. ASSUME NEW r \in Requests, NEW s \in Statements, Revoke(r, s)
      PROVE  FirstInv' /\ StatementsStay
    <2>1. CASE revocation[Subject[s]] = NoStatement
        BY <1>0, <1>2, <2>1 DEF Revoke, CallsFoundNoOther, AnsweredOnesStored, StatementsStay
    <2>2. CASE revocation[Subject[s]] # NoStatement
        BY <1>0, <1>2, <2>2 DEF Revoke, CallsFoundNoOther, AnsweredOnesStored, StatementsStay
    <2> QED BY <2>1, <2>2
<1>3. ASSUME NEW r \in Requests, RenameTemporary(r)
      PROVE  FirstInv' /\ StatementsStay
    <2> DEFINE s == request[r].statement
               p == Subject[s]
    <2>1. s \in Statements /\ p \in Publications /\ request[r].at = "rename"
        BY <1>3, HeldStatement DEF RenameTemporary
    <2>2. revocation[p] \in {NoStatement, s}
        BY <2>1 DEF CallsFoundNoOther
    <2>3. /\ revocation' = [revocation EXCEPT ![p] = s]
          /\ request' = [request EXCEPT ![r].at = "answer"]
          /\ acked' = acked
        BY <1>3 DEF RenameTemporary
    <2>4. \A q \in Requests :
             /\ request'[q].statement = request[q].statement
             /\ request'[q].at # "idle" => request[q].at # "idle"
             /\ q # r => request'[q].at = request[q].at
        BY <1>0, <2>1, <2>3
    <2>5. \A q \in Requests :
             request[q].at # "idle" /\ Subject[request[q].statement] = p
                => request[q].statement = s
        BY <2>1 DEF Unrivalled
    <2> HIDE DEF s, p
    <2>6. \A t \in acked : Subject[t] = p => t = s
        BY <1>0, <2>2 DEF AnsweredOnesStored
    <2>7. revocation'[p] = s /\ \A o \in Publications : o # p => revocation'[o] = revocation[o]
        BY <1>0, <2>1, <2>3
    <2>8. StatementsStay
        BY <2>2, <2>7 DEF StatementsStay
    <2>9. \A q \in Requests :
             request[q].at # "idle" => Subject[request[q].statement] \in Publications
        BY HeldStatement
    <2>10. CallsFoundNoOther'
        BY <2>4, <2>5, <2>7, <2>9 DEF CallsFoundNoOther
    <2>11. \A t \in acked' : revocation'[Subject[t]] = t
        BY <1>0, <2>3, <2>6, <2>7 DEF AnsweredOnesStored
    <2>12. \A q \in Requests :
             request'[q].at = "answer" =>
                 revocation'[Subject[request'[q].statement]] = request'[q].statement
        <3> TAKE q \in Requests
        <3>1. CASE q = r
            BY <2>4, <2>7, <3>1 DEF s, p
        <3>2. CASE q # r
            BY <2>4, <2>5, <2>7, <2>9, <3>2 DEF AnsweredOnesStored
        <3> QED BY <3>1, <3>2
    <2> QED BY <2>8, <2>10, <2>11, <2>12 DEF AnsweredOnesStored
<1>4. ASSUME NEW r \in Requests, Answer(r) PROVE FirstInv' /\ StatementsStay
    BY <1>0, <1>4 DEF Answer, IdleRequest, CallsFoundNoOther, AnsweredOnesStored, StatementsStay
<1>5. ASSUME NEW r \in Requests, WriteTemporary(r) \/ WriteIncomplete(r)
      PROVE  FirstInv' /\ StatementsStay
    BY <1>0, <1>1, <1>5 DEF WriteTemporary, WriteIncomplete, IdleRequest
<1>6. CASE Crash
    BY <1>1, <1>6 DEF Crash, IdleRequest
<1>7. CASE \/ \E p \in Publications : Publish(p)
           \/ \E k \in Readers : ReadRevoked(k) \/ ListReceipts(k) \/ Forget(k)
           \/ UNCHANGED vars
    BY <1>1, <1>7 DEF Publish, ReadRevoked, ListReceipts, Forget, vars
<1> QED BY <1>2, <1>3, <1>4, <1>5, <1>6, <1>7 DEF Next, RequestStep

\* FirstStatementWins where rival statements do not overlap, through crashes,
\* incomplete writes and a statement sent again: the accepted statement is the
\* one that is kept, and no stored statement is ever replaced.
THEOREM FirstStatementWinsUnrivalled ==
    Spec /\ []Unrivalled => []FirstStatementWins /\ [][StatementsStay]_vars
<1>1. Init => FirstInv
    BY DEF Init, FirstInv, CallsFoundNoOther, AnsweredOnesStored, IdleRequest
<1>2. FirstInv => FirstStatementWins
    BY DEF FirstInv, AnsweredOnesStored, FirstStatementWins
<1>3. RevocationInv /\ FirstInv /\ Unrivalled /\ [Next]_vars => FirstInv' /\ StatementsStay
    BY FirstStep
<1> QED BY <1>1, <1>2, <1>3, RevocationInvariant, PTL DEF Spec
=============================================================================
