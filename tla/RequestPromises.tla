-------------------------- MODULE RequestPromises --------------------------
(***************************************************************************)
(* What the pages' request clients promise their callers: a request settles *)
(* once and for good, hears only about its own payload and only while it    *)
(* waits, except that one that was cancelled may hear one thing more.       *)
(* There are no ids, no messages, no worker, no chunks and no failures      *)
(* here: OffThread, which has them, implements it.                          *)
(***************************************************************************)
EXTENDS Naturals

CONSTANT Requests

VARIABLES
    state,       \* of the promise of each request
    cancelled,   \* whether its caller has given it up
    answer,      \* the payloads its callbacks and its promise were given
    late         \* how often it was given one after that

vars == <<state, cancelled, answer, late>>

Init ==
    /\ state = [r \in Requests |-> "unsent"]
    /\ cancelled = [r \in Requests |-> FALSE]
    /\ answer = [r \in Requests |-> {}]
    /\ late = [r \in Requests |-> 0]

Ask(r) ==
    /\ state[r] = "unsent"
    /\ state' = [state EXCEPT ![r] = "waiting"]
    /\ UNCHANGED <<cancelled, answer, late>>

\* A busy or destroyed client rejects the request at once.
Refuse(r) ==
    /\ state[r] = "unsent"
    /\ state' = [state EXCEPT ![r] = "rejected"]
    /\ UNCHANGED <<cancelled, answer, late>>

\* Progress, which a cancelled request hears at most once, and then ends.
Report(r) ==
    /\ state[r] = "waiting" /\ ~cancelled[r]
    /\ answer' = [answer EXCEPT ![r] = {r}]
    /\ UNCHANGED <<state, cancelled, late>>

ReportLate(r) ==
    /\ cancelled[r] /\ late[r] = 0
    /\ state' = [state EXCEPT ![r] = IF @ = "waiting" THEN "rejected" ELSE @]
    /\ answer' = [answer EXCEPT ![r] = {r}]
    /\ late' = [late EXCEPT ![r] = 1]
    /\ UNCHANGED cancelled

Settle(r, outcome) ==
    /\ state[r] = "waiting" /\ late[r] = 0
    /\ state' = [state EXCEPT ![r] = outcome]
    /\ answer' = [answer EXCEPT ![r] = {r}]
    /\ late' = [late EXCEPT ![r] = IF cancelled[r] THEN 1 ELSE 0]
    /\ UNCHANGED cancelled

\* A cancelled request is rejected at once, or when its client finds out.
Cancel(r, atOnce) ==
    /\ state[r] # "unsent" /\ ~cancelled[r]
    /\ state' = [state EXCEPT ![r] = IF atOnce /\ @ = "waiting" THEN "rejected" ELSE @]
    /\ cancelled' = [cancelled EXCEPT ![r] = TRUE]
    /\ UNCHANGED <<answer, late>>

FindOut(r) ==
    /\ state[r] = "waiting" /\ cancelled[r]
    /\ state' = [state EXCEPT ![r] = "rejected"]
    /\ UNCHANGED <<cancelled, answer, late>>

\* With its worker go the requests it was doing, given up with the client or not.
Lose(S, givenUp) ==
    /\ \A r \in S : state[r] = "waiting"
    /\ state' = [r \in Requests |-> IF r \in S THEN "rejected" ELSE state[r]]
    /\ cancelled' = [r \in Requests |-> cancelled[r] \/ (r \in S /\ givenUp)]
    /\ UNCHANGED <<answer, late>>

Next ==
    \/ \E r \in Requests :
         \/ Ask(r) \/ Refuse(r) \/ Report(r) \/ ReportLate(r) \/ FindOut(r)
         \/ \E atOnce \in BOOLEAN : Cancel(r, atOnce)
         \/ \E outcome \in {"resolved", "rejected"} : Settle(r, outcome)
    \/ \E S \in SUBSET Requests, givenUp \in BOOLEAN : Lose(S, givenUp)

Spec == Init /\ [][Next]_vars
=============================================================================
