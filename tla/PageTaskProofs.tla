--------------------------- MODULE PageTaskProofs ---------------------------
(***************************************************************************)
(* The page's work in the background, for any number of requests, chunks,   *)
(* messages on their way, failures, scans and views.                        *)
(*                                                                         *)
(* OffThread: an entry of the map of open requests is never that of a       *)
(* cancelled one, and a request that waits after its caller gave it up is    *)
(* one that the page reads itself: only such a reading can still say a word, *)
(* and it ends with that.  Every message is about the request that got its  *)
(* id, so each step is one of RequestPromises or none.                      *)
(* PreviewScan: whatever forgets the views of a scan ends its preview.      *)
(* CellBoot: how many phases were fulfilled decides what the page says of   *)
(* itself, and nothing that completes late changes it.                      *)
(***************************************************************************)
EXTENDS OffThread, PreviewScan, CellBoot, SequenceTheorems, TLAPS

States == {"unsent", "waiting", "resolved", "rejected"}
Calls == [state : States, id : Nat, cancelled : BOOLEAN, answer : SUBSET Requests,
          awaits : Nat, late : Nat]
Words == [kind : {"run", "cancel", "progress", "complete", "error"}, id : Nat,
          payload : Requests]
Work == [id : Nat, told : BOOLEAN, payload : Requests]

ThreadTypes ==
    /\ sequence \in Nat
    /\ pending \subseteq [id : Nat, request : Requests]
    /\ inbox \in Seq(Words) /\ outbox \in Seq(Words)
    /\ jobs \subseteq Work
    /\ call \in [Requests -> Calls]

\* An open request waits for its worker under its own id, and was not cancelled.
OpenOnesWait ==
    \A entry \in pending :
        /\ call[entry.request].id = entry.id
        /\ call[entry.request].state = "waiting"
        /\ call[entry.request].awaits = 0
        /\ ~call[entry.request].cancelled

\* The page reads for requests that wait or were given up, and a cancelled one
\* waits for such a reading only, which is over once it has been heard late.
Sound(c) ==
    /\ c.state = "unsent" => ~c.cancelled /\ c.awaits = 0
    /\ c.awaits > 0 => c.state = "waiting" \/ c.cancelled
    /\ c.cancelled /\ c.state = "waiting" => c.awaits > 0
    /\ c.late \in {0, 1}
    /\ c.late = 1 => c.cancelled /\ c.awaits = 0

ThreadInv == ThreadTypes /\ OpenOnesWait /\ \A r \in Requests : Sound(call[r])

\* From c to d a cancelled request hears nothing, or its reading ends with it.
Quiet(c, d) == c.cancelled /\ d.late # c.late => c.awaits > 0 /\ d.awaits = 0
Silent == \A r \in Requests : Quiet(call[r], call'[r])

-----------------------------------------------------------------------------
\* No request is open and no message is on its way.
LEMMA ThreadInitially == OffThreadInit => ThreadInv
BY DEF OffThreadInit, ThreadInv, ThreadTypes, OpenOnesWait, Sound, Unsent, Calls, States

\* The request of an open id is open.
LEMMA RequestIsOpen ==
    ASSUME ThreadInv, NEW id, Open(id)
    PROVE  /\ RequestOf(id) \in Requests
           /\ [id |-> id, request |-> RequestOf(id)] \in pending
           /\ call[RequestOf(id)].id = id /\ ~call[RequestOf(id)].cancelled
           /\ call[RequestOf(id)].state = "waiting" /\ call[RequestOf(id)].awaits = 0
<1>1. PICK entry \in pending : entry.id = id
    BY DEF Open
<1>2. entry = [id |-> id, request |-> entry.request] /\ entry.request \in Requests
    BY <1>1 DEF ThreadInv, ThreadTypes
<1>3. /\ RequestOf(id) \in Requests
      /\ [id |-> id, request |-> RequestOf(id)] \in pending
    BY <1>2 DEF RequestOf
<1> QED BY <1>3 DEF ThreadInv, OpenOnesWait

\* A step that gives one request a new state, while the entries that stay are of
\* other requests or of the same, which waits for its worker.
LEMMA OneCallStep ==
    ASSUME ThreadInv, NEW r \in Requests, NEW c \in Calls, Sound(c), Quiet(call[r], c),
           call' = [call EXCEPT ![r] = c],
           sequence' \in Nat, pending' \subseteq [id : Nat, request : Requests],
           inbox' \in Seq(Words), outbox' \in Seq(Words), jobs' \subseteq Work,
           \A entry \in pending' :
              \/ entry \in pending /\ entry.request # r
              \/ /\ entry.request = r /\ c.id = entry.id
                 /\ c.state = "waiting" /\ c.awaits = 0 /\ ~c.cancelled
    PROVE  ThreadInv' /\ Silent
<1>1. call \in [Requests -> Calls] /\ \A s \in Requests : Sound(call[s])
    BY DEF ThreadInv, ThreadTypes
<1>2. \A s \in Requests : call'[s] = IF s = r THEN c ELSE call[s]
    BY <1>1
<1>3. \A s \in Requests : Sound(call'[s]) /\ Quiet(call[s], call'[s])
    BY <1>1, <1>2 DEF Quiet
<1>4. ThreadTypes'
    BY <1>1 DEF ThreadTypes
<1>5. OpenOnesWait'
    BY <1>2 DEF ThreadInv, ThreadTypes, OpenOnesWait
<1> QED BY <1>3, <1>4, <1>5 DEF ThreadInv, Silent, Sound

\* A step that drops every open request.
LEMMA AllCallsStep ==
    ASSUME ThreadInv, call' \in [Requests -> Calls], pending' = {},
           \A r \in Requests :
              \/ call'[r] = call[r]
              \/ r \in OpenRequests /\ Sound(call'[r]),
           sequence' \in Nat,
           inbox' \in Seq(Words), outbox' \in Seq(Words), jobs' \subseteq Work
    PROVE  ThreadInv' /\ Silent
<1>1. \A r \in OpenRequests : ~call[r].cancelled
    BY DEF ThreadInv, OpenOnesWait, OpenRequests
<1>2. \A r \in Requests : Sound(call'[r]) /\ Quiet(call[r], call'[r])
    BY <1>1 DEF ThreadInv, Quiet
<1> QED BY <1>2 DEF ThreadInv, ThreadTypes, OpenOnesWait, Silent, Sound

\* A step of the channels or of the worker alone.
LEMMA OtherThreadStep ==
    ASSUME ThreadInv, UNCHANGED <<sequence, pending, call>>,
           inbox' \in Seq(Words), outbox' \in Seq(Words), jobs' \subseteq Work
    PROVE  ThreadInv' /\ Silent
BY DEF ThreadInv, ThreadTypes, OpenOnesWait, Silent, Quiet, Sound

-----------------------------------------------------------------------------
\* What every step of the page starts from.
LEMMA CallNow ==
    ASSUME ThreadInv, NEW r \in Requests
    PROVE  /\ call \in [Requests -> Calls] /\ sequence \in Nat
           /\ call[r] \in Calls /\ Sound(call[r])
           /\ pending \subseteq [id : Nat, request : Requests]
           /\ inbox \in Seq(Words) /\ outbox \in Seq(Words) /\ jobs \subseteq Work
           /\ \A entry \in pending : entry.request = r =>
                /\ entry.id = call[r].id /\ call[r].state = "waiting"
                /\ call[r].awaits = 0 /\ ~call[r].cancelled
BY DEF ThreadInv, ThreadTypes, OpenOnesWait

\* What the page says to the worker is a word.
LEMMA PageWord ==
    ASSUME ThreadInv, NEW kind \in {"run", "cancel"}, NEW id \in Nat, NEW r \in Requests
    PROVE  Append(inbox, [kind |-> kind, id |-> id, payload |-> r]) \in Seq(Words)
<1>1. [kind |-> kind, id |-> id, payload |-> r] \in Words
    BY DEF Words
<1> QED BY <1>1 DEF ThreadInv, ThreadTypes

\* A request that waits from now on, with its new id.
Asked(r, awaits) ==
    [call[r] EXCEPT !.state = "waiting", !.id = sequence', !.awaits = awaits]
Asks(r, awaits) ==
    /\ call[r].state = "unsent"
    /\ sequence' = sequence + 1
    /\ call' = [call EXCEPT ![r] = Asked(r, awaits)]
    /\ \/ /\ awaits = 0
          /\ pending' \subseteq pending \cup {[id |-> sequence', request |-> r]}
          /\ inbox' = Append(inbox, [kind |-> "run", id |-> sequence', payload |-> r])
       \/ pending' \subseteq pending /\ UNCHANGED inbox
    /\ UNCHANGED <<outbox, jobs>>

LEMMA AskedCall ==
    ASSUME ThreadInv, NEW r \in Requests, NEW n \in Nat, Asks(r, n)
    PROVE  /\ sequence' \in Nat /\ Asked(r, n) \in Calls /\ Sound(Asked(r, n))
           /\ Asked(r, n).state = "waiting" /\ Asked(r, n).id = sequence'
           /\ Asked(r, n).awaits = n /\ ~Asked(r, n).cancelled
           /\ Asked(r, n).cancelled = call[r].cancelled
           /\ Asked(r, n).answer = call[r].answer
           /\ Asked(r, n).late = call[r].late
<1>1. call[r] \in Calls /\ Sound(call[r]) /\ sequence' \in Nat
    BY CallNow DEF Asks
<1> QED BY <1>1 DEF Asks, Asked, Sound, Calls, States

\* The three ways in.
LEMMA AskingIs ==
    ASSUME ThreadInv, NEW r \in Requests
    PROVE  /\ Send(r) => Asks(r, 0)
           /\ ProcessFrame(r) /\ Accepts => Asks(r, 0)
           /\ SendToNobody(r) => \E n \in Nat : Asks(r, n)
<1>1. call \in [Requests -> Calls] /\ call[r] \in Calls /\ Sound(call[r])
    BY CallNow
<1>2. ASSUME call[r].state = "unsent", NEW id
      PROVE  [call EXCEPT ![r].state = "waiting", ![r].id = id]
             = [call EXCEPT ![r] =
                  [call[r] EXCEPT !.state = "waiting", !.id = id, !.awaits = 0]]
    BY <1>1, <1>2 DEF Calls, Sound
<1>3. Send(r) => Asks(r, 0)
    BY <1>2 DEF Send, Asks, Asked
<1>4. ProcessFrame(r) /\ Accepts => Asks(r, 0)
    BY <1>2 DEF ProcessFrame, Accepts, Asks, Asked
<1>5. ASSUME SendToNobody(r) PROVE \E n \in Nat : Asks(r, n)
    <2>1. PICK chunks \in 0..MaxChunks :
             call' = [call EXCEPT ![r].state = "waiting", ![r].id = sequence',
                                  ![r].awaits = chunks + 1]
        BY <1>5 DEF SendToNobody
    <2>2. chunks + 1 \in Nat
        BY <2>1, OffThreadAssumption
    <2>3. Asks(r, chunks + 1)
        BY <1>1, <1>5, <2>1 DEF SendToNobody, Asks, Asked, Calls
    <2> QED BY <2>2, <2>3
<1> QED BY <1>3, <1>4, <1>5

LEMMA AskKeeps ==
    ASSUME ThreadInv, NEW r \in Requests, NEW n \in Nat, Asks(r, n)
    PROVE  ThreadInv' /\ Silent
<1>1. /\ sequence' \in Nat /\ Asked(r, n) \in Calls /\ Sound(Asked(r, n))
      /\ Asked(r, n).state = "waiting" /\ Asked(r, n).id = sequence'
      /\ Asked(r, n).awaits = n /\ ~Asked(r, n).cancelled
      /\ Asked(r, n).late = call[r].late
    BY AskedCall
<1>2. inbox' \in Seq(Words)
    <2>1. Append(inbox, [kind |-> "run", id |-> sequence', payload |-> r]) \in Seq(Words)
        BY <1>1, PageWord
    <2> QED BY <2>1, CallNow DEF Asks
<1>3. \A entry \in pending' :
          \/ entry \in pending /\ entry.request # r
          \/ entry.request = r /\ entry.id = sequence' /\ n = 0
    BY CallNow DEF Asks
<1>4. pending' \subseteq [id : Nat, request : Requests]
    BY <1>1, CallNow DEF Asks
<1>5. Quiet(call[r], Asked(r, n))
    BY <1>1 DEF Quiet
<1>6. call' = [call EXCEPT ![r] = Asked(r, n)] /\ UNCHANGED <<outbox, jobs>>
    BY DEF Asks
<1>7. outbox' \in Seq(Words) /\ jobs' \subseteq Work
    BY <1>6, CallNow
<1>8. \A entry \in pending' :
          \/ entry \in pending /\ entry.request # r
          \/ /\ entry.request = r /\ Asked(r, n).id = entry.id
             /\ Asked(r, n).state = "waiting" /\ Asked(r, n).awaits = 0
             /\ ~Asked(r, n).cancelled
    BY <1>1, <1>3
<1> QED BY <1>1, <1>2, <1>4, <1>5, <1>6, <1>7, <1>8, OneCallStep

\* A frame the client does not take.
Refused(r) == [call[r] EXCEPT !.state = "rejected"]

\* The flag, with the rejection if it is the worker's to answer.
GivenUp(r, state) == [call[r] EXCEPT !.cancelled = TRUE, !.state = state]
Ending(r) == IF call[r].state = "waiting" THEN "rejected" ELSE call[r].state

LEMMA RefusedCall ==
    ASSUME ThreadInv, NEW r \in Requests, ProcessFrame(r), ~Accepts
    PROVE  /\ Refused(r) \in Calls /\ Sound(Refused(r)) /\ Quiet(call[r], Refused(r))
           /\ call' = [call EXCEPT ![r] = Refused(r)]
           /\ Refused(r).state = "rejected" /\ Refused(r).id = call[r].id
           /\ Refused(r).cancelled = call[r].cancelled
           /\ Refused(r).answer = call[r].answer /\ Refused(r).late = call[r].late
           /\ \A entry \in pending' : entry \in pending /\ entry.request # r
           /\ UNCHANGED <<sequence, worker, inbox, outbox, jobs>>
           /\ call[r].state = "unsent"
<1>1. call[r] \in Calls /\ Sound(call[r]) /\ call[r].state = "unsent"
    BY CallNow DEF ProcessFrame
<1>2. /\ Refused(r) \in Calls /\ Refused(r).state = "rejected"
      /\ Refused(r).id = call[r].id /\ Refused(r).cancelled = call[r].cancelled
      /\ Refused(r).answer = call[r].answer /\ Refused(r).late = call[r].late
      /\ Refused(r).awaits = call[r].awaits
    BY <1>1 DEF Refused, Calls, States
<1>3. Sound(Refused(r)) /\ Quiet(call[r], Refused(r))
    BY <1>1, <1>2 DEF Sound, Quiet
<1>4. call' = [call EXCEPT ![r] = Refused(r)]
    BY CallNow DEF ProcessFrame, Refused, Calls
<1> QED BY <1>1, <1>2, <1>3, <1>4, CallNow DEF ProcessFrame

\* Neither way of cancelling calls anything back.
LEMMA CancelledCall ==
    ASSUME ThreadInv, NEW r \in Requests, NEW state \in States,
           call[r].state # "unsent", ~call[r].cancelled,
           state = Ending(r) \/ (state = call[r].state /\ call[r].awaits > 0)
    PROVE  /\ GivenUp(r, state) \in Calls /\ Sound(GivenUp(r, state))
           /\ Quiet(call[r], GivenUp(r, state))
           /\ GivenUp(r, state).state = state /\ GivenUp(r, state).id = call[r].id
           /\ GivenUp(r, state).cancelled = TRUE
           /\ GivenUp(r, state).answer = call[r].answer
           /\ GivenUp(r, state).late = call[r].late
<1>1. call[r] \in Calls /\ Sound(call[r])
    BY CallNow
<1>2. /\ GivenUp(r, state) \in Calls
      /\ GivenUp(r, state).state = state /\ GivenUp(r, state).id = call[r].id
      /\ GivenUp(r, state).cancelled = TRUE
      /\ GivenUp(r, state).answer = call[r].answer
      /\ GivenUp(r, state).late = call[r].late
      /\ GivenUp(r, state).awaits = call[r].awaits
    BY <1>1 DEF GivenUp, Calls, States
<1>3. state # "unsent"
    BY DEF Ending
<1>4. Sound(GivenUp(r, state)) /\ Quiet(call[r], GivenUp(r, state))
    BY <1>1, <1>2, <1>3 DEF Sound, Quiet, Ending
<1> QED BY <1>2, <1>4

LEMMA CancelKeeps ==
    ASSUME ThreadInv, NEW r \in Requests, NEW state \in States,
           \/ CancelIndex(r) /\ state = Ending(r)
           \/ /\ CancelOnPage(r) /\ state = call[r].state
              /\ call[r].state = "waiting" => call[r].awaits > 0
    PROVE  /\ ThreadInv' /\ Silent
           /\ call' = [call EXCEPT ![r] = GivenUp(r, state)]
<1>1. call[r].state # "unsent" /\ ~call[r].cancelled
    BY DEF CancelIndex, CancelOnPage
<1>2. state = Ending(r) \/ (state = call[r].state /\ call[r].awaits > 0)
    BY DEF Ending
<1>3. /\ GivenUp(r, state) \in Calls /\ Sound(GivenUp(r, state))
      /\ Quiet(call[r], GivenUp(r, state))
    BY <1>1, <1>2, CancelledCall
<1>4. call' = [call EXCEPT ![r] = GivenUp(r, state)]
    <2>0. call \in [Requests -> Calls] /\ call[r] \in Calls
        BY CallNow
    <2>1. CASE CancelIndex(r) /\ state = Ending(r)
        BY <2>0, <2>1 DEF CancelIndex, GivenUp, Ending, Calls
    <2>2. CASE CancelOnPage(r) /\ state = call[r].state
        BY <2>0, <2>2 DEF CancelOnPage, GivenUp, Calls
    <2> QED BY <2>1, <2>2
<1>5. CASE CancelIndex(r)
    <2>1. inbox' \in Seq(Words)
        <3>1. call[r].id \in Nat
            BY CallNow DEF Calls
        <3> QED BY <1>5, <3>1, CallNow, PageWord DEF CancelIndex
    <2>2. \A entry \in pending' : entry \in pending /\ entry.request # r
        BY <1>5, CallNow DEF CancelIndex, Without
    <2>3. pending' \subseteq [id : Nat, request : Requests]
        BY <2>2, CallNow
    <2>4. sequence' \in Nat /\ outbox' \in Seq(Words) /\ jobs' \subseteq Work
        BY <1>5, CallNow DEF CancelIndex
    <2> QED BY <1>3, <1>4, <2>1, <2>2, <2>3, <2>4, OneCallStep
<1>6. CASE CancelOnPage(r) /\ (call[r].state = "waiting" => call[r].awaits > 0)
    <2>1. \A entry \in pending : entry.request # r
        <3>1. 0 > 0 <=> FALSE
            OBVIOUS
        <3> QED BY <1>6, <3>1, CallNow
    <2>2. /\ sequence' \in Nat /\ pending' \subseteq [id : Nat, request : Requests]
          /\ inbox' \in Seq(Words) /\ outbox' \in Seq(Words) /\ jobs' \subseteq Work
          /\ pending' = pending
        BY <1>6, CallNow DEF CancelOnPage
    <2> QED BY <1>3, <1>4, <2>1, <2>2, OneCallStep
<1> QED BY <1>5, <1>6

-----------------------------------------------------------------------------
\* What a request can be after a step of its reading on the page: told or not,
\* going on or ended.
LEMMA HeardCall ==
    ASSUME NEW c \in Calls, Sound(c), NEW r \in Requests, c.awaits > 0
    PROVE  /\ Heard(c, r) \in Calls
           /\ Heard(c, r).state = c.state /\ Heard(c, r).id = c.id
           /\ Heard(c, r).cancelled = c.cancelled
           /\ Heard(c, r).answer = c.answer \cup {r}
           /\ Heard(c, r).awaits = c.awaits /\ c.late = 0
           /\ Heard(c, r).late = IF c.cancelled THEN 1 ELSE 0
<1>1. c.late = 0
    BY DEF Sound
<1>2. /\ [c EXCEPT !.answer = @ \cup {r}, !.late = 1] \in Calls
      /\ [c EXCEPT !.answer = @ \cup {r}, !.late = c.late] \in Calls
    BY DEF Calls
<1>3. CASE c.cancelled
    <2>1. Heard(c, r) = [c EXCEPT !.answer = @ \cup {r}, !.late = 1]
        BY <1>1, <1>3 DEF Heard
    <2> QED BY <1>1, <1>2, <1>3, <2>1 DEF Calls
<1>4. CASE ~c.cancelled
    <2>1. Heard(c, r) = [c EXCEPT !.answer = @ \cup {r}, !.late = c.late]
        BY <1>4 DEF Heard
    <2> QED BY <1>1, <1>2, <1>4, <2>1 DEF Calls
<1> QED BY <1>3, <1>4

LEMMA EndedCall ==
    ASSUME NEW c \in Calls, NEW outcome \in {"resolved", "rejected"}
    PROVE  /\ Ended(c, outcome) \in Calls
           /\ Ended(c, outcome).state = IF c.state = "waiting" THEN outcome ELSE c.state
           /\ Ended(c, outcome).id = c.id
           /\ Ended(c, outcome).cancelled = c.cancelled
           /\ Ended(c, outcome).answer = c.answer
           /\ Ended(c, outcome).awaits = 0
           /\ Ended(c, outcome).late = c.late
BY DEF Ended, Calls, States

\* The request after a chunk, and after the reading.
Told(r, told) == IF told THEN Heard(call[r], r) ELSE call[r]
AfterChunk(r, told) ==
    IF call[r].cancelled THEN Ended(Told(r, told), "rejected")
    ELSE [Told(r, told) EXCEPT !.awaits = @ - 1]
AfterReading(r, outcome) == Ended(Told(r, call[r].state = "waiting"), outcome)

LEMMA ToldCall ==
    ASSUME ThreadInv, NEW r \in Requests, NEW told \in BOOLEAN, call[r].awaits > 0
    PROVE  /\ Told(r, told) \in Calls
           /\ Told(r, told).state = call[r].state /\ Told(r, told).id = call[r].id
           /\ Told(r, told).cancelled = call[r].cancelled
           /\ Told(r, told).answer = call[r].answer \cup (IF told THEN {r} ELSE {})
           /\ Told(r, told).awaits = call[r].awaits /\ call[r].late = 0
           /\ Told(r, told).late = IF told /\ call[r].cancelled THEN 1 ELSE 0
<1>1. call[r] \in Calls /\ Sound(call[r])
    BY CallNow
<1>2. call[r].late = 0
    BY <1>1 DEF Sound
<1> QED BY <1>1, <1>2, HeardCall DEF Told

LEMMA ChunkCall ==
    ASSUME ThreadInv, NEW r \in Requests, NEW told \in BOOLEAN, ReadChunk(r, told)
    PROVE  /\ call[r].awaits > 1 /\ UNCHANGED PageOnly
           /\ call' = [call EXCEPT ![r] = AfterChunk(r, told)]
           /\ AfterChunk(r, told) \in Calls /\ Sound(AfterChunk(r, told))
           /\ Quiet(call[r], AfterChunk(r, told))
           /\ AfterChunk(r, told).state = IF call[r].cancelled /\ call[r].state = "waiting"
                                          THEN "rejected" ELSE call[r].state
           /\ AfterChunk(r, told).id = call[r].id
           /\ AfterChunk(r, told).cancelled = call[r].cancelled
           /\ AfterChunk(r, told).answer = call[r].answer \cup (IF told THEN {r} ELSE {})
           /\ AfterChunk(r, told).late = IF told /\ call[r].cancelled THEN 1 ELSE 0
           /\ AfterChunk(r, told).state = "waiting" => AfterChunk(r, told).awaits > 0
<1> DEFINE t == Told(r, told)
<1>1. /\ call[r].awaits > 1 /\ UNCHANGED PageOnly
      /\ call[r] \in Calls /\ Sound(call[r])
    BY CallNow DEF ReadChunk
<1>2. /\ t \in Calls /\ t.state = call[r].state /\ t.id = call[r].id
      /\ t.cancelled = call[r].cancelled
      /\ t.answer = call[r].answer \cup (IF told THEN {r} ELSE {})
      /\ t.awaits = call[r].awaits /\ call[r].late = 0
      /\ t.late = IF told /\ call[r].cancelled THEN 1 ELSE 0
    <2>1. call[r].awaits > 0
        BY <1>1 DEF Calls
    <2> QED BY <2>1, ToldCall
<1>3. call' = [call EXCEPT ![r] = AfterChunk(r, told)]
    BY <1>2 DEF ReadChunk, AfterChunk, Told
<1> HIDE DEF t
<1>4. CASE call[r].cancelled
    <2>1. AfterChunk(r, told) = Ended(t, "rejected")
        BY <1>4 DEF AfterChunk, t
    <2>2. AfterChunk(r, told).state # "unsent"
        BY <1>1, <1>2, <1>4, <2>1, EndedCall DEF Sound
    <2> DEFINE d == Ended(t, "rejected")
    <2>3. /\ d \in Calls
          /\ d.state = IF t.state = "waiting" THEN "rejected" ELSE t.state
          /\ d.id = t.id /\ d.cancelled = t.cancelled /\ d.answer = t.answer
          /\ d.awaits = 0 /\ d.late = t.late
        BY <1>2, EndedCall
    <2>4. AfterChunk(r, told) = d
        BY <2>1
    <2> HIDE DEF d
    <2>5. Sound(d) /\ Quiet(call[r], d)
        BY <1>1, <1>2, <1>4, <2>2, <2>3, <2>4 DEF Sound, Quiet, Calls
    <2> QED BY <1>1, <1>2, <1>3, <1>4, <2>3, <2>4, <2>5
<1>5. CASE ~call[r].cancelled
    <2> DEFINE d == [t EXCEPT !.awaits = @ - 1]
    <2>1. AfterChunk(r, told) = d
        BY <1>5 DEF AfterChunk, t
    <2>2. call[r].awaits \in Nat /\ call[r].awaits - 1 \in Nat /\ call[r].awaits - 1 > 0
        BY <1>1 DEF Calls
    <2>3. /\ d \in Calls /\ d.state = t.state /\ d.id = t.id
          /\ d.cancelled = t.cancelled /\ d.answer = t.answer /\ d.late = t.late
          /\ d.awaits = call[r].awaits - 1
        BY <1>2, <2>2 DEF Calls
    <2>4. call[r].state = "waiting"
        BY <1>1, <1>5, <2>2 DEF Sound
    <2> HIDE DEF d
    <2> QED BY <1>1, <1>2, <1>3, <1>5, <2>1, <2>2, <2>3, <2>4 DEF Sound, Quiet
<1> QED BY <1>4, <1>5

LEMMA ReadingCall ==
    ASSUME ThreadInv, NEW r \in Requests, NEW outcome \in {"resolved", "rejected"},
           ReadEnds(r, outcome)
    PROVE  /\ call[r].awaits > 0 /\ UNCHANGED PageOnly
           /\ call' = [call EXCEPT ![r] = AfterReading(r, outcome)]
           /\ AfterReading(r, outcome) \in Calls /\ Sound(AfterReading(r, outcome))
           /\ Quiet(call[r], AfterReading(r, outcome))
           /\ AfterReading(r, outcome).state = IF call[r].state = "waiting" THEN outcome
                                               ELSE call[r].state
           /\ AfterReading(r, outcome).id = call[r].id
           /\ AfterReading(r, outcome).cancelled = call[r].cancelled
           /\ AfterReading(r, outcome).answer =
                call[r].answer \cup (IF call[r].state = "waiting" THEN {r} ELSE {})
           /\ AfterReading(r, outcome).late =
                IF call[r].state = "waiting" /\ call[r].cancelled THEN 1 ELSE 0
<1> DEFINE told == call[r].state = "waiting"
           t == Told(r, told)
<1>1. /\ call[r].awaits > 0 /\ UNCHANGED PageOnly
      /\ call[r] \in Calls /\ Sound(call[r]) /\ told \in BOOLEAN
    BY CallNow DEF ReadEnds
<1>2. /\ t \in Calls /\ t.state = call[r].state /\ t.id = call[r].id
      /\ t.cancelled = call[r].cancelled
      /\ t.answer = call[r].answer \cup (IF told THEN {r} ELSE {})
      /\ t.awaits = call[r].awaits /\ call[r].late = 0
      /\ t.late = IF told /\ call[r].cancelled THEN 1 ELSE 0
    BY <1>1, ToldCall
<1>3. call' = [call EXCEPT ![r] = AfterReading(r, outcome)]
    BY DEF ReadEnds, AfterReading, Told
<1>4. AfterReading(r, outcome) = Ended(t, outcome)
    BY DEF AfterReading
<1> HIDE DEF t
<1>5. call[r].state # "unsent"
    BY <1>1 DEF Sound
<1> QED BY <1>1, <1>2, <1>3, <1>4, <1>5, EndedCall DEF Sound, Quiet

\* The page reads what nobody else has open.
LEMMA ReadKeeps ==
    ASSUME ThreadInv, NEW r \in Requests, Reads(r)
    PROVE  ThreadInv' /\ Silent
<1>1. ASSUME NEW c \in Calls, Sound(c), Quiet(call[r], c), call[r].awaits > 0,
             call' = [call EXCEPT ![r] = c], UNCHANGED PageOnly
      PROVE  ThreadInv' /\ Silent
    <2>1. \A entry \in pending : entry.request # r
        BY <1>1, CallNow
    <2> QED BY <1>1, <2>1, CallNow, OneCallStep DEF PageOnly
<1>2. ASSUME NEW told \in BOOLEAN, ReadChunk(r, told) PROVE ThreadInv' /\ Silent
    <2>1. call[r].awaits > 1 => call[r].awaits > 0
        BY CallNow DEF Calls
    <2> QED BY <1>1, <1>2, <2>1, ChunkCall
<1>3. ASSUME NEW outcome \in {"resolved", "rejected"}, ReadEnds(r, outcome)
      PROVE  ThreadInv' /\ Silent
    BY <1>1, <1>3, ReadingCall
<1> QED BY <1>2, <1>3 DEF Reads

-----------------------------------------------------------------------------
\* What a request is after a message about it.
Answered(c, state, answer) == [Heard(c, answer) EXCEPT !.state = state]

LEMMA AnsweredCall ==
    ASSUME NEW c \in Calls, ~c.cancelled, NEW state \in States, NEW answer \in Requests
    PROVE  /\ Answered(c, state, answer) \in Calls
           /\ Answered(c, state, answer).state = state
           /\ Answered(c, state, answer).id = c.id
           /\ Answered(c, state, answer).cancelled = c.cancelled
           /\ Answered(c, state, answer).answer = c.answer \cup {answer}
           /\ Answered(c, state, answer).awaits = c.awaits
           /\ Answered(c, state, answer).late = c.late
<1> DEFINE d == [c EXCEPT !.answer = @ \cup {answer}, !.late = c.late]
<1>1. Heard(c, answer) = d
    BY DEF Heard
<1>2. /\ d \in Calls /\ d.id = c.id /\ d.cancelled = c.cancelled
      /\ d.answer = c.answer \cup {answer} /\ d.awaits = c.awaits /\ d.late = c.late
    BY DEF Calls
<1> HIDE DEF d
<1>3. Answered(c, state, answer) = [d EXCEPT !.state = state]
    BY <1>1 DEF Answered
<1> QED BY <1>2, <1>3 DEF Calls

-----------------------------------------------------------------------------
\* What the worker said about a request, open or not.
LEMMA ReceiveKeeps ==
    ASSUME ThreadInv, Receive
    PROVE  ThreadInv' /\ Silent
<1>0. /\ call \in [Requests -> Calls] /\ sequence \in Nat
      /\ pending \subseteq [id : Nat, request : Requests]
      /\ inbox \in Seq(Words) /\ outbox \in Seq(Words) /\ jobs \subseteq Work
    BY DEF ThreadInv, ThreadTypes
<1>1. outbox # <<>> /\ Tail(outbox) \in Seq(Words) /\ Message \in Words
    <2>1. outbox # <<>>
        BY DEF Receive, ReceiveDropped, ReceiveAnswer, ReceiveIndex
    <2> QED BY <1>0, <2>1 DEF Message
<1>2. Message.payload \in Requests
    BY <1>1 DEF Words
<1>3. CASE ReceiveDropped
    BY <1>0, <1>1, <1>3, OtherThreadStep DEF ReceiveDropped
<1> DEFINE r == RequestOf(Message.id)
<1>4. ASSUME Open(Message.id), NEW s \in {"waiting", "resolved", "rejected"},
             Settle(r, s, Message.payload),
             \/ pending' = Without(Message.id)
             \/ pending' = pending /\ s = "waiting",
             outbox' = Tail(outbox), UNCHANGED <<sequence, inbox, jobs>>
      PROVE  ThreadInv' /\ Silent
    <2>1. /\ r \in Requests /\ call[r].id = Message.id /\ ~call[r].cancelled
          /\ call[r].state = "waiting" /\ call[r].awaits = 0
        BY <1>4, RequestIsOpen
    <2>2. call[r] \in Calls /\ Sound(call[r]) /\ s \in States
        BY <1>0, <2>1 DEF ThreadInv, States
    <2> HIDE DEF r
    <2> DEFINE c == Answered(call[r], s, Message.payload)
    <2>3. /\ c \in Calls /\ c.state = s /\ c.id = call[r].id
          /\ c.cancelled = call[r].cancelled /\ c.awaits = 0 /\ c.late = call[r].late
        BY <1>2, <2>1, <2>2, AnsweredCall
    <2>4. call' = [call EXCEPT ![r] = c]
        BY <1>4 DEF Settle, Answered
    <2>5. \A entry \in pending : entry.request = r => entry.id = call[r].id
        BY DEF ThreadInv, OpenOnesWait
    <2>6. \A entry \in pending' :
              \/ entry \in pending /\ entry.request # r
              \/ /\ entry.request = r /\ c.id = entry.id
                 /\ c.state = "waiting" /\ c.awaits = 0 /\ ~c.cancelled
        BY <1>4, <2>1, <2>3, <2>5 DEF Without
    <2>7. pending' \subseteq [id : Nat, request : Requests]
        BY <1>0, <1>4 DEF Without
    <2>8. /\ sequence' \in Nat /\ inbox' \in Seq(Words)
          /\ outbox' \in Seq(Words) /\ jobs' \subseteq Work
        BY <1>0, <1>1, <1>4
    <2> HIDE DEF c
    <2>9. Sound(c) /\ Quiet(call[r], c)
        BY <2>1, <2>2, <2>3 DEF Sound, Quiet
    <2> QED BY <2>1, <2>3, <2>4, <2>6, <2>7, <2>8, <2>9, OneCallStep
<1>5. CASE ReceiveAnswer
    <2> DEFINE s == IF Message.kind = "error" THEN "rejected" ELSE "resolved"
    <2>1. s \in {"waiting", "resolved", "rejected"}
        OBVIOUS
    <2>2. /\ Open(Message.id) /\ Settle(r, s, Message.payload)
          /\ pending' = Without(Message.id)
          /\ outbox' = Tail(outbox) /\ UNCHANGED <<sequence, inbox, jobs>>
        BY <1>5 DEF ReceiveAnswer
    <2> QED BY <1>4, <2>1, <2>2
<1>6. CASE ReceiveIndex
    <2>0. Open(Message.id) /\ outbox' = Tail(outbox) /\ UNCHANGED <<sequence, inbox, jobs>>
        BY <1>6 DEF ReceiveIndex
    <2>1. CASE Message.kind = "progress"
        <3>1. Settle(r, "waiting", Message.payload) /\ pending' = pending
            BY <1>6, <2>1 DEF ReceiveIndex
        <3> QED BY <1>4, <2>0, <3>1
    <2>2. CASE Message.kind # "progress"
        <3> DEFINE s == IF Message.kind = "error" THEN "rejected" ELSE "resolved"
        <3>1. s \in {"waiting", "resolved", "rejected"}
            OBVIOUS
        <3>2. Settle(r, s, Message.payload) /\ pending' = Without(Message.id)
            BY <1>6, <2>2 DEF ReceiveIndex
        <3> QED BY <1>4, <2>0, <3>1, <3>2
    <2> QED BY <2>1, <2>2
<1> QED BY <1>3, <1>5, <1>6 DEF Receive

\* The failures: the open requests are rejected, or read by the page.
LEMMA FailuresKeep ==
    ASSUME ThreadInv,
           VerificationWorkerFails \/ IngestWorkerFails \/ KernelFails \/ DestroyWorker
    PROVE  ThreadInv' /\ Silent
<1>0. /\ call \in [Requests -> Calls] /\ sequence \in Nat
      /\ inbox \in Seq(Words) /\ outbox \in Seq(Words) /\ jobs \subseteq Work
      /\ OpenRequests \subseteq Requests
      /\ \A r \in OpenRequests :
           ~call[r].cancelled /\ call[r].state = "waiting" /\ call[r].awaits = 0
      /\ \A r \in Requests : call[r] \in Calls /\ Sound(call[r])
    BY DEF ThreadInv, ThreadTypes, OpenOnesWait, OpenRequests
<1>1. /\ pending' = {} /\ sequence' \in Nat
      /\ inbox' \in Seq(Words) /\ outbox' \in Seq(Words) /\ jobs' \subseteq Work
    <2>1. CASE WorkerLost /\ UNCHANGED sequence
        BY <1>0, <2>1 DEF WorkerLost
    <2>2. CASE KernelFails
        BY <1>0, <2>2 DEF KernelFails
    <2> QED BY <2>1, <2>2 DEF VerificationWorkerFails, IngestWorkerFails, DestroyWorker
<1>2. ASSUME NEW b \in BOOLEAN,
             call' = [r \in Requests |->
                        IF r \in OpenRequests
                        THEN [call[r] EXCEPT !.state = "rejected", !.cancelled = b]
                        ELSE call[r]]
      PROVE  ThreadInv' /\ Silent
    <2>1. ASSUME NEW r \in OpenRequests
          PROVE  /\ [call[r] EXCEPT !.state = "rejected", !.cancelled = b] \in Calls
                 /\ Sound([call[r] EXCEPT !.state = "rejected", !.cancelled = b])
        <3>1. call[r] \in Calls /\ Sound(call[r]) /\ "rejected" \in States
              /\ call[r].awaits = 0 /\ ~call[r].cancelled
            BY <1>0, <2>1 DEF States
        <3> DEFINE c == [call[r] EXCEPT !.state = "rejected", !.cancelled = b]
        <3>2. /\ c \in Calls /\ c.state = "rejected" /\ c.cancelled = b
              /\ c.awaits = 0 /\ c.late = call[r].late
            BY <1>2, <3>1 DEF Calls
        <3> HIDE DEF c
        <3>3. Sound(c)
            <4>1. call[r].late = 0
                BY <3>1 DEF Sound
            <4>2. c.state = "rejected" /\ c.awaits = 0 /\ c.late = 0
                BY <3>2, <4>1
            <4> QED BY <4>2 DEF Sound
        <3> QED BY <3>2, <3>3 DEF c
    <2>2. call' \in [Requests -> Calls]
        BY <1>0, <1>2, <2>1
    <2>3. \A r \in Requests : call'[r] = call[r] \/ (r \in OpenRequests /\ Sound(call'[r]))
        BY <1>0, <1>2, <2>1
    <2> QED BY <1>1, <2>2, <2>3, AllCallsStep
<1>3. ASSUME call' = [r \in Requests |->
                        IF r \in OpenRequests THEN [call[r] EXCEPT !.state = "rejected"]
                                              ELSE call[r]]
      PROVE  ThreadInv' /\ Silent
    <2>1. \A r \in OpenRequests :
            [call[r] EXCEPT !.state = "rejected"]
            = [call[r] EXCEPT !.state = "rejected", !.cancelled = FALSE]
        <3> TAKE r \in OpenRequests
        <3>1. call[r] \in Calls /\ call[r].cancelled = FALSE
            BY <1>0 DEF Calls
        <3> QED BY <3>1 DEF Calls
    <2>2. call' = [r \in Requests |->
                     IF r \in OpenRequests
                     THEN [call[r] EXCEPT !.state = "rejected", !.cancelled = FALSE]
                     ELSE call[r]]
        BY <1>3, <2>1
    <2> QED BY <1>2, <2>2
<1>4. CASE VerificationWorkerFails \/ KernelFails
    BY <1>3, <1>4 DEF VerificationWorkerFails, KernelFails
<1>5. CASE IngestWorkerFails
    <2>1. PICK chunks \in [OpenRequests -> 0..MaxChunks] :
             call' = [r \in Requests |->
                        IF r \in OpenRequests THEN [call[r] EXCEPT !.awaits = chunks[r] + 1]
                                              ELSE call[r]]
        BY <1>5 DEF IngestWorkerFails
    <2>2. ASSUME NEW r \in OpenRequests
          PROVE  /\ [call[r] EXCEPT !.awaits = chunks[r] + 1] \in Calls
                 /\ Sound([call[r] EXCEPT !.awaits = chunks[r] + 1])
        <3>1. call[r] \in Calls /\ Sound(call[r]) /\ call[r].state = "waiting"
              /\ ~call[r].cancelled
            BY <1>0, <2>2
        <3>2. chunks[r] + 1 \in Nat /\ chunks[r] + 1 > 0
            BY <2>1, <2>2, OffThreadAssumption
        <3> DEFINE c == [call[r] EXCEPT !.awaits = chunks[r] + 1]
        <3>3. /\ c \in Calls /\ c.state = "waiting" /\ c.cancelled = call[r].cancelled
              /\ c.awaits > 0 /\ c.late = call[r].late
            BY <3>1, <3>2 DEF Calls
        <3> HIDE DEF c
        <3>4. Sound(c)
            BY <3>1, <3>3 DEF Sound
        <3> QED BY <3>3, <3>4 DEF c
    <2>3. call' \in [Requests -> Calls]
        BY <1>0, <2>1, <2>2
    <2>4. \A r \in Requests : call'[r] = call[r] \/ (r \in OpenRequests /\ Sound(call'[r]))
        BY <1>0, <2>1, <2>2
    <2> QED BY <1>1, <2>3, <2>4, AllCallsStep
<1>6. CASE DestroyWorker
    <2> DEFINE b == client = "ingest"
    <2>1. b \in BOOLEAN
        OBVIOUS
    <2>2. call' = [r \in Requests |->
                     IF r \in OpenRequests
                     THEN [call[r] EXCEPT !.state = "rejected", !.cancelled = b]
                     ELSE call[r]]
        BY <1>6, Zenon DEF DestroyWorker
    <2> HIDE DEF b
    <2> QED BY <1>2, <2>1, <2>2
<1> QED BY <1>4, <1>5, <1>6

-----------------------------------------------------------------------------
\* The worker does not know who is still waiting.
LEMMA WorkerKeeps ==
    ASSUME ThreadInv, Take \/ Answers \/ \E job \in jobs : ReportProgress(job)
    PROVE  ThreadInv' /\ Silent
<1>0. /\ inbox \in Seq(Words) /\ outbox \in Seq(Words) /\ jobs \subseteq Work
    BY DEF ThreadInv, ThreadTypes
<1>1. CASE Take
    <2>1. inbox # <<>> /\ Tail(inbox) \in Seq(Words) /\ Head(inbox) \in Words
        BY <1>0, <1>1 DEF Take
    <2>2. [id |-> Head(inbox).id, told |-> FALSE, payload |-> Head(inbox).payload] \in Work
        BY <2>1 DEF Words, Work
    <2> QED BY <1>0, <1>1, <2>1, <2>2, OtherThreadStep DEF Take
<1>2. ASSUME NEW job \in jobs, NEW kind \in {"progress", "complete", "error"}
      PROVE  Append(outbox, [kind |-> kind, id |-> job.id, payload |-> job.payload]) \in Seq(Words)
    <2>1. [kind |-> kind, id |-> job.id, payload |-> job.payload] \in Words
        BY <1>0 DEF Words, Work
    <2> QED BY <1>0, <2>1
<1>3. CASE Answers
    <2>1. PICK job \in jobs, kind \in {"complete", "error"} :
             AnswerRequest(job, kind) \/ FinishIndex(job, kind)
        BY <1>3 DEF Answers
    <2> QED BY <1>0, <1>2, <2>1, OtherThreadStep DEF AnswerRequest, FinishIndex, Post
<1>4. ASSUME NEW job \in jobs, ReportProgress(job) PROVE ThreadInv' /\ Silent
    <2>1. [job EXCEPT !.told = TRUE] \in Work
        BY <1>0 DEF Work
    <2> QED BY <1>0, <1>2, <1>4, <2>1, OtherThreadStep DEF ReportProgress, Post
<1> QED BY <1>1, <1>3, <1>4

-----------------------------------------------------------------------------
\* Where there are no workers, whatever waits is being read by the page.
PageReads ==
    /\ worker \in Nat
    /\ client = "page" =>
         /\ pending = {} /\ worker = 0
         /\ \A r \in Requests : call[r].state = "waiting" => call[r].awaits > 0

\* Nothing happens there but the page's requests, cancellations and readings.
LEMMA PageReadsKept ==
    ASSUME ThreadInv, PageReads, [OffThreadNext]_offThreadVars
    PROVE  PageReads'
<1>1. worker' \in Nat
    <2>1. ASSUME NEW r \in Requests, Send(r) PROVE worker' \in Nat
        BY <2>1 DEF Send, PageReads, ThreadInv, ThreadTypes
    <2>2. (\E r \in Requests : Send(r)) \/ worker' = worker \/ worker' = 0
        BY DEF OffThreadNext, SendToNobody, ProcessFrame, CancelIndex,
            CancelOnPage, Reads, ReadChunk, ReadEnds, PageOnly, Receive, ReceiveDropped,
            ReceiveAnswer, ReceiveIndex, VerificationWorkerFails, IngestWorkerFails,
            KernelFails, DestroyWorker, WorkerLost, Take, Answers, AnswerRequest,
            FinishIndex, ReportProgress, offThreadVars
    <2> QED BY <2>1, <2>2 DEF PageReads
<1>2. client' = client
    BY DEF OffThreadNext, Send, SendToNobody, ProcessFrame, CancelIndex,
        CancelOnPage, Reads, ReadChunk, ReadEnds, PageOnly, Receive, ReceiveDropped,
        ReceiveAnswer, ReceiveIndex, VerificationWorkerFails, IngestWorkerFails,
        KernelFails, DestroyWorker, WorkerLost, Take, Answers, AnswerRequest, FinishIndex,
        ReportProgress, offThreadVars
<1>3. ASSUME client = "page"
      PROVE  /\ pending' = {} /\ worker' = 0
             /\ \A r \in Requests : call'[r].state = "waiting" => call'[r].awaits > 0
    <2>0. /\ pending = {} /\ worker = 0
          /\ \A r \in Requests : call[r].state = "waiting" => call[r].awaits > 0
        BY <1>3 DEF PageReads
    <2>1. ASSUME NEW r \in Requests, NEW c,
                 call' = [call EXCEPT ![r] = c], c.state = "waiting" => c.awaits > 0,
                 UNCHANGED <<pending, worker>>
          PROVE  /\ pending' = {} /\ worker' = 0
                 /\ \A s \in Requests : call'[s].state = "waiting" => call'[s].awaits > 0
        <3>1. \A s \in Requests : call'[s] = IF s = r THEN c ELSE call[s]
            BY <2>1 DEF ThreadInv, ThreadTypes
        <3> QED BY <2>0, <2>1, <3>1
    <2>2. ASSUME NEW r \in Requests, SendToNobody(r)
          PROVE  /\ pending' = {} /\ worker' = 0
                 /\ \A s \in Requests : call'[s].state = "waiting" => call'[s].awaits > 0
        <3>1. PICK chunks \in 0..MaxChunks :
                 call' = [call EXCEPT ![r].state = "waiting", ![r].id = sequence',
                                      ![r].awaits = chunks + 1]
            BY <2>2 DEF SendToNobody
        <3> DEFINE c == [call[r] EXCEPT !.state = "waiting", !.id = sequence',
                                        !.awaits = chunks + 1]
        <3>2. call[r] \in Calls /\ call' = [call EXCEPT ![r] = c]
            BY <3>1, CallNow
        <3>3. c.awaits = chunks + 1 /\ chunks + 1 > 0
            BY <3>1, <3>2, OffThreadAssumption DEF Calls
        <3>4. UNCHANGED <<pending, worker>>
            BY <2>2 DEF SendToNobody
        <3> HIDE DEF c
        <3> QED BY <2>1, <3>2, <3>3, <3>4
    <2>3. ASSUME NEW r \in Requests, CancelOnPage(r)
          PROVE  /\ pending' = {} /\ worker' = 0
                 /\ \A s \in Requests : call'[s].state = "waiting" => call'[s].awaits > 0
        <3> DEFINE c == [call[r] EXCEPT !.cancelled = TRUE]
        <3>1. call[r] \in Calls /\ call' = [call EXCEPT ![r] = c]
            BY <2>3, CallNow DEF CancelOnPage
        <3>2. c.state = call[r].state /\ c.awaits = call[r].awaits
            BY <3>1 DEF Calls
        <3>3. UNCHANGED <<pending, worker>>
            BY <2>3 DEF CancelOnPage
        <3> HIDE DEF c
        <3> QED BY <2>0, <2>1, <3>1, <3>2, <3>3
    <2>4. ASSUME NEW r \in Requests, Reads(r)
          PROVE  /\ pending' = {} /\ worker' = 0
                 /\ \A s \in Requests : call'[s].state = "waiting" => call'[s].awaits > 0
        <3>1. ASSUME NEW told \in BOOLEAN, ReadChunk(r, told)
              PROVE  /\ pending' = {} /\ worker' = 0
                     /\ \A s \in Requests : call'[s].state = "waiting" => call'[s].awaits > 0
            BY <2>1, <3>1, ChunkCall DEF PageOnly
        <3>2. ASSUME NEW outcome \in {"resolved", "rejected"}, ReadEnds(r, outcome)
              PROVE  /\ pending' = {} /\ worker' = 0
                     /\ \A s \in Requests : call'[s].state = "waiting" => call'[s].awaits > 0
            BY <2>1, <3>2, ReadingCall DEF PageOnly
        <3> QED BY <2>4, <3>1, <3>2 DEF Reads
    <2>5. CASE UNCHANGED <<pending, worker, call>>
        BY <2>0, <2>5
    <2>6. \/ \E r \in Requests : SendToNobody(r) \/ CancelOnPage(r) \/ Reads(r)
          \/ UNCHANGED <<pending, worker, call>>
        BY <1>3, <2>0 DEF OffThreadNext, Send, ProcessFrame, CancelIndex,
            Receive, ReceiveDropped, ReceiveAnswer, ReceiveIndex, Open,
            VerificationWorkerFails, IngestWorkerFails, KernelFails, DestroyWorker,
            WorkerLost, Take, Answers, AnswerRequest, FinishIndex, ReportProgress,
            offThreadVars
    <2> QED BY <2>2, <2>3, <2>4, <2>5, <2>6
<1> QED BY <1>1, <1>2, <1>3 DEF PageReads

\* Every step keeps the invariant, and a cancelled request hears nothing but the
\* last word of a reading.
LEMMA ThreadStep ==
    ThreadInv /\ PageReads /\ [OffThreadNext]_offThreadVars =>
        ThreadInv' /\ PageReads' /\ [Silent]_offThreadVars
<1> SUFFICES ASSUME ThreadInv, PageReads, [OffThreadNext]_offThreadVars
             PROVE  ThreadInv' /\ [Silent]_offThreadVars
    BY PageReadsKept
<1>1. ASSUME NEW r \in Requests,
             \/ Send(r) \/ SendToNobody(r) \/ ProcessFrame(r)
             \/ CancelIndex(r) \/ CancelOnPage(r) \/ Reads(r)
      PROVE  ThreadInv' /\ Silent
    <2>1. CASE Send(r) \/ (ProcessFrame(r) /\ Accepts) \/ SendToNobody(r)
        <3>1. \E n \in Nat : Asks(r, n)
            BY <2>1, AskingIs
        <3> QED BY <3>1, AskKeeps
    <2>2. CASE ProcessFrame(r) /\ ~Accepts
        <3>1. /\ Refused(r) \in Calls /\ Sound(Refused(r)) /\ Quiet(call[r], Refused(r))
              /\ call' = [call EXCEPT ![r] = Refused(r)]
              /\ \A entry \in pending' : entry \in pending /\ entry.request # r
              /\ UNCHANGED <<sequence, inbox, outbox, jobs>>
            BY <2>2, RefusedCall
        <3>2. /\ sequence' \in Nat /\ pending' \subseteq [id : Nat, request : Requests]
              /\ inbox' \in Seq(Words) /\ outbox' \in Seq(Words) /\ jobs' \subseteq Work
            BY <3>1, CallNow
        <3> QED BY <3>1, <3>2, OneCallStep
    <2>3. CASE CancelIndex(r)
        <3>1. Ending(r) \in States
            BY CallNow DEF Ending, Calls, States
        <3>2. PICK state \in States : state = Ending(r)
            BY <3>1
        <3> QED BY <2>3, <3>2, CancelKeeps
    <2>4. CASE CancelOnPage(r)
        <3>1. call[r].state \in States
            BY CallNow DEF Calls
        <3>2. call[r].state = "waiting" => call[r].awaits > 0
            BY <2>4 DEF CancelOnPage, PageReads
        <3> QED BY <2>4, <3>1, <3>2, CancelKeeps
    <2>5. CASE Reads(r)
        BY <2>5, ReadKeeps
    <2> QED BY <1>1, <2>1, <2>2, <2>3, <2>4, <2>5
<1>2. CASE OffThreadNext
    BY <1>1, <1>2, ReceiveKeeps, FailuresKeep, WorkerKeeps DEF OffThreadNext
<1>3. CASE UNCHANGED offThreadVars
    BY <1>3, OtherThreadStep, CallNow DEF offThreadVars, ThreadInv, ThreadTypes
<1> QED BY <1>2, <1>3

LEMMA ThreadAlways ==
    OffThreadInit /\ [][OffThreadNext]_offThreadVars =>
        [](ThreadInv /\ PageReads) /\ [][Silent]_offThreadVars
<1>1. OffThreadInit => PageReads
    BY DEF OffThreadInit, PageReads, Unsent
<1> QED BY <1>1, ThreadInitially, ThreadStep, PTL

\* CancelledFallsSilent: whatever was already on its way, the callbacks of a
\* cancelled index are not called again, but by the chunk that the page itself was
\* reading, or by its root, with which the reading ends.
THEOREM CancelledFallsSilentHolds == OffThreadSpec => CancelledFallsSilent
<1>1. OffThreadInit /\ [][OffThreadNext]_offThreadVars => [][Silent]_offThreadVars
    BY ThreadAlways, PTL
<1>2. OffThreadSpec => OffThreadInit /\ [][OffThreadNext]_offThreadVars
    BY DEF OffThreadSpec
<1>3. [][Silent]_offThreadVars => CancelledFallsSilent
    BY DEF Silent, Quiet, CancelledFallsSilent
<1> QED BY <1>1, <1>2, <1>3

-----------------------------------------------------------------------------
(* Whose a message is *)

\* Words and work carry the id that their own request was given.
OwnWords == {w \in Words : w.id \in 1 .. sequence /\ call[w.payload].id = w.id}
OwnWork == {j \in Work : j.id \in 1 .. sequence /\ call[j.payload].id = j.id}

IdsInv ==
    /\ worker \in Nat
    /\ \A r \in Requests : call[r].id <= sequence
    /\ \A r, s \in Requests : call[r].id = call[s].id => call[r].id = 0 \/ r = s
    /\ \A r \in Requests : call[r].state = "unsent" => call[r].id = 0
    /\ \A entry \in pending : entry.id \in 1 .. sequence
    /\ inbox \in Seq(OwnWords) /\ outbox \in Seq(OwnWords) /\ jobs \subseteq OwnWork
    /\ \A r \in Requests : call[r].answer \subseteq {r}

\* More words make more sequences of words.
LEMMA SeqMonotone ==
    ASSUME NEW A, NEW B, A \subseteq B, NEW s \in Seq(A)
    PROVE  s \in Seq(B)
OBVIOUS

LEMMA IdsInitially == OffThreadInit => IdsInv
<1> SUFFICES ASSUME OffThreadInit PROVE IdsInv
    OBVIOUS
<1>1. <<>> \in Seq(OwnWords)
    OBVIOUS
<1> QED BY <1>1 DEF OffThreadInit, IdsInv, Unsent

\* A step that gives no id: what was one's own stays so.
LEMMA SameIds ==
    ASSUME ThreadInv, ThreadInv', IdsInv, UNCHANGED sequence,
           \A r \in Requests :
              /\ call'[r].id = call[r].id
              /\ call'[r].answer \subseteq {r}
              /\ call'[r].state = "unsent" => call[r].state = "unsent",
           \A entry \in pending' : entry \in pending,
           worker' \in Nat,
           inbox' \in Seq(OwnWords), outbox' \in Seq(OwnWords), jobs' \subseteq OwnWork
    PROVE  IdsInv'
<1>1. OwnWords' = OwnWords /\ OwnWork' = OwnWork
    <2>1. /\ \A w \in Words : w.payload \in Requests
          /\ \A j \in Work : j.payload \in Requests
        BY DEF Words, Work
    <2>2. /\ \A w \in Words : call'[w.payload].id = call[w.payload].id
          /\ \A j \in Work : call'[j.payload].id = call[j.payload].id
        BY <2>1
    <2>3. OwnWords' = {w \in Words : w.id \in 1 .. sequence /\ call'[w.payload].id = w.id}
        BY DEF OwnWords
    <2>4. OwnWork' = {j \in Work : j.id \in 1 .. sequence /\ call'[j.payload].id = j.id}
        BY DEF OwnWork
    <2>5. OwnWords' = OwnWords
        BY <2>2, <2>3 DEF OwnWords
    <2>6. OwnWork' = OwnWork
        BY <2>2, <2>4 DEF OwnWork
    <2> QED BY <2>5, <2>6
<1>2. /\ \A r \in Requests : call'[r].id <= sequence'
      /\ \A r, s \in Requests : call'[r].id = call'[s].id => call'[r].id = 0 \/ r = s
      /\ \A r \in Requests : call'[r].state = "unsent" => call'[r].id = 0
      /\ \A entry \in pending' : entry.id \in 1 .. sequence'
    BY DEF IdsInv
<1>3. inbox' \in Seq(OwnWords') /\ outbox' \in Seq(OwnWords') /\ jobs' \subseteq OwnWork'
    BY <1>1
<1> QED BY <1>2, <1>3 DEF IdsInv

\* A new id belongs to no earlier word.
LEMMA NewId ==
    ASSUME ThreadInv, ThreadInv', IdsInv, NEW r \in Requests, NEW n \in Nat, Asks(r, n),
           worker' \in Nat
    PROVE  IdsInv'
<1>1. /\ call \in [Requests -> Calls] /\ sequence \in Nat /\ sequence' \in Nat
      /\ call[r].id = 0 /\ sequence' = sequence + 1
    BY DEF ThreadInv, ThreadTypes, IdsInv, Asks
<1>2. /\ call'[r].id = sequence' /\ call'[r].state = "waiting"
      /\ call'[r].answer = call[r].answer
      /\ \A s \in Requests : s # r => call'[s] = call[s]
      /\ \A s \in Requests : call[s].id \in Nat /\ call[s].id <= sequence
    <2>1. call' = [call EXCEPT ![r] = Asked(r, n)]
        BY DEF Asks
    <2>2. call'[r] = Asked(r, n) /\ \A s \in Requests : s # r => call'[s] = call[s]
        BY <1>1, <2>1
    <2>3. \A s \in Requests : call[s].id \in Nat /\ call[s].id <= sequence
        BY <1>1 DEF Calls, IdsInv
    <2> QED BY <2>2, <2>3, AskedCall
<1>3. OwnWords \subseteq OwnWords' /\ OwnWork \subseteq OwnWork'
    <2>1. /\ \A w \in Words : w.payload \in Requests /\ w.id \in Nat
          /\ \A j \in Work : j.payload \in Requests /\ j.id \in Nat
        BY DEF Words, Work
    <2> QED BY <1>1, <1>2, <2>1 DEF OwnWords, OwnWork
<1>4. [kind |-> "run", id |-> sequence', payload |-> r] \in OwnWords'
    BY <1>1, <1>2 DEF OwnWords, Words
<1>5. inbox \in Seq(OwnWords') /\ outbox \in Seq(OwnWords')
    BY <1>3, SeqMonotone DEF IdsInv
<1>6. inbox' \in Seq(OwnWords') /\ outbox' \in Seq(OwnWords') /\ jobs' \subseteq OwnWork'
    <2>1. /\ outbox' = outbox /\ jobs' = jobs
          /\ \/ inbox' = inbox
             \/ inbox' = Append(inbox, [kind |-> "run", id |-> sequence', payload |-> r])
        BY DEF Asks
    <2>2. jobs \subseteq OwnWork
        BY DEF IdsInv
    <2>3. Append(inbox, [kind |-> "run", id |-> sequence', payload |-> r]) \in Seq(OwnWords')
        BY <1>4, <1>5
    <2> QED BY <1>3, <1>5, <2>1, <2>2, <2>3
<1>7. \A entry \in pending' : entry.id \in 1 .. sequence'
    BY <1>1 DEF IdsInv, Asks
<1>8. \A p, q \in Requests : call'[p].id = call'[q].id => call'[p].id = 0 \/ p = q
    <2> TAKE p, q \in Requests
    <2>1. CASE p # r /\ q # r
        BY <1>2, <2>1 DEF IdsInv
    <2>2. CASE p = r \/ q = r
        BY <1>1, <1>2, <2>2
    <2> QED BY <2>1, <2>2
<1>9. /\ \A p \in Requests : call'[p].id <= sequence'
      /\ \A p \in Requests : call'[p].state = "unsent" => call'[p].id = 0
      /\ \A p \in Requests : call'[p].answer \subseteq {p}
    <2> SUFFICES ASSUME NEW p \in Requests
                 PROVE  /\ call'[p].id <= sequence'
                        /\ call'[p].state = "unsent" => call'[p].id = 0
                        /\ call'[p].answer \subseteq {p}
        OBVIOUS
    <2>1. CASE p # r
        BY <1>1, <1>2, <2>1 DEF IdsInv
    <2>2. CASE p = r
        BY <1>1, <1>2, <2>2 DEF IdsInv
    <2> QED BY <2>1, <2>2
<1> QED BY <1>6, <1>7, <1>8, <1>9 DEF IdsInv

(* What the callers see *)

PState == [r \in Requests |-> call[r].state]
PCancelled == [r \in Requests |-> call[r].cancelled]
PAnswer == [r \in Requests |-> call[r].answer]
PLate == [r \in Requests |-> call[r].late]

Unseen ==
    PState' = PState /\ PCancelled' = PCancelled /\ PAnswer' = PAnswer /\ PLate' = PLate

\* A step that changes one call, as its caller sees it: what the call keeps, the
\* caller sees no change of.
LEMMA OneCallSeen ==
    ASSUME ThreadInv, NEW r \in Requests, NEW c \in Calls, call' = [call EXCEPT ![r] = c]
    PROVE  /\ PState' = [PState EXCEPT ![r] = c.state]
           /\ PCancelled' = [PCancelled EXCEPT ![r] = c.cancelled]
           /\ PAnswer' = [PAnswer EXCEPT ![r] = c.answer]
           /\ PLate' = [PLate EXCEPT ![r] = c.late]
           /\ c.state = call[r].state => PState' = PState
           /\ c.cancelled = call[r].cancelled => PCancelled' = PCancelled
           /\ c.answer = call[r].answer => PAnswer' = PAnswer
           /\ c.late = call[r].late => PLate' = PLate
<1>1. call'[r] = c /\ \A s \in Requests : s # r => call'[s] = call[s]
    BY DEF ThreadInv, ThreadTypes
<1>2. PState' = [PState EXCEPT ![r] = c.state]
    <2>1. \A s \in Requests : call'[s].state = IF s = r THEN c.state ELSE call[s].state
        BY <1>1
    <2> QED BY <2>1 DEF PState
<1>3. PAnswer' = [PAnswer EXCEPT ![r] = c.answer]
    <2>1. \A s \in Requests : call'[s].answer = IF s = r THEN c.answer ELSE call[s].answer
        BY <1>1
    <2> QED BY <2>1 DEF PAnswer
<1>4. PLate' = [PLate EXCEPT ![r] = c.late]
    <2>1. \A s \in Requests : call'[s].late = IF s = r THEN c.late ELSE call[s].late
        BY <1>1
    <2> QED BY <2>1 DEF PLate
<1>5. PCancelled' = [PCancelled EXCEPT ![r] = c.cancelled]
    <2>1. PCancelled' = [s \in Requests |-> call'[s].cancelled]
        BY DEF PCancelled
    <2>2. ASSUME NEW s \in Requests
          PROVE  [PCancelled EXCEPT ![r] = c.cancelled][s] = call'[s].cancelled
        <3>1. CASE s = r
            BY <1>1, <3>1 DEF PCancelled
        <3>2. CASE s # r
            BY <1>1, <3>2, Zenon DEF PCancelled
        <3> QED BY <3>1, <3>2
    <2> QED BY <2>1, <2>2 DEF PCancelled
<1>6. c.cancelled = call[r].cancelled => PCancelled' = PCancelled
    <2>1. ASSUME c.cancelled = call[r].cancelled, NEW s \in Requests
          PROVE  call'[s].cancelled = call[s].cancelled
        <3>1. CASE s = r
            BY <1>1, <2>1, <3>1, Zenon
        <3>2. CASE s # r
            BY <1>1, <3>2, Zenon
        <3> QED BY <3>1, <3>2
    <2> QED BY <2>1, Zenon DEF PCancelled
<1>7. c.state = call[r].state => PState' = PState
    BY <1>2 DEF PState
<1>8. c.answer = call[r].answer => PAnswer' = PAnswer
    BY <1>3 DEF PAnswer
<1>9. c.late = call[r].late => PLate' = PLate
    BY <1>4 DEF PLate
<1> QED BY <1>2, <1>3, <1>4, <1>5, <1>6, <1>7, <1>8, <1>9

\* What its caller sees of a request.
LEMMA Sight ==
    ASSUME NEW r \in Requests
    PROVE  /\ PState[r] = call[r].state /\ PCancelled[r] = call[r].cancelled
           /\ PAnswer[r] = call[r].answer /\ PLate[r] = call[r].late
BY DEF PState, PCancelled, PAnswer, PLate

\* A step that changes one call and gives no id.
LEMMA OneCallIds ==
    ASSUME ThreadInv, ThreadInv', IdsInv, UNCHANGED sequence,
           NEW r \in Requests, NEW c \in Calls, call' = [call EXCEPT ![r] = c],
           c.id = call[r].id, c.answer \subseteq {r},
           c.state = "unsent" => call[r].state = "unsent",
           \A entry \in pending' : entry \in pending, worker' \in Nat,
           inbox' \in Seq(OwnWords), outbox' \in Seq(OwnWords), jobs' \subseteq OwnWork
    PROVE  IdsInv'
<1>1. call \in [Requests -> Calls]
    BY DEF ThreadInv, ThreadTypes
<1>2. \A s \in Requests :
        /\ call'[s].id = call[s].id
        /\ call'[s].answer \subseteq {s}
        /\ call'[s].state = "unsent" => call[s].state = "unsent"
    <2>1. \A s \in Requests : call'[s] = IF s = r THEN c ELSE call[s]
        BY <1>1
    <2> QED BY <2>1 DEF IdsInv
<1> QED BY <1>2, SameIds

\* A step that changes no call.
LEMMA NoCallStep ==
    ASSUME ThreadInv, ThreadInv', IdsInv, UNCHANGED <<sequence, call, worker>>,
           \A entry \in pending' : entry \in pending,
           inbox' \in Seq(OwnWords), outbox' \in Seq(OwnWords), jobs' \subseteq OwnWork
    PROVE  IdsInv' /\ Unseen
<1>1. IdsInv'
    BY SameIds DEF IdsInv
<1> QED BY <1>1 DEF Unseen, PState, PCancelled, PAnswer, PLate

\* What the ids say of one request.
LEMMA IdsNow ==
    ASSUME ThreadInv, IdsInv, NEW r \in Requests
    PROVE  /\ worker \in Nat /\ call[r] \in Calls /\ call[r].answer \subseteq {r}
           /\ inbox \in Seq(OwnWords) /\ outbox \in Seq(OwnWords)
           /\ jobs \subseteq OwnWork
BY DEF ThreadInv, ThreadTypes, IdsInv

LEMMA AskSeen ==
    ASSUME ThreadInv, ThreadInv', IdsInv, NEW r \in Requests, NEW n \in Nat, Asks(r, n),
           worker' \in Nat
    PROVE  IdsInv' /\ Promises!Next
<1>1. /\ PState[r] = "unsent" /\ PState' = [PState EXCEPT ![r] = "waiting"]
      /\ PCancelled' = PCancelled /\ PAnswer' = PAnswer /\ PLate' = PLate
    <2>1. call' = [call EXCEPT ![r] = Asked(r, n)] /\ call[r].state = "unsent"
        BY DEF Asks
    <2>2. /\ Asked(r, n) \in Calls /\ Asked(r, n).state = "waiting"
          /\ Asked(r, n).cancelled = call[r].cancelled
          /\ Asked(r, n).answer = call[r].answer /\ Asked(r, n).late = call[r].late
        BY AskedCall
    <2>3. PState[r] = "unsent"
        BY <2>1, Sight
    <2>4. PState' = [PState EXCEPT ![r] = Asked(r, n).state]
        BY <2>1, <2>2, OneCallSeen
    <2>5. PCancelled' = PCancelled /\ PAnswer' = PAnswer /\ PLate' = PLate
        BY <2>1, <2>2, OneCallSeen
    <2> QED BY <2>2, <2>3, <2>4, <2>5
<1>2. Promises!Ask(r)
    BY <1>1 DEF Promises!Ask, PState, PCancelled, PAnswer, PLate
<1> QED BY <1>2, NewId DEF Promises!Next

LEMMA RefusalSeen ==
    ASSUME ThreadInv, ThreadInv', IdsInv, NEW r \in Requests, ProcessFrame(r), ~Accepts
    PROVE  IdsInv' /\ Promises!Next
<1>1. /\ Refused(r) \in Calls /\ call' = [call EXCEPT ![r] = Refused(r)]
      /\ Refused(r).state = "rejected" /\ Refused(r).id = call[r].id
      /\ Refused(r).cancelled = call[r].cancelled
      /\ Refused(r).answer = call[r].answer /\ Refused(r).late = call[r].late
      /\ \A entry \in pending' : entry \in pending
      /\ UNCHANGED <<sequence, worker, inbox, outbox, jobs>>
      /\ call[r].state = "unsent"
    BY RefusedCall
<1>2. IdsInv'
    BY <1>1, IdsNow, OneCallIds
<1>3. /\ PState[r] = "unsent" /\ PState' = [PState EXCEPT ![r] = "rejected"]
      /\ PCancelled' = PCancelled /\ PAnswer' = PAnswer /\ PLate' = PLate
    <2>1. PState[r] = "unsent"
        BY <1>1, Sight
    <2>2. PState' = [PState EXCEPT ![r] = Refused(r).state]
        BY <1>1, OneCallSeen
    <2>3. PCancelled' = PCancelled /\ PAnswer' = PAnswer /\ PLate' = PLate
        BY <1>1, OneCallSeen
    <2> QED BY <1>1, <2>1, <2>2, <2>3
<1>4. Promises!Refuse(r)
    BY <1>3 DEF Promises!Refuse, PState, PCancelled, PAnswer, PLate
<1> QED BY <1>2, <1>4 DEF Promises!Next

LEMMA CancelSeen ==
    ASSUME ThreadInv, ThreadInv', IdsInv, NEW r \in Requests, NEW state \in States,
           NEW atOnce \in BOOLEAN,
           \/ CancelIndex(r) /\ state = Ending(r) /\ atOnce = TRUE
           \/ /\ CancelOnPage(r) /\ state = call[r].state /\ atOnce = FALSE
              /\ call[r].state = "waiting" => call[r].awaits > 0
    PROVE  IdsInv' /\ Promises!Next
<1>1. call[r].state # "unsent" /\ ~call[r].cancelled /\ UNCHANGED <<sequence, worker>>
      /\ outbox' = outbox /\ jobs' = jobs /\ \A entry \in pending' : entry \in pending
    BY DEF CancelIndex, CancelOnPage, Without
<1>2. state = Ending(r) \/ (state = call[r].state /\ call[r].awaits > 0)
    BY DEF Ending
<1>3. /\ GivenUp(r, state) \in Calls
      /\ GivenUp(r, state).state = state /\ GivenUp(r, state).id = call[r].id
      /\ GivenUp(r, state).cancelled = TRUE
      /\ GivenUp(r, state).answer = call[r].answer
      /\ GivenUp(r, state).late = call[r].late
    BY <1>1, <1>2, CancelledCall
<1>4. call' = [call EXCEPT ![r] = GivenUp(r, state)]
    BY CancelKeeps
<1>5. inbox' \in Seq(OwnWords)
    <2>0. inbox \in Seq(OwnWords) /\ sequence \in Nat /\ call[r].id \in Nat
        BY CallNow, IdsNow DEF Calls
    <2>1. CASE CancelIndex(r) /\ worker # 0 /\ call[r].id >= worker
        <3>1. call[r].id \in 1 .. sequence
            BY <2>0, <2>1 DEF IdsInv
        <3>2. [kind |-> "cancel", id |-> call[r].id, payload |-> r] \in OwnWords
            BY <2>0, <3>1 DEF OwnWords, Words
        <3> QED BY <2>0, <2>1, <3>2 DEF CancelIndex
    <2>2. CASE ~(CancelIndex(r) /\ worker # 0 /\ call[r].id >= worker)
        BY <2>0, <2>2 DEF CancelIndex, CancelOnPage
    <2> QED BY <2>1, <2>2
<1>6. state = "unsent" => call[r].state = "unsent"
    BY DEF Ending
<1>7. IdsInv'
    BY <1>1, <1>3, <1>4, <1>5, <1>6, IdsNow, OneCallIds
<1>8. /\ PState[r] # "unsent" /\ ~PCancelled[r]
      /\ PState' = [PState EXCEPT ![r] = state]
      /\ PCancelled' = [PCancelled EXCEPT ![r] = TRUE]
      /\ PAnswer' = PAnswer /\ PLate' = PLate
    <2> DEFINE c == GivenUp(r, state)
    <2>1. PState[r] # "unsent" /\ ~PCancelled[r]
        BY <1>1, Sight
    <2>2. c \in Calls /\ call' = [call EXCEPT ![r] = c]
        BY <1>3, <1>4
    <2>3. /\ c.state = state /\ c.cancelled = TRUE
          /\ c.answer = call[r].answer /\ c.late = call[r].late
        BY <1>3
    <2> HIDE DEF c
    <2>4. /\ PState' = [PState EXCEPT ![r] = c.state]
          /\ PCancelled' = [PCancelled EXCEPT ![r] = c.cancelled]
          /\ PAnswer' = PAnswer /\ PLate' = PLate
        BY <2>2, <2>3, OneCallSeen
    <2> QED BY <2>1, <2>3, <2>4
<1>9. PState' = [PState EXCEPT ![r] = IF atOnce /\ @ = "waiting" THEN "rejected" ELSE @]
    <2>1. state = IF atOnce /\ PState[r] = "waiting" THEN "rejected" ELSE PState[r]
        BY Sight DEF Ending
    <2> QED BY <1>8, <2>1
<1>10. Promises!Cancel(r, atOnce)
    BY <1>8, <1>9 DEF Promises!Cancel, PState, PCancelled, PAnswer, PLate
<1> QED BY <1>7, <1>10 DEF Promises!Next

\* A chunk is a report, a late one, the moment a cancelled request finds out, or
\* nothing to anyone.
LEMMA ChunkSeen ==
    ASSUME ThreadInv, ThreadInv', IdsInv, NEW r \in Requests, NEW told \in BOOLEAN,
           ReadChunk(r, told)
    PROVE  IdsInv' /\ (Promises!Next \/ Unseen)
<1> DEFINE c == AfterChunk(r, told)
<1>1. /\ call[r].awaits > 0 /\ UNCHANGED PageOnly
      /\ call' = [call EXCEPT ![r] = c] /\ c \in Calls
      /\ c.state = IF call[r].cancelled /\ call[r].state = "waiting"
                   THEN "rejected" ELSE call[r].state
      /\ c.id = call[r].id /\ c.cancelled = call[r].cancelled
      /\ c.answer = call[r].answer \cup (IF told THEN {r} ELSE {})
      /\ c.late = IF told /\ call[r].cancelled THEN 1 ELSE 0
    <2>1. call[r].awaits > 1 => call[r].awaits > 0
        BY CallNow DEF Calls
    <2> QED BY <2>1, ChunkCall
<1> HIDE DEF c
<1>2. /\ call[r] \in Calls /\ call[r].answer \subseteq {r}
      /\ call[r].late = 0 /\ (~call[r].cancelled => call[r].state = "waiting")
    BY <1>1, CallNow, IdsNow DEF Sound, Calls
<1>3. IdsInv'
    BY <1>1, <1>2, IdsNow, OneCallIds DEF PageOnly
<1>4. /\ PState' = [PState EXCEPT ![r] = c.state] /\ PCancelled' = PCancelled
      /\ PAnswer' = [PAnswer EXCEPT ![r] = c.answer]
      /\ PLate' = [PLate EXCEPT ![r] = c.late]
      /\ PState[r] = call[r].state /\ PCancelled[r] = call[r].cancelled
      /\ PLate[r] = 0
    <2>1. /\ PState' = [PState EXCEPT ![r] = c.state] /\ PCancelled' = PCancelled
          /\ PAnswer' = [PAnswer EXCEPT ![r] = c.answer]
          /\ PLate' = [PLate EXCEPT ![r] = c.late]
        BY <1>1, OneCallSeen
    <2>2. /\ PState[r] = call[r].state /\ PCancelled[r] = call[r].cancelled
          /\ PLate[r] = 0
        BY <1>2, Sight
    <2> QED BY <2>1, <2>2
<1>5. CASE ~call[r].cancelled
    <2>1. PState' = PState /\ PLate' = PLate /\ PState[r] = "waiting" /\ ~PCancelled[r]
        <3>1. c.state = call[r].state /\ c.late = call[r].late
            BY <1>1, <1>2, <1>5
        <3>2. PState' = PState /\ PLate' = PLate
            BY <1>1, <3>1, OneCallSeen
        <3> QED BY <1>2, <1>4, <1>5, <3>2
    <2>2. CASE told
        <3>1. PAnswer' = [PAnswer EXCEPT ![r] = {r}]
            BY <1>1, <1>2, <1>4, <2>2
        <3>2. Promises!Report(r)
            BY <1>4, <2>1, <3>1 DEF Promises!Report, PState, PCancelled, PAnswer, PLate
        <3> QED BY <1>3, <3>2 DEF Promises!Next
    <2>3. CASE ~told
        <3>1. c.answer = call[r].answer
            BY <1>1, <2>3
        <3>2. PAnswer' = PAnswer
            BY <1>1, <3>1, OneCallSeen
        <3> QED BY <1>3, <1>4, <2>1, <3>2 DEF Unseen
    <2> QED BY <2>2, <2>3
<1>6. CASE call[r].cancelled
    <2>1. /\ PCancelled[r]
          /\ PState' = [PState EXCEPT ![r] = IF @ = "waiting" THEN "rejected" ELSE @]
        BY <1>1, <1>4, <1>6
    <2>2. CASE told
        <3>1. /\ PAnswer' = [PAnswer EXCEPT ![r] = {r}]
              /\ PLate' = [PLate EXCEPT ![r] = 1]
            BY <1>1, <1>2, <1>4, <1>6, <2>2
        <3>2. Promises!ReportLate(r)
            BY <1>4, <2>1, <3>1 DEF Promises!ReportLate, PState, PCancelled, PAnswer, PLate
        <3> QED BY <1>3, <3>2 DEF Promises!Next
    <2>3. CASE ~told
        <3>1. c.answer = call[r].answer /\ c.late = call[r].late
            BY <1>1, <1>2, <2>3
        <3>2. PAnswer' = PAnswer /\ PLate' = PLate
            BY <1>1, <3>1, OneCallSeen
        <3>3. CASE call[r].state = "waiting"
            <4>1. PState[r] = "waiting" /\ PState' = [PState EXCEPT ![r] = "rejected"]
                BY <1>4, <2>1, <3>3
            <4>2. Promises!FindOut(r)
                BY <1>4, <2>1, <3>2, <4>1
                   DEF Promises!FindOut, PState, PCancelled, PAnswer, PLate
            <4> QED BY <1>3, <4>2 DEF Promises!Next
        <3>4. CASE call[r].state # "waiting"
            <4>1. PState' = PState
                BY <1>1, <3>4, OneCallSeen
            <4> QED BY <1>3, <1>4, <3>2, <4>1 DEF Unseen
        <3> QED BY <3>3, <3>4
    <2> QED BY <2>2, <2>3
<1> QED BY <1>5, <1>6

\* The end of a reading is the answer of a request that still waits.
LEMMA ReadingSeen ==
    ASSUME ThreadInv, ThreadInv', IdsInv, NEW r \in Requests,
           NEW outcome \in {"resolved", "rejected"}, ReadEnds(r, outcome)
    PROVE  IdsInv' /\ (Promises!Next \/ Unseen)
<1> DEFINE c == AfterReading(r, outcome)
<1>1. /\ call[r].awaits > 0 /\ UNCHANGED PageOnly
      /\ call' = [call EXCEPT ![r] = c] /\ c \in Calls
      /\ c.state = IF call[r].state = "waiting" THEN outcome ELSE call[r].state
      /\ c.id = call[r].id /\ c.cancelled = call[r].cancelled
      /\ c.answer = call[r].answer \cup (IF call[r].state = "waiting" THEN {r} ELSE {})
      /\ c.late = IF call[r].state = "waiting" /\ call[r].cancelled THEN 1 ELSE 0
    BY ReadingCall
<1> HIDE DEF c
<1>2. /\ call[r] \in Calls /\ call[r].answer \subseteq {r} /\ call[r].late = 0
    BY <1>1, CallNow, IdsNow DEF Sound, Calls
<1>3. IdsInv'
    BY <1>1, <1>2, IdsNow, OneCallIds DEF PageOnly
<1>4. /\ PState' = [PState EXCEPT ![r] = c.state] /\ PCancelled' = PCancelled
      /\ PAnswer' = [PAnswer EXCEPT ![r] = c.answer]
      /\ PLate' = [PLate EXCEPT ![r] = c.late]
      /\ PState[r] = call[r].state /\ PCancelled[r] = call[r].cancelled
      /\ PLate[r] = 0
    <2>1. /\ PState' = [PState EXCEPT ![r] = c.state] /\ PCancelled' = PCancelled
          /\ PAnswer' = [PAnswer EXCEPT ![r] = c.answer]
          /\ PLate' = [PLate EXCEPT ![r] = c.late]
        BY <1>1, OneCallSeen
    <2>2. /\ PState[r] = call[r].state /\ PCancelled[r] = call[r].cancelled
          /\ PLate[r] = 0
        BY <1>2, Sight
    <2> QED BY <2>1, <2>2
<1>5. CASE call[r].state = "waiting"
    <2>1. /\ PState' = [PState EXCEPT ![r] = outcome]
          /\ PAnswer' = [PAnswer EXCEPT ![r] = {r}]
        BY <1>1, <1>2, <1>4, <1>5
    <2>2. PLate' = [PLate EXCEPT ![r] = IF PCancelled[r] THEN 1 ELSE 0]
        BY <1>1, <1>4, <1>5
    <2>3. Promises!Settle(r, outcome)
        BY <1>4, <1>5, <2>1, <2>2
           DEF Promises!Settle, PState, PCancelled, PAnswer, PLate
    <2> QED BY <1>3, <2>3 DEF Promises!Next
<1>6. CASE call[r].state # "waiting"
    <2>1. c.state = call[r].state /\ c.answer = call[r].answer /\ c.late = call[r].late
        BY <1>1, <1>2, <1>6
    <2>2. PState' = PState /\ PAnswer' = PAnswer /\ PLate' = PLate
        BY <1>1, <2>1, OneCallSeen
    <2> QED BY <1>3, <1>4, <2>2 DEF Unseen
<1> QED BY <1>5, <1>6

\* Requests are asked, refused, cancelled, and read on the page.
LEMMA PageSeen ==
    ASSUME ThreadInv, PageReads, ThreadInv', PageReads', IdsInv, NEW r \in Requests,
           \/ Send(r) \/ SendToNobody(r) \/ ProcessFrame(r)
           \/ CancelIndex(r) \/ CancelOnPage(r) \/ Reads(r)
    PROVE  IdsInv' /\ (Promises!Next \/ Unseen)
<1>0. worker' \in Nat
    BY DEF PageReads
<1>1. CASE Send(r) \/ (ProcessFrame(r) /\ Accepts) \/ SendToNobody(r)
    <2>1. \E n \in Nat : Asks(r, n)
        BY <1>1, AskingIs
    <2> QED BY <1>0, <2>1, AskSeen
<1>2. CASE ProcessFrame(r) /\ ~Accepts
    BY <1>2, RefusalSeen
<1>3. CASE CancelIndex(r)
    <2>1. PICK state \in States : state = Ending(r)
        BY CallNow DEF Ending, Calls, States
    <2> QED BY <1>3, <2>1, CancelSeen
<1>4. CASE CancelOnPage(r)
    <2>1. PICK state \in States : state = call[r].state
        BY CallNow DEF Calls
    <2>2. call[r].state = "waiting" => call[r].awaits > 0
        BY <1>4 DEF CancelOnPage, PageReads
    <2> QED BY <1>4, <2>1, <2>2, CancelSeen
<1>5. CASE Reads(r)
    BY <1>5, ChunkSeen, ReadingSeen DEF Reads
<1> QED BY <1>1, <1>2, <1>3, <1>4, <1>5

\* The request a message finds is the one it is about.
LEMMA MessageIsOwn ==
    ASSUME ThreadInv, IdsInv, outbox # <<>>, Open(Message.id)
    PROVE  /\ Message.payload = RequestOf(Message.id)
           /\ RequestOf(Message.id) \in Requests
           /\ call[RequestOf(Message.id)].state = "waiting"
           /\ ~call[RequestOf(Message.id)].cancelled
<1>1. Message \in OwnWords
    BY DEF IdsInv, Message
<1>2. /\ Message.payload \in Requests /\ Message.id \in 1 .. sequence
      /\ call[Message.payload].id = Message.id
    BY <1>1 DEF OwnWords, Words
<1>3. /\ RequestOf(Message.id) \in Requests
      /\ [id |-> Message.id, request |-> RequestOf(Message.id)] \in pending
      /\ call[RequestOf(Message.id)].id = Message.id
    BY RequestIsOpen
<1>4. Message.id # 0
    BY <1>2 DEF ThreadInv, ThreadTypes
<1>5. Message.payload = RequestOf(Message.id)
    BY <1>2, <1>3, <1>4 DEF IdsInv
<1> QED BY <1>3, <1>5 DEF ThreadInv, OpenOnesWait

\* What arrives is a report, an answer, or nothing to anyone.
LEMMA ReceiveSeen ==
    ASSUME ThreadInv, ThreadInv', IdsInv, Receive
    PROVE  IdsInv' /\ (Promises!Next \/ Unseen)
<1>0. /\ call \in [Requests -> Calls] /\ worker \in Nat
      /\ inbox \in Seq(OwnWords) /\ outbox \in Seq(OwnWords) /\ jobs \subseteq OwnWork
      /\ \A q \in Requests : call[q].answer \subseteq {q}
    BY DEF ThreadInv, ThreadTypes, IdsInv
<1>1. outbox # <<>> /\ Tail(outbox) \in Seq(OwnWords)
    <2>1. outbox # <<>>
        BY DEF Receive, ReceiveDropped, ReceiveAnswer, ReceiveIndex
    <2> QED BY <1>0, <2>1
<1>2. CASE ReceiveDropped
    BY <1>0, <1>1, <1>2, NoCallStep DEF ReceiveDropped
<1> DEFINE r == RequestOf(Message.id)
<1>3. ASSUME Open(Message.id), NEW s \in {"waiting", "resolved", "rejected"},
             Settle(r, s, Message.payload),
             \A entry \in pending' : entry \in pending,
             outbox' = Tail(outbox), UNCHANGED <<sequence, inbox, jobs, worker>>
      PROVE  IdsInv' /\ Promises!Next
    <2>1. PICK q \in Requests : /\ q = r /\ Message.payload = q
                                /\ call[q].state = "waiting" /\ ~call[q].cancelled
        BY <1>1, <1>3, MessageIsOwn
    <2> HIDE DEF r
    <2> DEFINE c == Answered(call[q], s, q)
    <2>2. /\ call[q] \in Calls /\ s \in States /\ call[q].answer \subseteq {q}
          /\ call[q].late = 0
        BY <1>0, <2>1 DEF States, ThreadInv, Sound
    <2>3. /\ c \in Calls /\ c.state = s /\ c.id = call[q].id /\ c.answer = {q}
          /\ c.cancelled = call[q].cancelled /\ c.late = call[q].late
        BY <2>1, <2>2, AnsweredCall
    <2>4. call' = [call EXCEPT ![q] = c]
        <3>1. Settle(q, s, q)
            BY <1>3, <2>1
        <3> QED BY <3>1 DEF Settle, Answered
    <2> HIDE DEF c
    <2>5. IdsInv'
        BY <1>0, <1>1, <1>3, <2>1, <2>3, <2>4, OneCallIds
    <2>6. /\ PState' = [PState EXCEPT ![q] = s] /\ PState[q] = "waiting"
          /\ PCancelled' = PCancelled /\ ~PCancelled[q]
          /\ PAnswer' = [PAnswer EXCEPT ![q] = {q}]
          /\ PLate' = PLate /\ PLate[q] = 0
        <3>1. /\ PState' = [PState EXCEPT ![q] = c.state] /\ PCancelled' = PCancelled
              /\ PAnswer' = [PAnswer EXCEPT ![q] = c.answer] /\ PLate' = PLate
            BY <2>1, <2>3, <2>4, OneCallSeen
        <3>2. PState[q] = "waiting" /\ ~PCancelled[q] /\ PLate[q] = 0
            BY <2>1, <2>2, Sight
        <3> QED BY <2>3, <3>1, <3>2
    <2>8. CASE s = "waiting"
        <3>1. PState' = PState
            BY <2>6, <2>8 DEF PState
        <3>2. Promises!Report(q)
            BY <2>6, <3>1 DEF Promises!Report, PState, PCancelled, PAnswer, PLate
        <3> QED BY <2>5, <3>2 DEF Promises!Next
    <2>9. CASE s # "waiting"
        <3>1. PLate' = [PLate EXCEPT ![q] = IF PCancelled[q] THEN 1 ELSE 0]
            BY <2>2, <2>3, <2>4, <2>6, OneCallSeen
        <3>2. Promises!Settle(q, s)
            BY <2>6, <3>1 DEF Promises!Settle, PState, PCancelled, PAnswer, PLate
        <3> QED BY <2>5, <2>9, <3>2 DEF Promises!Next
    <2> QED BY <2>8, <2>9
<1>4. CASE ReceiveAnswer
    <2> DEFINE s == IF Message.kind = "error" THEN "rejected" ELSE "resolved"
    <2>1. s \in {"waiting", "resolved", "rejected"}
        OBVIOUS
    <2>2. /\ Open(Message.id) /\ Settle(r, s, Message.payload)
          /\ \A entry \in pending' : entry \in pending
          /\ outbox' = Tail(outbox) /\ UNCHANGED <<sequence, inbox, jobs, worker>>
        BY <1>4 DEF ReceiveAnswer, Without
    <2> QED BY <1>3, <2>1, <2>2
<1>5. CASE ReceiveIndex
    <2>0. /\ Open(Message.id) /\ outbox' = Tail(outbox)
          /\ UNCHANGED <<sequence, inbox, jobs, worker>>
          /\ \A entry \in pending' : entry \in pending
        BY <1>5 DEF ReceiveIndex, Without
    <2>1. CASE Message.kind = "progress"
        <3>1. Settle(r, "waiting", Message.payload)
            BY <1>5, <2>1 DEF ReceiveIndex
        <3> QED BY <1>3, <2>0, <3>1
    <2>2. CASE Message.kind # "progress"
        <3> DEFINE s == IF Message.kind = "error" THEN "rejected" ELSE "resolved"
        <3>1. s \in {"waiting", "resolved", "rejected"}
            OBVIOUS
        <3>2. Settle(r, s, Message.payload)
            BY <1>5, <2>2 DEF ReceiveIndex
        <3> QED BY <1>3, <2>0, <3>1, <3>2
    <2> QED BY <2>1, <2>2
<1> QED BY <1>2, <1>4, <1>5 DEF Receive

\* Open requests are lost, or go on unnoticed on the page.
LEMMA FailuresSeen ==
    ASSUME ThreadInv, ThreadInv', IdsInv,
           VerificationWorkerFails \/ IngestWorkerFails \/ KernelFails \/ DestroyWorker
    PROVE  IdsInv' /\ (Promises!Next \/ Unseen)
<1>0. /\ call \in [Requests -> Calls] /\ worker \in Nat
      /\ inbox \in Seq(OwnWords) /\ outbox \in Seq(OwnWords) /\ jobs \subseteq OwnWork
      /\ OpenRequests \in SUBSET Requests
      /\ \A r \in OpenRequests : call[r].state = "waiting" /\ call[r].cancelled = FALSE
      /\ \A r \in Requests : call[r] \in Calls /\ call[r].answer \subseteq {r}
    BY DEF ThreadInv, ThreadTypes, OpenOnesWait, OpenRequests, IdsInv, Calls
<1>1. /\ worker' \in Nat /\ UNCHANGED sequence
      /\ \A entry \in pending' : entry \in pending
      /\ inbox' \in Seq(OwnWords) /\ outbox' \in Seq(OwnWords) /\ jobs' \subseteq OwnWork
    <2>1. CASE WorkerLost /\ UNCHANGED sequence
        BY <1>0, <2>1 DEF WorkerLost
    <2>2. CASE KernelFails
        BY <1>0, <2>2 DEF KernelFails
    <2>3. (WorkerLost /\ UNCHANGED sequence) \/ KernelFails
        BY Zenon DEF VerificationWorkerFails, IngestWorkerFails, DestroyWorker
    <2> QED BY <2>1, <2>2, <2>3
<1>2. ASSUME NEW b \in BOOLEAN,
             \A r \in Requests :
               IF r \in OpenRequests
               THEN /\ call'[r].state = "rejected" /\ call'[r].cancelled = b
                    /\ call'[r].id = call[r].id /\ call'[r].answer = call[r].answer
                    /\ call'[r].late = call[r].late
               ELSE call'[r] = call[r]
      PROVE  IdsInv' /\ Promises!Next
    <2>1. \A r \in Requests :
            /\ call'[r].id = call[r].id
            /\ call'[r].answer \subseteq {r}
            /\ call'[r].state = "unsent" => call[r].state = "unsent"
        BY <1>0, <1>2
    <2>2. IdsInv'
        BY <1>1, <2>1, SameIds
    <2>3. PAnswer' = PAnswer /\ PLate' = PLate
        BY <1>2 DEF PAnswer, PLate
    <2>4. \A r \in OpenRequests : PState[r] = "waiting" /\ ~PCancelled[r]
        BY <1>0 DEF PState, PCancelled
    <2>5. PCancelled' = [r \in Requests |-> PCancelled[r] \/ (r \in OpenRequests /\ b)]
        <3>1. \A r \in Requests : PCancelled[r] \in BOOLEAN /\ call'[r].cancelled \in BOOLEAN
            BY <1>0, <1>2 DEF PCancelled, Calls
        <3>2. \A r \in Requests :
                call'[r].cancelled = (PCancelled[r] \/ (r \in OpenRequests /\ b))
            BY <1>0, <1>2, <2>4, <3>1 DEF PCancelled
        <3> QED BY <3>2 DEF PCancelled
    <2>6. PState' = [r \in Requests |-> IF r \in OpenRequests THEN "rejected" ELSE PState[r]]
        BY <1>2 DEF PState
    <2>7. Promises!Lose(OpenRequests, b)
        BY <2>3, <2>4, <2>5, <2>6 DEF Promises!Lose, PState, PCancelled, PAnswer, PLate
    <2> QED BY <1>0, <2>2, <2>7 DEF Promises!Next
<1>3. CASE VerificationWorkerFails \/ KernelFails
    <2>1. call' = [r \in Requests |->
                     IF r \in OpenRequests THEN [call[r] EXCEPT !.state = "rejected"]
                                           ELSE call[r]]
        BY <1>3 DEF VerificationWorkerFails, KernelFails
    <2>2. \A r \in Requests :
            IF r \in OpenRequests
            THEN /\ call'[r].state = "rejected" /\ call'[r].cancelled = FALSE
                 /\ call'[r].id = call[r].id /\ call'[r].answer = call[r].answer
                 /\ call'[r].late = call[r].late
            ELSE call'[r] = call[r]
        BY <1>0, <2>1 DEF Calls
    <2> QED BY <1>2, <2>2
<1>4. CASE IngestWorkerFails
    <2>1. PICK chunks \in [OpenRequests -> 0..MaxChunks] :
             call' = [r \in Requests |->
                        IF r \in OpenRequests THEN [call[r] EXCEPT !.awaits = chunks[r] + 1]
                                              ELSE call[r]]
        BY <1>4 DEF IngestWorkerFails
    <2>2. \A r \in Requests :
            /\ call'[r].state = call[r].state /\ call'[r].cancelled = call[r].cancelled
            /\ call'[r].id = call[r].id /\ call'[r].answer = call[r].answer
            /\ call'[r].late = call[r].late
        BY <1>0, <2>1 DEF Calls
    <2>3. IdsInv'
        BY <1>0, <1>1, <2>2, SameIds
    <2> QED BY <2>2, <2>3 DEF Unseen, PState, PCancelled, PAnswer, PLate
<1>5. CASE DestroyWorker
    <2> DEFINE b == client = "ingest"
    <2>1. b \in BOOLEAN
        OBVIOUS
    <2>2. call' = [r \in Requests |->
                     IF r \in OpenRequests
                     THEN [call[r] EXCEPT !.state = "rejected", !.cancelled = b]
                     ELSE call[r]]
        BY <1>5, Zenon DEF DestroyWorker
    <2> HIDE DEF b
    <2>3. \A r \in Requests :
            IF r \in OpenRequests
            THEN /\ call'[r].state = "rejected" /\ call'[r].cancelled = b
                 /\ call'[r].id = call[r].id /\ call'[r].answer = call[r].answer
                 /\ call'[r].late = call[r].late
            ELSE call'[r] = call[r]
        <3> TAKE r \in Requests
        <3> DEFINE c == [call[r] EXCEPT !.state = "rejected", !.cancelled = b]
        <3>1. call[r] \in Calls
            BY <1>0
        <3>2. /\ c.state = "rejected" /\ c.cancelled = b
              /\ c.id = call[r].id /\ c.answer = call[r].answer /\ c.late = call[r].late
            BY <2>1, <3>1 DEF Calls
        <3>4. CASE r \in OpenRequests
            <4>1. call'[r] = c
                BY <2>2, <3>4, Zenon
            <4> HIDE DEF c
            <4> QED BY <3>2, <3>4, <4>1
        <3>5. CASE r \notin OpenRequests
            BY <2>2, <3>5, Zenon
        <3> QED BY <3>4, <3>5
    <2> QED BY <1>2, <2>1, <2>3
<1> QED BY <1>3, <1>4, <1>5

\* The worker passes on what it was given, under the id it was given it.
LEMMA WorkerSeen ==
    ASSUME ThreadInv, ThreadInv', IdsInv,
           Take \/ Answers \/ \E job \in jobs : ReportProgress(job)
    PROVE  IdsInv' /\ Unseen
<1>0. inbox \in Seq(OwnWords) /\ outbox \in Seq(OwnWords) /\ jobs \subseteq OwnWork
    BY DEF IdsInv
<1>1. CASE Take
    <2>1. inbox # <<>> /\ Tail(inbox) \in Seq(OwnWords) /\ Head(inbox) \in OwnWords
        BY <1>0, <1>1 DEF Take
    <2>2. [id |-> Head(inbox).id, told |-> FALSE, payload |-> Head(inbox).payload] \in OwnWork
        BY <2>1 DEF OwnWords, OwnWork, Words, Work
    <2> QED BY <1>0, <1>1, <2>1, <2>2, NoCallStep DEF Take
<1>2. ASSUME NEW job \in jobs, NEW kind \in {"progress", "complete", "error"}
      PROVE  Append(outbox, [kind |-> kind, id |-> job.id, payload |-> job.payload])
               \in Seq(OwnWords)
    <2>1. [kind |-> kind, id |-> job.id, payload |-> job.payload] \in OwnWords
        BY <1>0, <1>2 DEF OwnWords, OwnWork, Words, Work
    <2> QED BY <1>0, <2>1
<1>3. CASE Answers
    <2>1. PICK job \in jobs, kind \in {"complete", "error"} :
             AnswerRequest(job, kind) \/ FinishIndex(job, kind)
        BY <1>3 DEF Answers
    <2> QED BY <1>0, <1>2, <2>1, NoCallStep DEF AnswerRequest, FinishIndex, Post
<1>4. ASSUME NEW job \in jobs, ReportProgress(job) PROVE IdsInv' /\ Unseen
    <2>1. [job EXCEPT !.told = TRUE] \in OwnWork
        BY <1>0 DEF OwnWork, Work
    <2> QED BY <1>0, <1>2, <1>4, <2>1, NoCallStep DEF ReportProgress, Post
<1> QED BY <1>1, <1>3, <1>4

\* Every step is a step of RequestPromises, or its callers see nothing of it.
LEMMA PromiseStep ==
    /\ ThreadInv /\ PageReads /\ ThreadInv' /\ PageReads' /\ IdsInv
    /\ [OffThreadNext]_offThreadVars
    => IdsInv' /\ [Promises!Next]_(Promises!vars)
<1> SUFFICES ASSUME ThreadInv, PageReads, ThreadInv', PageReads', IdsInv,
                    [OffThreadNext]_offThreadVars
             PROVE  IdsInv' /\ (Promises!Next \/ Unseen)
    BY DEF Unseen, PState, PCancelled, PAnswer, PLate, Promises!vars
<1>1. CASE OffThreadNext
    BY <1>1, PageSeen, ReceiveSeen, FailuresSeen, WorkerSeen DEF OffThreadNext
<1>2. CASE UNCHANGED offThreadVars
    BY <1>2, NoCallStep DEF offThreadVars, IdsInv
<1> QED BY <1>1, <1>2

\* ImplementsPromises: a request settles once and for good, hears only about its
\* own payload, only while it waits and at most once after it was cancelled, for any
\* requests, any chunks, any messages lost, late or left over by an earlier worker,
\* and any failures.
THEOREM ImplementsPromisesHolds == OffThreadSpec => ImplementsPromises
<1>1. OffThreadSpec => OffThreadInit /\ [][OffThreadNext]_offThreadVars
    BY DEF OffThreadSpec
<1>2. OffThreadInit => Promises!Init
    BY DEF OffThreadInit, Promises!Init, Unsent
<1>3. OffThreadInit /\ [][OffThreadNext]_offThreadVars
        => Promises!Init /\ [][Promises!Next]_(Promises!vars)
    BY <1>2, ThreadAlways, IdsInitially, PromiseStep, PTL
<1> QED BY <1>1, <1>3 DEF ImplementsPromises, Promises!Spec

-----------------------------------------------------------------------------
(* The preview scan *)

ScanInv == views \in Nat /\ preview.revision \in Nat /\ PreviewIsOfThisScan

\* Every handler that forgets the views ends the preview with them.
LEMMA ScanStep == ScanInv /\ [ScanNext]_scanVars => ScanInv'
<1> SUFFICES ASSUME ScanInv, [ScanNext]_scanVars PROVE ScanInv'
    OBVIOUS
<1> USE DEF ScanInv, PreviewIsOfThisScan
<1>1. ASSUME ResetReadyState, UNCHANGED scan PROVE ScanInv'
    BY <1>1 DEF ResetReadyState, StopPreviewSolve, ForgetCapture, NoWorker
<1>2. CASE PressStart
    BY <1>1, <1>2 DEF PressStart, capture
<1>3. CASE PressReset
    BY <1>1, <1>3 DEF PressReset
<1>4. CASE SolveScan
    BY <1>4 DEF SolveScan, Verdict, StopPreviewSolve, NoWorker
<1>5. ASSUME NEW s \in starting, CameraGranted(s) PROVE ScanInv'
    BY <1>5 DEF CameraGranted, capture
<1>6. ASSUME NEW s \in starting, StartFails(s) PROVE ScanInv'
    BY <1>1, <1>6 DEF StartFails
<1>7. ASSUME NEW s \in starting, BeginCapture(s) PROVE ScanInv'
    BY <1>7 DEF BeginCapture, StopPreviewSolve, ForgetCapture, NoWorker
<1>8. CASE CaptureKeyframe
    BY <1>8 DEF CaptureKeyframe, RequestPreviewSolve
<1>9. ASSUME NEW ok \in BOOLEAN, NEW better \in BOOLEAN, FinishPreview(ok, better)
      PROVE  ScanInv'
    BY <1>9 DEF FinishPreview, NoWorker
<1>10. ASSUME NEW s \in solves, NEW ok \in BOOLEAN, SolveEnds(s, ok) PROVE ScanInv'
    BY <1>10 DEF SolveEnds, Verdict, capture
<1>11. CASE UNCHANGED scanVars
    BY <1>11 DEF scanVars, capture
<1> QED BY <1>2, <1>3, <1>4, <1>5, <1>6, <1>7, <1>8, <1>9, <1>10, <1>11
        DEF ScanNext, PreviewAnswers, SolveAnswers

\* PreviewIsOfThisScan: for any number of scans, views and cameras.
THEOREM PreviewIsOfThisScanHolds == ScanSpec => []PreviewIsOfThisScan
<1>1. ScanInit => ScanInv
    BY DEF ScanInit, ScanInv, PreviewIsOfThisScan, NoWorker
<1>2. ScanInv => PreviewIsOfThisScan
    BY DEF ScanInv
<1> QED BY <1>1, <1>2, ScanStep, PTL DEF ScanSpec

-----------------------------------------------------------------------------
(* The boot of the World Cell page *)

\* The page is authoritative only after every phase was fulfilled in time, none
\* rejected or left running, and both runtimes verified; the page says of
\* a runtime that it is verified only when its own phase was fulfilled (boot,
\* installEformAssurance).  A start button is on only in a mode that can start.
AuthorityIsEarned ==
    /\ keyxym = "verified" =>
         /\ \A i \in 1..Len(Authority) : Authority[i] \in done
         /\ late = {} /\ failed = {} /\ map = "verified" /\ eform = "verified"
    /\ map = "verified" => "bundle" \in done
    /\ eform = "verified" => map = "verified" /\ "assurance" \in done
    /\ startable => mode \in {"authoritative", "recovery"}
                    \/ (mode = "preview" /\ camera /\ Preview \in done)

\* The mode the page ends in is its last, whatever completes late: a bundle
\* verified after its timer, or a theater beside the preview, makes nothing
\* authoritative (withTimeout, enterPreview, installEmergencyShell).
EndedIn == {"authoritative", "preview", "recovery"}
ModeIsFinal ==
    mode \in EndedIn => UNCHANGED <<mode, keyxym, map, eform, startable>>

\* How far the page has come decides what it says of itself.
BootInv ==
    /\ mode \in EndedIn \cup {"closed", "booting", "entering"}
    /\ phase \in 0..6 /\ camera \in BOOLEAN /\ startable \in BOOLEAN
    /\ \A i \in 1..phase : Authority[i] \in done
    /\ map = "verified" <=> phase >= 2
    /\ eform = "verified" <=> phase >= 4
    /\ mode \in {"closed", "booting", "entering"} => ~startable
    /\ mode \in {"closed", "booting", "authoritative"} => late = {} /\ failed = {}
    /\ mode \in {"closed", "booting"} => keyxym = "none" /\ phase < 6
    /\ mode = "authoritative" => keyxym = "verified" /\ phase = 6
    /\ mode = "entering" => keyxym = "none"
    /\ mode = "preview" =>
         keyxym = "preview" /\ (startable => camera) /\ Preview \in done
    /\ mode = "recovery" => keyxym = "boot-failed"

\* The phases, and where the two runtimes are among them.
LEMMA PhaseNames ==
    /\ Len(Authority) = 6 /\ Authority[2] = "bundle" /\ Authority[4] = "assurance"
    /\ \A i \in 1..6 : /\ Authority[i] = "bundle" => i = 2
                       /\ Authority[i] = "assurance" => i = 4
                       /\ Authority[i] \in AssurancePhases <=> i \in {3, 4}
BY DEF Authority, AssurancePhases

LEMMA BootStep == BootInv /\ [BootNext]_cellBootVars => BootInv' /\ ModeIsFinal
<1> SUFFICES ASSUME BootInv, [BootNext]_cellBootVars PROVE BootInv' /\ ModeIsFinal
    OBVIOUS
<1> USE PhaseNames DEF BootInv, EndedIn, ModeIsFinal, Current
<1>1. CASE OpenPage
    BY <1>1 DEF OpenPage
<1>2. CASE PhaseCompletes
  <2>1. \A i \in 1..phase' : Authority[i] \in done'
    BY <1>2 DEF PhaseCompletes
  <2>2. (map' = "verified" <=> phase' >= 2) /\ (eform' = "verified" <=> phase' >= 4)
    BY <1>2 DEF PhaseCompletes, Records
  <2> QED BY <1>2, <2>1, <2>2 DEF PhaseCompletes
<1>3. CASE TheaterCompletes
    BY <1>3 DEF TheaterCompletes
<1>4. ASSUME NEW timeout \in BOOLEAN, BootFails(timeout)
      PROVE  BootInv' /\ ModeIsFinal
  <2>1. (map' = "verified" <=> phase' >= 2) /\ (eform' = "verified" <=> phase' >= 4)
    BY <1>4 DEF BootFails, Leaves
  <2> QED BY <1>4, <2>1 DEF BootFails
<1>5. CASE EnterPreview
    BY <1>5 DEF EnterPreview
<1>6. CASE InstallEmergencyShell
    BY <1>6 DEF InstallEmergencyShell
<1>7. ASSUME NEW p \in late, LateCompletion(p) PROVE BootInv' /\ ModeIsFinal
    BY <1>7 DEF LateCompletion
<1>8. CASE UNCHANGED cellBootVars
    BY <1>8 DEF cellBootVars
<1> QED BY <1>1, <1>2, <1>3, <1>4, <1>5, <1>6, <1>7, <1>8 DEF BootNext

\* AuthorityIsEarned and ModeIsFinal: through any phase that hangs, fails or
\* completes after its timer.
THEOREM AuthorityIsEarnedHolds ==
    BootInit /\ [][BootNext]_cellBootVars
        => []AuthorityIsEarned /\ [][ModeIsFinal]_cellBootVars
<1>1. BootInit => BootInv
  <2> SUFFICES ASSUME BootInit PROVE BootInv
    OBVIOUS
  <2>1. camera \in BOOLEAN /\ startable \in BOOLEAN /\ ~startable
    BY Zenon DEF BootInit
  <2> QED BY <2>1 DEF BootInit, BootInv, EndedIn
<1>2. BootInv => AuthorityIsEarned
  <2> SUFFICES ASSUME BootInv PROVE AuthorityIsEarned
    OBVIOUS
  <2>1. keyxym = "verified" => mode = "authoritative"
    BY DEF BootInv, EndedIn
  <2>2. (phase >= 2 => "bundle" \in done) /\ (phase >= 4 => "assurance" \in done)
    BY PhaseNames DEF BootInv
  <2>3. startable => mode \in {"authoritative", "recovery"}
                     \/ (mode = "preview" /\ camera /\ Preview \in done)
    <3>1. startable => mode \in EndedIn
      BY Zenon DEF BootInv
    <3>2. startable /\ mode = "preview" => camera /\ Preview \in done
      BY Zenon DEF BootInv
    <3>3. mode \in EndedIn <=> mode \in {"authoritative", "recovery"} \/ mode = "preview"
      BY DEF EndedIn
    <3> QED BY <3>1, <3>2, <3>3, Zenon
  <2> QED BY <2>1, <2>2, <2>3, PhaseNames DEF BootInv, AuthorityIsEarned
<1> QED BY <1>1, <1>2, BootStep, PTL
=============================================================================
