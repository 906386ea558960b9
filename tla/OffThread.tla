----------------------------- MODULE OffThread -----------------------------
(***************************************************************************)
(* The pages' request clients: verification-client.ts, which has artifacts  *)
(* verified in a worker, local-ingest-client.ts, which has files indexed in *)
(* one, and keyxym-v26-client.ts, whose worker runs the Keyxym kernel, with *)
(* the workers they talk to.  All number their requests and keep the open   *)
(* ones; the first two drop the worker with the map when it fails.  They    *)
(* differ in what a failure means for an open request: a verification or a  *)
(* frame is rejected, an index is computed on the page, where it also is    *)
(* when the browser has no workers.  client says which of them is running;  *)
(* they share no state.                                                     *)
(***************************************************************************)
EXTENDS Naturals, Sequences

CONSTANTS Requests,     \* calls of the page, each with its own payload
          MaxFailures,  \* bound: error events of workers
          MaxChunks     \* bound: chunks of a file that the page reads itself

ASSUME OffThreadAssumption == MaxChunks \in Nat

VARIABLES
    client,     \* "verification", "ingest" or "kernel"; "page": the ingest
                \* client of a browser without workers
    worker,     \* its first id, or 0: there is none; a failed one is replaced
    failures,   \* error events so far
    sequence,   \* the last id given
    pending,    \* the open requests: id -> request
    inbox,      \* messages to the worker, in order
    jobs,       \* what the worker runs: the ids, with their payloads
    ignored,    \* ids the ingest worker was told to cancel
    outbox,     \* messages to the page, in order
    call        \* what became of each request

offThreadVars == <<client, worker, failures, sequence, pending, inbox, jobs,
                   ignored, outbox, call>>

\* awaits is how often the page itself has still to wait for the file: once for
\* each chunk and once for the root, or 0 when it is not reading it.  late is a
\* HISTORY: how often the caller heard something after it had cancelled.
Unsent == [state |-> "unsent", id |-> 0, cancelled |-> FALSE, answer |-> {},
           awaits |-> 0, late |-> 0]

\* The open requests of ids, and the ids of a request.
Open(id) == \E entry \in pending : entry.id = id
RequestOf(id) == CHOOSE r \in Requests : [id |-> id, request |-> r] \in pending
Without(id) == {entry \in pending : entry.id # id}
Heard(c, answer) ==
    [c EXCEPT !.answer = @ \cup {answer}, !.late = IF c.cancelled THEN @ + 1 ELSE @]
Settle(r, state, answer) ==
    call' = [call EXCEPT ![r] = [Heard(@, answer) EXCEPT !.state = state]]

OffThreadInit ==
    /\ client \in {"verification", "ingest", "kernel", "page"}
    /\ worker = IF client = "kernel" THEN 1 ELSE 0    \* load has awaited its ready message
    /\ failures = 0
    /\ sequence = 0
    /\ pending = {}
    /\ inbox = <<>>
    /\ jobs = {}
    /\ ignored = {}
    /\ outbox = <<>>
    /\ call = [r \in Requests |-> Unsent]

-----------------------------------------------------------------------------
(* The page.                                                               *)

\* request and indexLocalFileOffThread: the next id, an entry of the map and
\* a message.  getWorker starts a worker when there is none.
Send(r) ==
    /\ client \in {"verification", "ingest"}
    /\ call[r].state = "unsent"
    /\ sequence' = sequence + 1
    /\ worker' = IF worker = 0 THEN sequence' ELSE worker
    /\ pending' = pending \cup {[id |-> sequence', request |-> r]}
    /\ inbox' = Append(inbox, [kind |-> "run", id |-> sequence', payload |-> r])
    /\ call' = [call EXCEPT ![r].state = "waiting", ![r].id = sequence']
    /\ UNCHANGED <<client, failures, jobs, ignored, outbox>>

\* indexLocalFileOffThread where there are no workers: the task's promise is the
\* one of calculateLocalFileIdentity.
SendToNobody(r) ==
    /\ client = "page"
    /\ call[r].state = "unsent"
    /\ sequence' = sequence + 1
    /\ \E chunks \in 0..MaxChunks :
         call' = [call EXCEPT ![r].state = "waiting", ![r].id = sequence',
                              ![r].awaits = chunks + 1]
    /\ UNCHANGED <<client, worker, failures, pending, inbox, jobs, ignored, outbox>>

\* processFrame: one frame at a time, and none once the client is destroyed.
Accepts == worker # 0 /\ pending = {}
ProcessFrame(r) ==
    /\ client = "kernel" /\ call[r].state = "unsent"
    /\ IF Accepts
       THEN /\ sequence' = sequence + 1
            /\ pending' = {[id |-> sequence', request |-> r]}
            /\ inbox' = Append(inbox, [kind |-> "run", id |-> sequence', payload |-> r])
            /\ call' = [call EXCEPT ![r].state = "waiting", ![r].id = sequence']
       ELSE /\ call' = [call EXCEPT ![r].state = "rejected"]
            /\ UNCHANGED <<sequence, pending, inbox>>
    /\ UNCHANGED <<client, worker, failures, jobs, ignored, outbox>>

CancelKeepsEntry(r) ==      \* fault: the entry stays in the map
    /\ client = "ingest"
    /\ call[r].state # "unsent" /\ ~call[r].cancelled
    /\ call' = [call EXCEPT ![r].cancelled = TRUE, ![r].state = "rejected"]
    /\ UNCHANGED <<client, worker, failures, sequence, pending, inbox, jobs,
                   ignored, outbox>>

\* The entry goes and the promise is rejected, unless it has settled; the
\* worker is told in either case, if it is still the same one.  A reading on
\* the page only finds out at its next check.
CancelIndex(r) ==
    /\ client = "ingest"
    /\ call[r].state # "unsent" /\ ~call[r].cancelled
    /\ pending' = Without(call[r].id)
    /\ inbox' = IF worker # 0 /\ call[r].id >= worker
                THEN Append(inbox, [kind |-> "cancel", id |-> call[r].id,
                                    payload |-> r])
                ELSE inbox
    /\ call' = [call EXCEPT ![r].cancelled = TRUE,
                            ![r].state = IF @ = "waiting" THEN "rejected" ELSE @]
    /\ UNCHANGED <<client, worker, failures, sequence, jobs, ignored, outbox>>

\* Without workers cancel only sets the flag that the reading looks at.
CancelOnPage(r) ==
    /\ client = "page"
    /\ call[r].state # "unsent" /\ ~call[r].cancelled
    /\ call' = [call EXCEPT ![r].cancelled = TRUE]
    /\ UNCHANGED <<client, worker, failures, sequence, pending, inbox, jobs,
                   ignored, outbox>>

\* A message of the worker finds its request by id, or is dropped.
Message == Head(outbox)
ReceiveDropped ==
    /\ outbox # <<>> /\ ~Open(Message.id)
    /\ outbox' = Tail(outbox)
    /\ UNCHANGED <<client, worker, failures, sequence, pending, inbox, jobs,
                   ignored, call>>

\* request of verification-client.ts and onMessage of keyxym-v26-client.ts.
ReceiveAnswer ==
    /\ client # "ingest"
    /\ outbox # <<>> /\ Open(Message.id)
    /\ outbox' = Tail(outbox)
    /\ pending' = Without(Message.id)
    /\ Settle(RequestOf(Message.id),
              IF Message.kind = "error" THEN "rejected" ELSE "resolved",
              Message.payload)
    /\ UNCHANGED <<client, worker, failures, sequence, inbox, jobs, ignored>>

\* Progress keeps the request open; anything else closes it.
ReceiveIndex ==
    /\ client = "ingest"
    /\ outbox # <<>> /\ Open(Message.id)
    /\ outbox' = Tail(outbox)
    /\ LET r == RequestOf(Message.id) IN
       IF Message.kind = "progress"
       THEN Settle(r, "waiting", Message.payload) /\ UNCHANGED pending
       ELSE /\ pending' = Without(Message.id)
            /\ Settle(r, IF Message.kind = "error" THEN "rejected" ELSE "resolved",
                      Message.payload)
    /\ UNCHANGED <<client, worker, failures, sequence, inbox, jobs, ignored>>

\* The error event of a worker: what it was doing and had said is gone.
WorkerLost ==
    /\ worker # 0 /\ failures < MaxFailures
    /\ worker' = 0 /\ failures' = failures + 1
    /\ inbox' = <<>> /\ outbox' = <<>> /\ jobs' = {} /\ ignored' = {}
    /\ pending' = {}

OpenRequests == {entry.request : entry \in pending}
VerificationWorkerFails ==
    /\ client = "verification" /\ WorkerLost
    /\ call' = [r \in Requests |->
                  IF r \in OpenRequests THEN [call[r] EXCEPT !.state = "rejected"]
                                        ELSE call[r]]
    /\ UNCHANGED <<client, sequence>>

\* An error event of the kernel's worker rejects the open frame; the worker
\* stays, and may still answer it.
KernelFails ==
    /\ client = "kernel" /\ worker # 0 /\ failures < MaxFailures
    /\ failures' = failures + 1
    /\ pending' = {}
    /\ call' = [r \in Requests |->
                  IF r \in OpenRequests THEN [call[r] EXCEPT !.state = "rejected"]
                                        ELSE call[r]]
    /\ UNCHANGED <<client, worker, sequence, inbox, jobs, ignored, outbox>>

\* Each open index starts again on the page, with the callback it came with.
IngestWorkerForgets ==      \* fault: open requests go with their worker
    client = "ingest" /\ WorkerLost /\ UNCHANGED <<client, sequence, call>>

IngestWorkerFails ==
    /\ client = "ingest" /\ WorkerLost
    /\ \E chunks \in [OpenRequests -> 0..MaxChunks] :
         call' = [r \in Requests |->
                    IF r \in OpenRequests THEN [call[r] EXCEPT !.awaits = chunks[r] + 1]
                                          ELSE call[r]]
    /\ UNCHANGED <<client, sequence>>

\* calculateLocalFileIdentity on the page.  A chunk has been read and hashed: the
\* callback may hear of it, and does of the last one, before anybody looks at the
\* flag; then the loop goes on, or ends the reading of a cancelled index.
Ended(c, outcome) ==
    [c EXCEPT !.state = IF @ = "waiting" THEN outcome ELSE @, !.awaits = 0]
PageOnly == <<client, worker, failures, sequence, pending, inbox, jobs, ignored, outbox>>

ReadGoesOn(r, told) ==      \* fault: the flag is not looked at
    /\ call[r].awaits > 1
    /\ call[r].awaits = 2 => told
    /\ call' = [call EXCEPT ![r] =
                  [IF told THEN Heard(@, r) ELSE @ EXCEPT !.awaits = @ - 1]]
    /\ UNCHANGED PageOnly
ReadChunk(r, told) ==
    /\ call[r].awaits > 1
    /\ call[r].awaits = 2 => told
    /\ LET c == IF told THEN Heard(call[r], r) ELSE call[r] IN
       call' = [call EXCEPT ![r] = IF c.cancelled THEN Ended(c, "rejected")
                                   ELSE [c EXCEPT !.awaits = @ - 1]]
    /\ UNCHANGED PageOnly

\* The root comes after the last check, so that it settles a promise that still
\* waits whether the index is cancelled or not.  A file that cannot be read, or
\* hashed, rejects it.
ReadEnds(r, outcome) ==
    /\ call[r].awaits > 0
    /\ call[r].awaits > 1 => outcome = "rejected"
    /\ LET c == IF call[r].state = "waiting" THEN Heard(call[r], r) ELSE call[r] IN
       call' = [call EXCEPT ![r] = Ended(c, outcome)]
    /\ UNCHANGED PageOnly

\* destroyVerificationWorker and destroyLocalIngestWorker, when the page
\* goes away, and destroy of the kernel's client: what is open is rejected.
DestroyWorker ==
    /\ WorkerLost
    /\ call' = [r \in Requests |->
                  IF r \in OpenRequests
                  THEN [call[r] EXCEPT !.state = "rejected",
                                       !.cancelled = client = "ingest"]
                  ELSE call[r]]
    /\ UNCHANGED <<client, sequence>>

-----------------------------------------------------------------------------
(* The workers.  Jobs await their bytes and digests, so they overlap.      *)

Take ==
    /\ inbox # <<>>
    /\ inbox' = Tail(inbox)
    /\ IF Head(inbox).kind = "cancel"
       THEN ignored' = ignored \cup {Head(inbox).id} /\ UNCHANGED jobs
       ELSE /\ jobs' = jobs \cup {[id |-> Head(inbox).id, told |-> FALSE,
                                   payload |-> Head(inbox).payload]}
            /\ UNCHANGED ignored
    /\ UNCHANGED <<client, worker, failures, sequence, pending, outbox, call>>

Post(job, kind) ==
    outbox' = Append(outbox, [kind |-> kind, id |-> job.id,
                              payload |-> job.payload])

\* A kernel whose metric frame lacks its spatial part answers with an error,
\* as one that was not initialized does.
AnswerRequest(job, kind) ==
    /\ client # "ingest"
    /\ jobs' = jobs \ {job}
    /\ Post(job, kind)
    /\ UNCHANGED <<client, worker, failures, sequence, pending, inbox, ignored, call>>

\* Progress is posted from inside the reading loop; here at most once.
ReportProgress(job) ==
    /\ client = "ingest" /\ ~job.told
    /\ jobs' = (jobs \ {job}) \cup {[job EXCEPT !.told = TRUE]}
    /\ Post(job, "progress")
    /\ UNCHANGED <<client, worker, failures, sequence, pending, inbox, ignored, call>>

\* A cancelled job ends without a word, and its id is forgotten.
FinishIndex(job, kind) ==
    /\ client = "ingest"
    /\ jobs' = jobs \ {job}
    /\ IF job.id \in ignored THEN UNCHANGED outbox ELSE Post(job, kind)
    /\ ignored' = ignored \ {job.id}
    /\ UNCHANGED <<client, worker, failures, sequence, pending, inbox, call>>

-----------------------------------------------------------------------------
Receive == ReceiveDropped \/ ReceiveAnswer \/ ReceiveIndex
Reads(r) ==
    \/ \E told \in BOOLEAN : ReadChunk(r, told)
    \/ \E outcome \in {"resolved", "rejected"} : ReadEnds(r, outcome)
Answers ==
    \E job \in jobs, kind \in {"complete", "error"} :
        AnswerRequest(job, kind) \/ FinishIndex(job, kind)

OffThreadNext ==
    \/ \E r \in Requests :
         \/ Send(r) \/ SendToNobody(r) \/ ProcessFrame(r)
         \/ CancelIndex(r) \/ CancelOnPage(r) \/ Reads(r)
    \/ Receive
    \/ VerificationWorkerFails \/ IngestWorkerFails \/ KernelFails \/ DestroyWorker
    \/ Take
    \/ Answers
    \/ \E job \in jobs : ReportProgress(job)

\* The event loops of the page and of the worker go on, and every
\* verification and every reading of a file comes to an end.
OffThreadFairness ==
    /\ WF_offThreadVars(Receive)
    /\ WF_offThreadVars(Take)
    /\ WF_offThreadVars(Answers)
    /\ \A r \in Requests : WF_offThreadVars(Reads(r))

OffThreadSpec ==
    OffThreadInit /\ [][OffThreadNext]_offThreadVars /\ OffThreadFairness

-----------------------------------------------------------------------------
\* A cancelled index hears nothing more from a worker, even when progress or its
\* completion was already on the way; while the page reads the file itself it may
\* hear one thing, with which the reading ends (indexLocalFileOffThread,
\* calculateLocalFileIdentity).
CancelledFallsSilent ==
    [][\A r \in Requests :
         call[r].cancelled /\ call'[r].late # call[r].late =>
             call[r].awaits > 0 /\ call'[r].awaits = 0]_offThreadVars

\* Each request is as RequestPromises says: it settles once, on its own payload
\* and while it waits, however late, lost or left over the messages are, and
\* hears one thing at most after it was cancelled.
Promises == INSTANCE RequestPromises WITH
    state <- [r \in Requests |-> call[r].state],
    cancelled <- [r \in Requests |-> call[r].cancelled],
    answer <- [r \in Requests |-> call[r].answer],
    late <- [r \in Requests |-> call[r].late]
ImplementsPromises == Promises!Spec

\* Every request settles, whatever happens to the worker that holds it.
RequestsSettle ==
    \A r \in Requests :
        call[r].state = "waiting" ~> call[r].state \in {"resolved", "rejected"}
=============================================================================
