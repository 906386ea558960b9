# Verification of Tessaryn

TLA+ models of the parts of Tessaryn whose order of steps matters, the TLC runs
that check small instances of them, and TLAPS proofs that carry every safety
property of the passing runs to instances of any size.  The models cover the
Object Weave node and the synchronization of Loci between peers (Rust), and the
Origin site: the publisher, the viewer and its scene, the World Cell page from its
boot to its seals, the workers, the verifiers, the service worker and the files
kept on a device (TypeScript and JavaScript).

## The system

Tessaryn turns sensor frames and captures into content-addressed, signed
artifacts ("Loci" of chunks, World Cells, cinematic containers), verifies them in
a browser, and publishes them to independent storage nodes.

| component | state it keeps | operations | what is hard | what makes it correct |
|---|---|---|---|---|
| Object Weave node (`services/tessaryn-weave-node`) | directories `uploads/`, `objects/`, `publications/`, `revocations/`, `tmp/`; two locks | begin_upload, store_chunk, upload_status, commit_upload, revoke_publication, catalog | requests overlap, blocking tasks outlive their requests, crashes between durable steps, limits checked before the step they allow | a receipt has its object; limits and reservations hold; one committer per upload; debris goes away; revocations stay |
| Locus synchronization (`crates/tessaryn-sync`) with the Cell store (`tessaryn-store`) and the revocation registry (`tessaryn-privacy`) | `SyncState`: heads per sender and branch, packets seen; files by digest; revocation times | create, receive, install; write_atomic, read; revoke, decrypt | lost, repeated, reordered packets; a crash between acceptance and installation; records in any order | one contiguous chain per sender and branch; an accepted Locus can be installed; nothing is decrypted from the earliest revocation on |
| Publisher client and Personal Weave (`weave-client.ts`, `personal-weave.ts`, `main.ts`) | identity, records and bytes in IndexedDB and OPFS | publish, keep, mark, unmark, revoke, remove | tabs and tasks overlap, updates take two transactions, retries, lost and foreign answers | one identity; a record names a publication of its artifact |
| Viewer (`main.ts`, `cinematic-object.ts`, `source-geometry.ts`) | some twenty globals that together are one construction | boot, six kinds of import, indexing, closing, reset, publishing | every import awaits and then installs itself over whatever is there, also beneath an open dialog | the file that is published is the one its Cell describes and its owner authorized; only the open file is indexed |
| World renderer (`world.ts`) | flags in the objects of the scene graph | loads, selection, layers, scale, Moment, evidence, chronofold | each method must bring the flags of the nodes it touches up to date | evidence off hides evidence |
| World Cell boot and provenance (`world-cell-authority-entry.ts`, `keyxym-v26-provenance.ts`, `browser-assurance-runtime.ts`, `keyxym-v26-worker.ts`) | mode, phases; fetched bytes, compiled bridge, running kernel | boot, fetch, check, load, reset | phases raced with timers and not stopped; files are loaded again after they were checked | boot ends; only approved bytes run |
| World Cell theater (`world-cell-theater-v26.ts`) | kernel, frame, decision, Moments, evidence, sealed Cell | capture, commit, seal, export, receive, reset | each operation awaits a worker, a bridge or a verification while others change the state | the Moments are one authorised lineage; a seal stays what was sealed |
| Preview scan (`world-cell-preview-fallback.ts`) | stream, views, preview worker, result | start, capture, preview, stop, solve, reset | late answers of an earlier scan | a preview is of this scan; solves end |
| Scan solver (`world-cell-scan-v4-worker.ts`), geometry, cinematic drawing | none between calls | numerical functions | floating-point arithmetic | not modelled |
| Worker clients (`verification-client.ts`, `local-ingest-client.ts`, `keyxym-v26-client.ts` and their workers) | ids, open requests | request, answer, cancel, fail, destroy | messages cross cancellation; a worker dies with requests open | a request settles; a cancelled one falls silent |
| Browser verification and lineage (`verification.ts`) | none between calls | verify five kinds of document, replay a Rootprint | chains of digests, claims of foreign writers | what is accepted is bound to its root; a replay follows the parents, not the claims |
| Service worker (`public/sw.js`) | a cache per release | install, activate, fetch by five rules | installations over a running release, late writes | every CORE path is answered |
| Device files (`keyxym-mobile.ts`, `keyxym-personal-store.ts`, `local-file-identity.ts`) | files, journals; per tab an active object | ingest, transfer, delete, clear | a transfer awaits per chunk, the active object is read again each time, two tabs | a journal counts only what reached the peer |
| Origin handoff | one record in IndexedDB | stage, take | two navigations with one id | not modelled, see below |
| Cell index, anchor graph, witness sets, canonical forms, bridge, reconstruction, transport (`crates/*`) | none, or one call's | pure functions | order of limits, tolerances, encodings | not modelled, see below |
| CLI, earlier kernels, vendored code, operations | batch, superseded or third-party | | | not modelled |

The publisher calls the node over HTTP (begin, status, chunks, commit, revoke); the
viewer hands the publisher what it has verified and tells the scene what to show;
pages and workers exchange messages; the World Cell page checks and starts its
kernel with files that the service worker may answer; sync packets carry Loci from
one store to another.  `PROJECT.json` lists all components with their sources, and
under `hazards` each place where the code is hard to test, with the properties
that watch it.

## Modules

| module | models | extends |
|---|---|---|
| `WeavePolicy` | `WeaveConfig` with `validate_config`, signed intents, sums of bytes | |
| `PublicationLedger` | what the node promises about storage: open, close, retain, publish, each in one step | `WeavePolicy` |
| `WeaveNode` | the upload and commit handlers, step by step | `WeavePolicy` |
| `Revocations` | `revoke_publication` and `catalog` | |
| `PacketJournal` | what a receiving peer promises: accept, install, save, lose, revoke, each in one step | |
| `LocusSync` | a receiving peer: `receive_sync_packet`, `install_locus`, the store, the registry, the network | |
| `Publisher` | `weave-client.ts` and its callers: identity, publication, Personal Weave | |
| `Viewer` | the constructions `main.ts` opens, replaces, closes and publishes | |
| `World` | what of the scene is visible | |
| `Theater` | the World Cell page once it is authoritative | |
| `ServiceWorker` | release caches | |
| `Verification`, `Lineage` | the document verifiers, the Rootprint replay | |
| `DeviceFiles` | source files and transfers of the mobile page | |
| `Provenance` | the bytes of the two WebAssembly runtimes, from the server to their start | |
| `RequestPromises` | what a request client promises its callers: ask, progress, cancel, settle, and how late it may still be heard | |
| `OffThread` | three request clients and their workers | |
| `PreviewScan` | the scan without authority | |
| `CellBoot` | the phases of the World Cell page's boot | |
| `MCWeaveNode`, `MCRevocations`, `MCLocusSync` | instances for TLC | the module each is named after |
| `MCOriginPage` | instance for TLC | `Publisher`, `Viewer`, `World`, `Theater`, `ServiceWorker`, `Verification`, `Lineage`, `DeviceFiles`, `Provenance` |
| `MCPageTasks` | instance for TLC | `OffThread`, `PreviewScan`, `CellBoot` |
| `WeaveNodeProofs`, `WeaveLedgerProofs` | theorems about `WeaveNode`; the second adds the refinement of `PublicationLedger` and the limits | `WeaveNode`, TLAPS |
| `RevocationProofs`, `LocusSyncProofs` | theorems about one module each | |
| `DeviceProofs` | theorems about `Publisher` and `DeviceFiles` | |
| `PageProofs` | theorems about `Viewer`, `World`, `ServiceWorker`, `Verification`, `Lineage` | |
| `WorldCellProofs` | theorems about `Theater` and `Provenance` | |
| `PageTaskProofs` | theorems about `OffThread`, `PreviewScan`, `CellBoot` | |

Operators marked `fault:` stand beside the definition they distort (a dropped
guard, an off-by-one, a missing reset).  No specification uses them; with one in
place of the real definition, the property it is paired with in `PROJECT.json`
under `mutants` is violated.

### WeaveNode and the code

The durable state is the directory tree: `dirs`, `files` and `age` are
`uploads/<id>/` with the modification time of each directory; `objects`,
`receipts` and `temporary` are the files of the other three directories.  Files
are members of a small set (a chunk, `session.json`, `commit.active`), and a
chunk is right or wrong: it belongs to the signed content or it does not.
`store_chunk` cannot tell, because it checks a chunk only against the digest sent
with it.

The volatile state is the position of every blocking task.  `upload_lock` is held
by one `begin_upload`, whose position is `begin` (prune, unlink, scan, reserve,
write); `store_chunk` and `begin_commit_marker` take the lock for their whole
body, so each is one step that needs `begin` to be idle.  `commit_lock` is
`commitLock`.  It is a guard in the *request's* future, while the commit runs in
`spawn_blocking`: `Disconnect` therefore frees the lock and leaves the task
running.

Each action is one durable change, or one read whose answer is used after other
tasks may have run: `begin_upload` reads the sessions one by one (`ScanVisit`),
then the retained bytes (`ReadRetained`), then the receipts; a commit looks up its
receipt, makes its marker, checks the quota, assembles, renames the object, writes
the receipt, unlinks the upload's files one by one in any order and removes the
directory.  Every `?` on a file operation is `CommitIoFailure`, `MarkerIoFailure`
or `BeginIoFailure`; `Finish` is the end of a task, with the drop of
`CommitMarker`.  `Crash` keeps the tree and forgets the tasks.

Time is abstract.  `age` 0 is young, 1 is past `upload_ttl_seconds`, 2 is past
four times that, which is the limit for a directory with `commit.active`.
`GrowOld` makes one assumption the code makes too: a running commit ends within
four times the limit, counted from the last change in its directory.  Without it
the node would prune a directory while it is being assembled.

### Revocations and the code

`write_bytes_atomic` writes `<id>.tmp-<pid>-<sequence>` in the same directory
(`path.with_extension`) and renames it; `file_stems` strips one extension from
every file it finds, so that a temporary file counts as the statement it was to
become.  `leftover` are temporary files whose write failed or whose process was
killed.
`acked` is a history of answered statements.

### LocusSync and the code

A packet is a record of what the checks look at: its stream (sender and branch),
sequence number, predecessor, Cells, and whether it verifies, names this peer and
decodes to the canonical form of a Locus of its branch.  All packets that are ever
made are a table; a fork is two packets with one predecessor.  The network is the
absence of a guard: any packet may be received at any time, again, or never.

`receive_sync_packet` takes `&mut SyncState` and is one step; its checks are
`VerifiesPacket`, `ValidateNext`, `DecryptsLocus`, `DecodesLocus` and
`WitnessesCurrent`, in that order, because a packet refused by the last two has
been decrypted. `install_locus` has one step per file.  `write_atomic` makes a file
appear whole or finds it there, so it is one step as well; the order of chunks
within a Cell, and of Cells, is left open where the code sorts them.

The library leaves `SyncState` and the calls to an application, which is not in
the repository.  The model has the one use that loses nothing: the application
saves the state only when every accepted Locus is installed, repeats a call that
failed, and has the registry saved at once.  `saved` is that state, `unfinished`
what is not installed; `recorded` and `leaked` are histories.

### The page modules and the code

In all of them an action is the code between two awaits (or two events), so that
everything another handler may do while a promise is open can happen there, and a
callback reads the state as it is when the callback runs.

**Publisher.**  A task is one pressed button.  It belongs to a tab; tasks of a tab
share its variables, all share the device (`publisherKey`, `retained`, `stored`,
`listed`) and the node (`published`, `withdrawn`).  Each IndexedDB transaction is
one step, and an update that reads in one and writes in another is two.  A call
may fail before or after the node acted, and its answer may be another call's: a
session or a receipt of another intent of the same artifact, for instance.  The id
that a receipt gives the publication is taken as it is; the node derives it from
the intent, and the model does not tell the two apart.  Bytes are kept in the
origin private file system (browsers without one keep them in the record).
`MayLoadIdentity` is the exclusive Web Lock where there is one and the one promise
per page where there is none; without locks two tabs may therefore make two
identities, and `PublishedUnderKeptKey` is about one tab or locks.

**Viewer.**  `page` holds the globals of `main.ts` that make a construction, each
with the file it came from, so that mixing two files is visible.  `imports` are
the handlers in flight with the await each has reached; `open`, `task`, `previous`
are the local file, its index and what to go back to.  Each kind of file takes the
way of its handler: a cinematic container verifies and loads, a JSON file may turn
out to be a reconstruction or a Locus, a geometry is parsed and indexed.
`dialog` is the publish dialog with the construction it was opened for, whose names
and Cell stand in its form; while it is open the page beneath it is inert
(`Presses`), but imports go on and files may be dropped.  `publishing` is what
`publishActiveObject` took at the click: the file, the Cell `cell` and branch that
`publicationFormMetadata` reads from the page, and the construction `form` that the
form speaks of.  It awaits the receipt (`sending`), which closing the dialog aborts,
and then the device (`keeping`), which nothing aborts.  One publication runs at a
time.  The code lets an owner close the dialog over one that is being kept, open it
again and start another; the first then resets the buttons of the second when it
ends, which is left out.  `keepActiveObject` shares no state with a publication
but the form; its transactions are in `Publisher`.

**World.**  `boundary`, `meaning`, `rootprint` are the nodes whose object of that
name is visible.  They change only where a method assigns `visible`, and nodes
that are not attached keep what they had: the reference world is never rebuilt, so
a flag left behind comes back with it.  `Bounded`, `Meant` and `Rootprints`
translate the loops that assign these flags, with their early returns; each action
makes the calls its method makes, and a return to the reference world switches
evidence on, as `main.ts` does.  The links between nodes are computed anew in every
frame and are left out.  A capture's boundary is built visible even with
evidence off, so that `EvidenceOffHidesEvidence` excepts the boundary of a capture.

**Theater.**  One frame at a time goes through bitmap, spatial adapter and worker,
and an automatic seal, which holds it until it answers; `decision` and `snapshot`
are what its result left, `drawn` the snapshot that was uploaded last.  The metric
scale and the presentation of surfels are left out.  Commit, seal, receive and
reset read `moments` and `evidence` before an await or after, as the code does.  A
digest is modelled by the content it was computed over, so that two digests are
equal when their content is.  `aliased` records that `evidence` is the same array
as that of a received Cell.

**ServiceWorker.**  `caches` maps each release to the paths its cache has a copy
of.  The five fetch rules are actions of their own.  What the network answered is
`inFlight` until it is put into the cache of the worker that asked; the put may
fail, may recreate a cache that was deleted, and comes before the answer, except
where a copy was answered at once.  `Match` looks through all caches, as
`caches.match` does.  A server that is reached answers for every path.

**Verification.**  Of a document that was edited and partly sealed again only the
fields that keep their first value are recorded.  `Determines(d, F)` is a digest
that commits to `F`, `Embeds(f, v)` a field that contains another; a verifier is
the conjunction of those its code checks.  `challenge` is the mutation harness of
the trace drawer.  **Lineage** checks the claimed places first and then lets them
order the one pass that computes canonical places.  Nobody checks that a claim is a
number, and no digest covers it, so a claim has a type: numbers, texts and whatever
else JSON can hold or leave out.  `AtLeast` is JavaScript's `>=` of the check and
`Precedes` the subtraction and tie of the sort, which read one and the same claim
differently: the texts "9" and "10" are compared as texts by one and as numbers by
the other.  A comparison that is no order because some claims are no numbers leaves
the pass in any order (`Consistent`).

**DeviceFiles.**  A transaction is one step.  A transfer holds its own journal in a
local variable but goes by `activeObject` of its tab, which other handlers change.
`replicated` is what reached the (simulated) peer, `mixed` the objects of
transfers whose active object changed; both are histories.

**Provenance.**  Bytes are approved or other.  The server may exchange any file at
any time; the HTTP cache and the service worker may answer for it; the page fetches
and compares, the worker loads by URL, again after each reset.  `steady` is a
history: since the visit began one service worker has answered, and no answer to a
request of another tab or an earlier visit was put over its copies
(`LateAnswer`: `immutableAuthority` looks, asks and puts as three steps).

**OffThread.**  `client` chooses which of the three clients runs.  `pending` is its
map, `inbox` and `outbox` the two message channels, `jobs` the asynchronous work in
the worker.  Messages stay in order; work of several requests does not.  A cancel
goes to the worker that has the request and to no successor.  A worker may fail at
any point; then each client settles, restarts or rejects in its own
way.  A worker's progress is delivered at most once per request, which is enough to
cross a cancellation.  `awaits` counts what a reading on the page still waits for:
where a browser has no workers, or the worker failed, `calculateLocalFileIdentity`
calls back after it has hashed a chunk and looks at the flag only then, so a
cancelled index may hear one thing more (`late`), with which its reading ends; a
promise that still waits then settles late too.  `main.ts` drops what comes for a
file that is no longer open.  A verification without workers is not modelled: it is
the promise of the computation itself (`verification-client.ts:59`).

**PreviewScan.**  `pressed` numbers the presses of the start button, whose camera
requests may be answered in any order; `scan` is the one whose capture began last.
`preview` is the live worker, `solves` the finished scans whose answer is awaited,
`points` the scan whose result is shown.  A finished scan that has a live preview
gets its verdict at once.

**CellBoot.**  `Authority` is the sequence of awaited phases.  Each is raced
against its timer; a phase that lost the race goes on (`late`) and may complete
beside the preview, but what `boot` would have recorded after it is not recorded.
A browser without a camera gets a preview without a start button.

## Runs

| run | instance | shows |
|---|---|---|
| `node_overlap` | one upload in two chunks, right or wrong, two commit tasks, disconnections, every age, one crash | `OneCommitter`: two tasks never assemble an unpublished upload, although `commit_lock` was released; `AssembledChunksFrozen`; `MarkerOwned` |
| `node_ledger` | three uploads of two publishers, two of one content, three bytes, one crash | `Reserved`, `PendingWithinPolicy`, `PublisherBytesWithinPolicy`, `ReceiptWrittenOnce`; `ImplementsLedger`: refinement of `PublicationLedger` |
| `node_faults` | two uploads, wrong chunks, failing files, one crash, expiry, one receipt in all | `ReceiptsBacked`, `ReceiptsWithinPolicy` |
| `node_progress` | two uploads, one never admitted, one crash, every age, fairness | `OrphansRemoved`, `PublishedSessionsReleased` |
| `revocations` | two publications, two requests, one reader, one crash | `AcknowledgedRevocationsKept`, `RevokedNotListed` |
| `locus_sync` | a chain of two beside a packet that is not canonical; a stream with two first packets, of which one expires and has a successor; two calls at once, two Cells that share a chunk, one crash or failed write, two revocation times, fairness | `OneChain`, `ManifestsComplete`, `RevokedReadsNothing`; `ImplementsJournal`: refinement of `PacketJournal`; `UnobstructedArrive` |
| `origin_page` | nine parts of the site, one at a time | twelve invariants, see below |
| `page_tasks` | three parts that have to end, one at a time, fairness | `PreviewIsOfThisScan`; `ImplementsPromises`: refinement of `RequestPromises`; `CancelledFallsSilent`, `RequestsSettle`, `SolveComesToAnEnd`, `BootEnds` |
| `receipt_limit` | disconnections | violation, first finding |
| `receipt_stable` | disconnections | violation, second finding |
| `revoked_once` | two statements for one publication | violation, third finding |
| `publish_consent` | the instance of `origin_page` | `DisclosesWhatWasAuthorized`: violation, fourth finding |

The parts of `origin_page` and `page_tasks` share no variable: a behaviour of all
is one behaviour of each, and their product would say nothing more.  The variable
`part` therefore chooses one, and the others stay in an initial state.  Both runs
allow deadlock, because a page really stops: a bound is used up, a document has
its verdict, a boot has ended.

| invariant of `origin_page` | part and instance |
|---|---|
| `PublishedUnderKeptKey`: what the device published is under the key it kept; `RecordedPublicationIsOfArtifact` | publisher: two tasks, one per tab (with Web Locks) or in any one (without), two artifacts of one chunk, of which the second is only published, answers about either, two keys, two intents, three attempts |
| `PublishesWhatItDescribes`: the file that is taken, or would be, is the one whose Cell and branch go with it, and the one described and verified; `OnlyOpenFileIndexed` | viewer: two overlapping imports of six files, one of each kind, of which four can be sound, beside the publish dialog and its publication |
| `EvidenceOffHidesEvidence` | world: three reference Cells, one disputed and restricted, one of meaning only, one observation, two Moments, the constrained renderer, every load |
| `MomentsFormLineage`, `SealedHereStaysBound` | theater: two frames, two kernels (one reset), two Moments, one record of evidence, one seal at a time, received Cells |
| `CoreIsServed` | service worker: two releases, two CORE paths and one other, a network that comes and goes, one put at a time, which may fail |
| `AcceptedIsBound` | verification: five kinds of document, up to five edited fields, legible or not |
| `ReplayFollowsParents` | lineage: every graph of three branches with up to three parents, claims 0, 1, 2, "9", "10" or none, the root's 0 or 1 |
| `JournalCountsReplicated` | device files: a long and a short file in one tab, or one file ingested by one tab and transferred by two |
| `OnlyApprovedBytesRun` | provenance: two exchanges of any file or late answers of other requests, visits, resets, a service worker that takes over |

### Bounds

Two commit tasks are enough to overlap, and three uploads to have two of one
publisher beside one of another, and two of one content.  Contents of one and two
bytes against a limit of three make every limit reachable from both sides.  One
crash may fall between any two steps and once more changes nothing, because a
crash clears all volatile state; what it leaves on disk is met by later tasks.
`Sent` says whether chunks may be right, wrong or either; `MaxAge` how old a
directory may grow.  A run that leaves one of these out does so because another
run has it: the full product does not finish in minutes.  In `node_ledger` and
`node_faults` requests are not dropped, because the receipt limits and the single
receipt do not hold otherwise: `receipt_limit` and `receipt_stable` show it.

`locus_sync` has the shortest table in which a receiver may go wrong: a fork whose
losing side has a successor, which only a comparison of predecessors refuses.
`MaxU64` is the sequence number of the longest chain.

The page's hazards are of two: two tasks, two imports, two tabs, two releases, two
frames around one reset, two scans around one answer.  Up to five edited fields are
a content together with digests on its way to the root; every choice of that many
is tried.  Three branches make a child, its parent and a third that is before,
between or beside them; the two texts are the shortest whose order differs between
check and sort.  A root whose claim is not 0 is refused whatever it is, so that 1
stands for the others.  `page_tasks` has two requests, two worker failures (the
second may hit the worker that replaced the first) and files of up to two chunks,
so that a callback may come from the last one or from one before it; scans of two
keyframes at least and three at most with a preview every second view and up to
five views, so that keyframes are also replaced; two starts, and one boot.  Every
safety property of the passing runs is also proved without these bounds.

### Fairness

`node_progress` assumes weak fairness of the steps of a running `begin_upload` and
of a running commit (the blocking threads run), weak fairness of *some*
`begin_upload` request (clients go on asking; nothing is assumed of the one that
owns an upload, nor of any chunk or commit request), and strong fairness of time
passing for a directory.  Strong, because the age step is held back while a commit
of that directory runs, and commits may come again and again.

`locus_sync` assumes weak fairness of the reception of each packet (senders
send again what was not acknowledged; a packet that the receiver would accept
stays acceptable until it or a rival is accepted), of the steps of a running or
restarted `install_locus`, and of saving.  `UnobstructedArrive` speaks of chains
without a rival and without an expiring witness, because either stops a stream for
good: a receiver keeps the side of a fork it met first, and an expired witness
makes its packet unacceptable.

In `page_tasks` each part is fair while it runs.  `OffThread`: the event loops of
page and worker take the next message (`Receive`, `Take`), and the work of a
request ends (`Answers`, `Reads(r)`); nothing is assumed of failures, cancellations
or new requests.  `PreviewScan`: each worker answers or its timer fires
(`PreviewAnswers`, `SolveAnswers`); no button is assumed to be pressed and no
camera to answer.  `CellBoot`: timers fire (`BootFails(TRUE)`,
`InstallEmergencyShell`); no phase is assumed to complete or to fail by itself.

## Findings

* `receipt_limit`: after a disconnect two commits overlap, both count the receipts
  before either writes one, and the node ends above `max_publications`.
* `receipt_stable`: after a disconnect a second commit of the same upload passes
  the receipt lookup early, takes the marker once the first has unlinked it, and
  overwrites the receipt with another `accepted_at_unix_us`.
* `revoked_once`: `revoke_publication` checks and renames without a lock, so two
  different statements for one publication are both accepted.
* `publish_consent`: the publish dialog writes down the construction of the moment
  it opens, and its owner authorizes that; `publishActiveObject` takes the file of
  the moment of the click.  The page beneath the dialog takes no presses, but an
  import that was under way still ends, and a file may be dropped: what is uploaded
  is then another construction under the names of the first.

## Proofs

Each theorem rests on the named assumptions of its modules, which TLC evaluates
for every instance.  The invariants were checked with TLC before they were proved.
Sets of tasks, files, packets, cells and nodes are arbitrary (finite where bytes
are summed or a maximum is taken), and so are the bounds.

`WeaveNodeProofs`, for any finite number of uploads and contents, any commit
tasks, any policy `validate_config` accepts, any number of crashes, with or without
failing files, disconnections and age:

* `NodeTypes`: `Spec => []TypeOK`.  Inductive with `BeginInv` (whoever holds
  `upload_lock` works on a real upload; what a directory being pruned still holds
  is on the list to be unlinked) and `TaskInv`.
* `OneCommitterHolds`.  `OneCommitter` is not inductive.  `OwnerInv` adds that the
  owner of an unpublished upload finds its marker in place, that a task unlinks
  files only after the receipt is written, that no marked upload is past the last
  age limit, and that a directory being pruned has no owner without a receipt.
  The last two are needed because pruning takes the marker with the directory: it
  begins only on an unmarked directory, or on one older than a running commit can
  be.
* `AssembledChunksFrozenHolds`, from the same invariant: whoever writes or unlinks
  a chunk has no marker to respect.
* `ReceiptsBackedHolds`.  `BackedInv` follows the content from assembly to receipt;
  the temporary file may only be trusted because `OwnerInv` says that nobody else
  assembles it, and where somebody does the upload has its receipt, and so its
  object, already.
* `MarkerOwnedHolds`, from `MarkerInv`: the task a marker belongs to has passed
  `begin_commit_marker`.

`WeaveLedgerProofs`:

* `ImplementsLedgerHolds`, `ReservedHolds`, `PendingWithinPolicyHolds`.  The three
  readings of `begin_upload` happen one after the other while commits go on.
  `ClaimsInv` says that the sessions it has counted or has still to visit cover the
  open ones, and that what it has read is no less than what is claimed now.  It
  holds because a commit moves bytes from a session to an object and never back, so
  that the sum of claims does not grow under the reader; `SessionInv` (whoever
  assembles an upload without a receipt has its session) makes it a move.
* `ReceiptWrittenOnceHolds`, `ReceiptsWithinPolicyHolds`,
  `PublisherBytesWithinPolicyHolds` assume `~Disconnects`.  `SerialInv`: the task
  under way is the one that holds `commit_lock`, so that what it read of the
  receipts still holds when it writes its own.  The first two findings show that the
  assumption cannot be dropped.
* `ReceiptsNearPolicyHolds` says how much remains without it: for a finite set of
  commit tasks, the receipts of the node and of a publisher, and a publisher's
  bytes, exceed their limits by at most one artifact for every task but one.  The
  tasks that have counted and not yet written are what the invariant adds to the
  receipts.

`RevocationProofs`: a statement is in the directory before it is answered, a
catalog lists the directory before the receipts, and no name ever leaves the
directory.  `FirstStatementWinsUnrivalled` is the other side of the third finding:
as long as no two requests with different statements for one publication overlap,
the first statement answered is the one kept, and no step replaces it.  The code
does not provide this condition; the run `revoked_once` shows what happens without
it.

`LocusSyncProofs`: no accepted packet names the head of its stream as its
predecessor (this makes `OneChain` inductive, also where sequence numbers
saturate); a running installation has put the chunks of the Cells it has passed;
what is accepted and not installed is unfinished; the registry keeps the least
time.  `ImplementsJournalHolds` maps each step of the receiver to one of
`PacketJournal` or to none: the checks of `receive_sync_packet` are made on heads
and on packets seen, and the chain invariant says that the two agree with the one
set of packets of the journal.  Beside it stand
`StreamsAreNumbered` (a stream's packets have the numbers 0 .. n - 1, each once,
until they saturate), `SavedInstalledHolds` and `SavesOnlyAdvance`.

`DeviceProofs`: a nonce is drawn by one task, a receipt's nonce names its artifact,
and identities are made one at a time (`PublishedUnderKeptKeyHolds` needs this
last; `RecordedPublicationIsOfArtifactHolds` does not); a transfer's own count is
of chunks the peer has, whatever the other tabs do.  `RevokesWithItsKeyHolds`: what
the device admitted it admitted with the kept key, and a signed revocation takes
the key that is kept when the button is pressed, so that the two agree for as long
as the kept key is never replaced (`NothingReplacedHolds`).

`PageProofs`: a construction that could be published is the one its globals
describe (`Coherent`), a publication keeps the file and the Cell it took
(`PublicationInv`), and every way to leave a file cancels its index; each method of
the scene brings the flags of the nodes it shows up to date; the cache of the
active release is complete and is not the one being installed, which holds what was
fetched (`CachesComplete`); each digest binds its fields, from the root downwards;
the pass of the replay, where the claims are numbers, has done a branch's parents
before the branch, and as they are at most two the latest of them exists; whatever
the claims are, a parent the pass has not done counts as one at place 0, which can
only move a branch towards the root (`NoFurther`).  `ShowsVerifiedHolds`: an import
past its verification holds a file that passed it, and nothing but such an import
writes what the page shows.  `ReplayIsDetermined` says that, again where the claims
are numbers, the places the replay computes are the only ones the parents allow, by
induction along the claimed places; `OrderedClaimsHaveNoCycle` says that claims in
order that are all numbers, or all texts, leave `detectCycles` nothing to find.
Both take a least counterexample.

`WorldCellProofs`: under one service worker the bytes the page holds are those of
which the worker keeps a copy (`WorkerKeepsHeld`); the Moments copied into a draft
or a received Cell were one lineage then; only received Cells share the page's
evidence.

`PageTaskProofs`: no open entry belongs to a cancelled request, a request the page
reads itself has no entry, and a reading that goes on has told a cancelled caller
nothing yet (`Sound`), so that what comes late comes once and ends the reading;
whatever forgets the views of a scan ends its preview.  `ImplementsPromisesHolds`
maps each step of a client and its worker to one of `RequestPromises` or to none,
because every message on its way is about the request that got its id and ids are
never given twice (`IdsInv`).  `AuthorityIsEarnedHolds`: how many phases were
fulfilled decides what the World Cell page says of itself; phases that complete
late change nothing of it.

Induction over data is done where it goes over concrete sets: a least or a minimal
element of a set of branches or places that break the claim.  What the recursive
functions of the models compute in general is not proved: the library's induction
theorems take an operator as a parameter, which these provers cannot instantiate.

Only model-checked, because liveness is beyond this prover: `OrphansRemoved`,
`PublishedSessionsReleased`, `UnobstructedArrive`, `RequestsSettle`,
`SolveComesToAnEnd`, `BootEnds`.

## Behaviours without a promise

The models do these things because the code does.  No document, test or comment
excludes them, so that they are described here and are not findings.

* Marking and unmarking a record of the Personal Weave read in one transaction and
  write in another: of two at once one is lost (`weave-client.ts:461`).
* After a publication the catalogue entry is attached to whatever construction is
  active by then (`main.ts:2497`).
* A seal that answers after a commit or a reset installs the Cell that was sealed
  before; a received Cell shares its evidence array with the page
  (`world-cell-theater-v26.ts:1047`).
* A transfer of the mobile page during which the active object changes writes the
  acknowledgements of one object into the journal of another
  (`keyxym-mobile.ts:140`); `JournalCountsReplicated` excludes such objects through
  `mixed`.
* A solve of the preview scan that answers after a reset and a new start shows its
  points and stops the new stream.
* A theater that completes after its phase timed out installs itself beside the
  preview.
* The Keyxym files are loaded by URL after they were checked; only a service worker
  that keeps its copy makes the bytes the same, and a late answer to another tab or
  to an earlier visit replaces that copy (`sw.js:83`).  A comment at
  `world-cell-authority-entry.ts:136` calls the artifacts network-only, while
  `sw.js` caches them.
* The Merkle root of a cinematic object sorts its leaves and does not bind the
  order of the media chunks.
* A Rootprint whose claims are the texts "10" and "9", or some of which are missing,
  passes the check of the parents and may still be replayed child first: its replay
  fingerprint then depends on the claims, which no digest covers, and two writers of
  one graph get two fingerprints (`verification.ts:885`, `:893`).
* A statement of revocation whose write was cut short leaves a temporary file, and
  the catalogue counts it as the statement: the publication is no longer listed
  although nobody was told that it is revoked (`lib.rs:1494`).  The next request to
  revoke it still succeeds.
* An index that is cancelled while the page reads the file itself may report its
  progress, or its result, once more (`local-file-identity.ts:64`).
* One wrong chunk blocks an upload until it expires.
* Of two navigations to the Origin with one handoff id the first takes the record;
  the second is told that it expired.

## Not modelled

* **Object Weave node**: routing, CORS, byte ranges and shutdown are I/O;
  signatures, digests and `verify_admitted_artifact` are the predicates `Admitted`
  and right or wrong.  `upload_lock` is taken to be fair.  Clocks enter as ages
  only: a clock that jumps is not modelled.
* **LocusSync**: senders are a table of packets; sizes and their limits, the
  content of witness statements and their independence, and a power loss that keeps
  the name of one file and not of another.
* **Site**: the peer link, the sensors, guidance and everything drawn; the
  catalogue's refresh and export; digest collisions; the storage estimate.  The
  scan solver and the assurance proof of one frame's metrics are numerical
  functions without state between calls.
* **Origin handoff**: one put and one transaction that gets and deletes; what two
  navigations meet is described above.
* **Cell index, anchor graph, witness sets, canonical forms, Power House bridge,
  reconstruction, transport, CLI**: pure functions or batch programs, and byte
  formats.  They have no interleavings; the hazards of the index and the graph are
  listed in `PROJECT.json` with a note.
* Superseded kernels, vendored and generated code, deployment scripts.

## What is left

1. `create_sync_packet` with its own crash in place of the table of packets, and an
   abstract log per sender and branch that the pair implements; `PacketJournal` is
   the receiver's half of it.
2. `CellIndex::compile`, `AnchorGraph::paths` and witness independence as operators
   against reference definitions; these would stay with TLC.
3. The handoff beside the viewer's imports, with its expiry.
