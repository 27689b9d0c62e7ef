# Verification of the Intel Documentation Platform

TLA+ models of the parts of this repository whose correctness depends on order:
the transactional outbox, the life of a document from draft to archive, the
conversion of attachments, the idempotency of retried requests, the admission
control of the assistant, and the server behind live editing. All source paths
below are relative to `backend/app/` unless they start elsewhere.

## The system

| Part | State | Operations | What makes it hard |
|---|---|---|---|
| Transactional outbox (`services/outbox.py`, `repositories/outbox_repository.py`, `jobs/`) | rows of `domain_event_outbox`; each worker's batch and loaded row | enqueue in a unit of work, poll, claim, run handlers, mark, retry, dead letter, requeue | several workers, stale lists, crashes between commits, blind writes of the requeue, two databases |
| Review workflow (`api/management/reviews.py`, `application/commands/review_commands.py`) | `review_requests` rows | submit, approve, reject, cancel | decisions race; the audience must be the one submitted |
| Versions and publication (`services/version*_service.py`, `workers/scheduled_publish_worker.py`) | `versions` rows with their audience snapshots and schedules | create, edit, delete, publish, force publish, schedule, unschedule, scheduled publication, restore an audience | approval and content drift apart; a scheduler process acts on old decisions |
| Document lifecycle and audience (`services/document_service.py`, `services/assignment_reconciler.py`) | `documents` row, `document_company_assignments` | create, update, assign, archive, restore, reconcile | status is derived from reviews and versions by many writers |
| Company administration (`api/management/companies.py`, `admin_ops.py`, `tenants.py`) | `tenants.is_active` | suspend, reactivate, deactivate | changes the audience of documents from outside |
| Conversion jobs (`services/conversion_jobs.py`, `application/process_managers/conversion_workflow.py`, `services/attachment_service/`) | `attachment_conversion_jobs`, `attachment_artifacts` | upload, view, retry, delete, enqueue, claim, recover after a lease timeout, convert, settle, requeue | two tables claimed by two rules, leases that expire under a running conversion, blind writes of late results |
| Idempotency middleware (`middleware/idempotency.py`, `workers/cleanup_worker.py`) | `idempotency_keys` rows | look up, insert, take over, record, replay, purge | a lookup in one transaction, a write in a later one, a takeover racing the first run |
| Assistant capacity (`services/assistant_capacity_service.py`, `api/management/assistant.py`, `assistant/engine.py`, `assistant/rag/embeddings.py`) | counters of two lanes in each process | acquire, queue, time out, release, cancel | nested permits, several at a time in one turn; cancellations between an acquire and the clause that releases |
| Assistant engine and tools (`assistant/`) | none of its own | tools that write documents, reviews and schedules | writes past the domain layer |
| Collaboration server (`collab-server/src/`, `collaboration/`) | connections, tokens, the document in memory, a cache, `documents.yjs_state` | verify, join, leave, sync, edit, load, store, evict, unload, reset | awaits between a check and its use, overlapping stores, tokens that go before the last store |
| Authentication, invitations, support, chat, notifications, projections, cleanup, frontend, command line | – | – | see "Not modelled" |

Requests and worker processes share one database and nothing else; there are
no locks beyond the database's. Requests publish domain events through the
outbox; outbox workers call in-process handlers; the scheduler and the
reconciler write the same rows as requests. `docs/DEPLOYMENT.md:192` scales the
backend to several processes, so two requests overlap at will. The
collaboration server is a process of its own, which reaches the database through
the backend's HTTP endpoints only; it awaits them on one thread, so what it does
between two awaits is one step.

One fact of the code shapes most models: an ORM session writes, at its commit,
the attributes that differ from what it read, by primary key. No table has a
`version_id_col`, and the If-Match token is compared with what was read, in the
same request. Of the writes modelled here only four are conditional: the claims of
an outbox row, of a conversion job and of an artifact (`UPDATE ... WHERE status
...`), and the approval of a review. Beside them stand the unique constraints (an
event key, an idempotency key, an assignment) and foreign keys.

## Modules

| Module | Contents |
|---|---|
| `Delivery` | The abstract promise for one event: accepted, delivered at most once or parked, unparked on request. |
| `Outbox` | The outbox: producers, workers, operators, time, crashes. |
| `Publication` | What authors, reviewers and readers are promised of a document's versions: nothing public unapproved or changed. |
| `ReviewWorkflow` | One document: versions, reviews, audience, publication, archive, with requests that read, compute and commit. |
| `ConversionJobs` | Attachments, their conversion jobs and artifacts: requests, workers, an operator, leases, crashes. |
| `Idempotency` | One key: its row, the clients that send it, late runs, deaths, the purge. |
| `AssistantCapacity` | Two lanes of permits: chat turns, and the embedding calls that each makes. |
| `Collaboration` | One document on the collaboration server: sessions, tokens, memory, cache, stored state. |
| `OutboxProofs`, `ConversionJobsProofs`, `IdempotencyProofs`, `AssistantCapacityProofs`, `CollaborationProofs` | Theorems. |
| `ReviewWorkflowProofs`, `ReviewSerialProofs` | Theorems about the review workflow: for requests that overlap, and for requests that do not. |
| `MC*` and their cfgs | Instances for TLC. |

Operators whose comment begins with "Mutant:" are plausible bugs that the
properties detect; nothing in a specification uses them.

The components meet in the database and nowhere else, and each module keeps the
tables that its own operations write. Where one component writes into another's
tables, that write is an action there: tenants and the assistant's tools in
`ReviewWorkflow`, the backend's state endpoints in `Collaboration`, the version
a converted upload adds in `ReviewWorkflow`.

### Outbox

`rows` is the table; `origin` is the transaction whose payload the row
carries, `rank` its id order, `due` whether `next_attempt_at` has passed.
`workers` holds what a worker process remembers between two of its
transactions: the list of ids that `list_runnable_pending_ids` returned, the row
it holds, and the `attempts` that were loaded after the claim. Each action is
one transaction, or one step between two: `TxCheck`/`TxInsert` (enqueue: look
up the key, then insert; the unique index decides a race), `Poll`, `Claim` or
`Skip`, `HandlersReturn` or `HandlersRaise`, `MarkDispatched`, `MarkRetry`,
`MarkDeadLetter` with its alert, `Crash`, `RequeueRead`/`RequeueWrite` (the
requeue reads under a status filter, then writes by primary key).

`delivered` counts completed passes over an event's handlers. It is set with
`HandlersReturn`, before the mark, because handlers act outside of the worker's
session. A poisoned event (one whose error text says "poison", `jobs/retry.py`) goes to
the dead letter state at its first failure. A commit of the mark that fails
leaves the loop of `run_polling_worker` with an exception, and is a `Crash`.

### ReviewWorkflow

`doc`, `companies`, `versions`, `reviews` are the rows of one document,
`active` the active tenants, and `requests[r]` what request `r` holds between
its read and its commit. A request is two steps: the operation's action reads
the committed rows, checks the code's guards and computes the *dirty*
attributes (`Begin`); `Commit` applies those to whatever the rows hold by
then. The commit fails where the database would: a deleted row, an assignment
added twice, the foreign key of a review on a deleted version, and the
conditional UPDATE of an approval. The approval reads twice
(`ValidateApproval`, `Approve`), as its command handler does.

The aggregates' status rules are `Settled` (active stays active, a published
version makes active, otherwise the target), `CandidateStatus` and
`RestoredStatus`, with the transition table of `domain/states/document_stage.py`
in `Targets`. `Archive` is also what the retention worker does to a document whose
last publication is old (`workers/cleanup_worker.py`, by id, in one commit).

`Publishes(v)` is the publication of a version that existed unpublished. Two
other ways out are set apart by name: the administrator's override (`Forced`),
which by design asks for no approval, and the upload to an active document,
which inserts a version already published.

`schemas/__init__.py:194` lets a creation request carry any status. `CreatedAs`
names the statuses that clients ask for: `draft` in the content run, as the
frontend sends; all of them in the audience and racing runs. Created as
`active`, a document breaks `PublicIffPublished` in the first state; created as
`pending_review` or `approved`, `StatusFollowsReviews`.
The assistant's tool creates a draft without a version; its rejection
(`assistant/tools/review_tools.py:133`) sets the review's status and leaves the
document in `pending_review`. It is in the audience and racing runs; added to
`ConsistentOperations` of the content run, it breaks `StatusFollowsReviews`
within two requests.

`Publication` is the same document without rows, requests and audiences. Of each
version it knows where it stands (`Stage`: not there, a draft, public, deleted),
its text and the last word of the reviewers, and of the document whether readers
see it. `PublicationIsKept` maps the rows to that; what happens to audiences,
schedules and status other than `active` is a stutter. `Overrides` says whether
a version may go out unapproved: only if `force_publish` is among the operations,
as it is in the run; the theorem covers both.

Abstractions: users, permissions and reviewer assignment; open comment threads
that block an approval; soft delete and purge; sections, texts and attachment
snapshots (an edit is a count); public visibility (it behaves as internal);
audit rows and events. A guard that is left out only makes more behaviours
possible; none of the properties relies on one. All reads of one request happen
at one instant, except those of the approval.

### ConversionJobs

`jobs` and `artifacts` are the two tables, `stored` where the attachment row
stands. An upload or a reader view commits the artifact first and enqueues the
job in a transaction of its own: `waiting` counts the requests between the two,
and `RequestDies` is the one that never gets there. (What a view loads and what it
writes of the artifact is one step, `View`.) A worker's batch reads the
overdue jobs (`Poll`), claims one (`Claim`, a conditional UPDATE) and commits
both at once: `Flushed` writes the recovered statuses over whatever the rows
hold by then, for autoflush is off. A run then reads the job again (`Load`),
reads the artifact and returns if an unforced run has nothing to do (`Examine`),
claims the artifact (`Open`), converts (`Generate`), reads the artifact's status
(`LoadStatus`) and settles the job blindly (`Settled`): what it decides comes from
the row it read, and the force flag is cleared only if it was read as set. The
claim is a conditional UPDATE of its own, which knows of no lease and asks only
that the artifact is not processing (`ArtifactClaimable`); whether it has become
readable since it was read is not asked again. `reopened` collects the attachments
to which that has happened.

`LeaseExpires` makes a job overdue at any time while it is processing, whether
its worker is dead or slow. `disturbed` collects the attachments that a reader
view or a forced requeue has reset: only for the others is one conversion at a
time a promise. PDF jobs are enqueued and polled; `ClaimMatches` says why none
is claimed, and so the run of a PDF job is not modelled. Of the database's failures
two are modelled, each the loss of a commit: of a conversion's outcome
(`GenerateErrors`) and of a run's end (`SettleFails`).

### Idempotency

`record` is the row of one key; `id` tells a row from the one inserted after a
purge. A request looks the row up (`Lookup`), then replays, refuses (409),
takes over or inserts according to what it *read*: `TakenOver` sets the columns
that differ from that reading, so taking over a late run leaves the status
alone. The endpoint is `Reach`, `Reject` (a middleware mounted inside answers in its
place) or `Fail`; `Finish` records the outcome by primary key, whoever holds the row
by then. `late` says that five minutes have passed since the start; `Purge` is
the cleanup worker. `ended` and `excused` are ghosts: the outcomes recorded of
each client, and whether anything has happened that the middleware does not
promise to survive. A client that is refused, or that gets a 5xx, sends again.

### AssistantCapacity

`active` and `queued` are the counters of a lane. Each pass of `acquire`'s loop
is one action (`Admit`, `RefuseFull`, `Join`, `TimeOut`): waiting is polling, in
no order. The unit is the request (`Turns` and `Calls`), not the turn: the engine
runs the tool calls of one answer at the same time, and each search asks for an
embedding permit of its own. A turn takes a chat permit, starts its stream
(`Stream`), and while it streams any of its calls may ask (`Embed`). `Disconnect` may
come at any time; when the stream notices (`Notice`) it cancels its producer, and
with it every call of the turn, those that wait (`CancelWait`) and those that
hold a permit (`EmbedDone`). The stream ends with all calls of the turn ended, or
after that cancellation (`Finish`). Two ghosts name what the code leaks:
`abandoned`, the chat permits of clients that went before their response was
iterated (the `finally` that releases is inside the generator), and
`forgotten`, the waits that were cancelled in their sleep (the exception passes
the decrement by), as many as the turn had.

### Collaboration

`registry` and `auth` are the server's two maps of connections and tokens,
`live` the document in memory, `pending` the debounced store, `saves` the states
on their way, `cache` and `stored` what later loads may return, `copy` each
browser's document. `Join` is what follows the awaited verification: the limit is read
and the connection registered without another await. `Leave` unregisters, drops
the tokens, and only then schedules the library's final store. `StoreSent`
caches the state before the backend has answered, `SaveFails` may have stored
it, and answers come in any order. A load that fails is an empty document.

Content is a set of edits that merges. The library's order of calls
(Hocuspocus) and the browser's provider are external: they are modelled by how
the hooks here are called. `TokenAccepted` is a parameter because the code and
its documentation disagree: the state endpoints take access tokens only, and the
server sends collaboration tokens. `FALSE` is the code as it is; `TRUE` is what
the docstrings of `api/management/collaboration/state.py` describe. The passing
run starts from both, so that its properties hold now and after a repair.

## Runs

| Run | Instance | Shows |
|---|---|---|
| `outbox_safety` (pass) | 2 events, 3 transactions (two of one key), 2 workers, 1 operator, 2 attempts, 1 requeue, 1 crash | claims are exclusive; a dispatched row was delivered and stays; attempts stay in budget; rows mirror committed transactions; a requeue follows an alert; the refinement of `Delivery` |
| `outbox_liveness` (pass) | 2 events, 2 workers, batches of one, 1 requeue, no crash | every pending row settles; the fair `Delivery` is implemented |
| `review_content` (pass) | 2 versions, 3 reviews, 1 edit, internal document, all operations but the assistant's rejection, requests do not overlap | one pending review; the status follows reviews and publications; decisions are final; what is approved and published is what was submitted; publications are frozen; the operations implement `Publication` |
| `review_audience` (pass) | 1 company, 2 versions, 1 review, every operation, any status at creation, requests do not overlap | a version goes out to a consistent audience of active companies, and keeps the record of it |
| `review_racing` (pass) | 2 overlapping requests, 2 versions, 2 reviews, any status at creation, audience enforcement off | a reviewed version exists; an approval that takes effect found the review pending |
| `review_decision` (violation) | 2 overlapping requests | a rejection overwrites an approval |
| `conversion_jobs` (pass) | 1 attachment, 2 workers, 2 attempts, 1 reset by a reader or an operator, 1 fault | one conversion at a time; completed means readable, unless a run has claimed on an older reading; only forced runs clear a force flag; every reader job settles |
| `conversion_pdf` (violation) | 1 attachment, 1 worker, no fault | a PDF job stays pending for ever |
| `idempotency_retry` (pass) | 3 clients (two with one payload), 1 fault, 1 purge | one effect; genuine replays; everybody is answered |
| `assistant_turns` (pass) | 3 turns, 4 embedding calls (3 of one turn), 2 chat permits and a queue of one, 1 embedding permit and a queue of two | counters agree with holders, waiters and named leaks, request by request; every turn ends |
| `collab_sessions` (pass) | 3 browsers, a limit of 2, 1 edit, 2 overlapping stores, both values of the token switch, failures and resets | the limit holds; tokens are those of open connections; an edit is stored or its editors are warned |
| `collab_store` (violation) | 1 browser, 1 edit, the endpoints as they are | nothing a writer does is stored |

The properties of the two first review runs are those that the guards
establish for requests one after the other: with `Requests = {r1}` an
operation commits, or rolls back, before the next one reads. The racing run and
the violation show what is left of them under overlap; there the guards of an
ORM write are worth nothing after the read, and only the database's own
conditions count.

**Bounds.** The outbox: two workers and two events are what a conflict over a
row and a stale second entry of a batch need; `MaxAttempts = 2` has a retry and
a give-up; one requeue comes back to a row with a used-up count. Reviews: two
versions have an older and a newer one, and three reviews let a decision on the
second version follow a cancelled one. Conversion: jobs of different attachments
share no row, so one attachment with two workers has every conflict, and the
theorems cover the rest. Idempotency: two senders race, the third has another
payload. One reset keeps the run small; the theorems hold for
any number, with every interleaving of two forced requests. Assistant: three
turns fill two chat permits and the queue; four calls fill the embedding permit
and its queue, and one is refused; a turn of three calls can lose two waits at
once, and two streaming turns compete for one permit.
Collaboration: three browsers overlap on a limit of two; one edit suffices,
since stores of different edits only add to each other, and two stores have an
older and a newer answer. `MaxVersions`, `MaxReviews`, `MaxEdits`,
`MaxAudience`, `MaxRequeues`, `MaxCrashes`, `MaxResets`, `MaxFaults`,
`MaxPurges`, `Calls`, `MaxSaves` and `Edits` are bounds of the models,
not of the code; `MaxConnections`, `MaxConcurrent`, `MaxQueue` and
`MaxAttempts` are limits of the code with smaller values. Deadlock is not checked where
counters are used up or everything is settled: there the system may stop.

**Fairness.** In every case what is assumed is a loop or a timer of the code, and
no outcome of a handler, a conversion or a request is favoured.

- `Outbox`: weak fairness of each worker's steps and of the passing of time.
  `run_polling_worker` (`jobs/runtime.py:40-76`) polls again after every batch,
  handlers end by returning or raising, a due time passes. Nothing is assumed of
  producers and operators.
- `ConversionJobs`: weak fairness of the worker's loop, of a request that
  enqueues and of leases that run out. Strong fairness of the claim of a job,
  which is pending again and again while a stale batch takes it back: the query
  takes the oldest job that is due, and a retry waits for its delay. Strong
  fairness of reading a result: a run reads the status in the statement after
  its conversion, and does not always lose the race against another worker that
  opens the same artifact.
- `Idempotency`: a client repeats its request and a request that is served goes
  on; the five minutes pass. Not that a run succeeds.
- `AssistantCapacity`: the event loop runs each task, embedding calls and
  answers end. Not that a queue is ordered: `EveryTurnEnds` relies on the timeout.
- `Collaboration`: the debounce timer fires and each request ends within its
  timeout, whatever the clients do.
- The review workflow has no liveness property: nobody must ever decide a review.

## Proofs

All proofs are for arbitrary values of the constants: any finite set of events,
workers, clients, requests, companies, turns or attachments, any limit, any bound.

**`OutboxProofs`**

- `TypeCorrect`: `Spec => []TypeOK`.
- `OutboxIsTransactional`: `Spec => [](TransactionalOutbox /\ RowsStay)`, from
  `ProducerInv`; `RowsStay` says that what a process remembers of the table exists.
- `ClaimIsExclusive`, for at most one operator (`OneOperator`): the inductive
  invariant `ExclusionInv` adds to `ClaimExclusive` that holding a row goes with the
  phase of the worker (`HeldPhase`), that a row in the dead letter state was announced,
  and that an operator holds only such a row. Without the last part a requeue
  could put a row back while a worker runs it.
- `RequeuesAreAnnounced` and `BooksAreKept` (the invariant `Bookkeeping`, which the
  safety run checks), from the same invariant.
- `DispatchedIsDelivered`: from `DeliveryKnown`, the pairing of `delivered` with
  the row or with the worker that has yet to mark it.
- `OutboxImplementsDelivery`: `Spec => Promise!Spec`. The event is `done` from
  the moment its handlers complete; every later step of the worker is a stutter.
- `DispatchedStays`: `Spec => DispatchedIsFinal`.
- `AttemptsAreBounded`: from `AttemptsLeft`, a pending row has an attempt left
  and a worker decides on the row's own count.

`OneOperator` is a real restriction: `requeue_dead_letter_outbox_entry` writes
by primary key, and with two operators the second write can land on a row that a
worker has since claimed or dispatched.

**`ConversionJobsProofs`**

- `TypeCorrect`, with `Held`: a worker past its claim holds an attachment.
- `LeasesNeverDuplicate` and `CompletedIsReadable`, from `ReaderInv`. Its parts:
  jobs and runs belong to uploaded attachments (`Uploaded`, which is why a new
  upload finds no old run); no run of an undisturbed attachment is forced
  (`Unforced`); a running conversion has its artifact marked processing
  (`Marked`, so that a second claim fails however late the first run is); a
  success that was read still holds when it is written (`ResultHolds`, because
  an unforced claim of a readable artifact puts the attachment into `reopened`).
  `CompletedIsReadable` leaves those attachments out, and must: there the artifact
  of a completed job is converted anew, and may fail. Steps that
  leave the artifacts alone share one argument (`QuietStep`): every worker fits
  the tables, and every job agrees with them.
- `ForceClearedByForcedRuns`: an action property, one case per write of the job
  table. It is about the flag, not about the run that the flag asks for.

**`IdempotencyProofs`**

- `TypeCorrect`.
- `ReplaysAreGenuine`, from `GenuineInv`: a response in the row, or in what a
  request has read of it, is that of a recorded run with the hash beside it; the
  hash goes with the row's id, so that a run that writes late writes to the row
  of its own payload or to none.
- `EffectsAreAtMostOne`, from `CalmInv`: as long as nothing is excused, the row
  is processing exactly when one client runs, and nobody who read an earlier row
  can take over.

**`AssistantCapacityProofs`**: `TypeCorrect`, and `SlotsAreAccounted` from
`AccountsInv`, which adds `Orderly` (who waits is in the loop of a lane). Every
action moves one request between the sets that the counters measure; `Accounted`
says what the counters must do for that, `AccountsKept` that it is enough, and
`AccountsStep` that each action does it. The calls of one turn are requests like any
other, so their number at a time is not bounded.

**`CollaborationProofs`**: `TypeCorrect`; `CapacityIsHeld` (the check and the
registration are one step, however many verifications overlap); `TokensFollow`.

**`ReviewWorkflowProofs`**: any number of overlapping requests, every operation,
any status at creation. A commit writes by primary key what was computed from rows
that may have changed since, so the inductive invariant `WorkInv` is about what
is still to be written: `TypeOK`, the number of a version never exceeds its
place (`Numbered`: without it a commit could push a number past its bound), and
`RequestsFit`: every write in flight turns *any* row of the right kind into such
a row, leaves a review the version, audience and content it has, and makes a review
approved only if it is the one that an approval has in its hands.

- `TypeCorrect`: `Spec => []TypeOK`.
- `ReviewedVersionsStay`: the foreign key, checked at each commit, decides
  between a submission and a deletion.
- `ApprovalsTakePending`: no write in flight but an approval's own says
  `approved`, and that one is conditional.

**`ReviewSerialProofs`**: requests that do not overlap (`OneAtATime`, the
hypothesis of every theorem here, and what the runs have with `Requests = {r1}`).
The restriction is real: `review_decision` shows a decision overwritten by an
overlapping one, and the hazards name a second submission, a newer version during
an approval and a schedule cancelled during its publication. The inductive invariant
`SerialInv` adds to `WorkInv`:

- `InFlight`: what a request is about to write was computed from the rows that
  are there, by the rule of its operation. `Lawful` gathers these rules in eight
  kinds (edits, releases, additions, dismissals, ...) with what each may write, and
  `CommitStores` says that a commit alone stores exactly that. Every later step is
  then a step of `Lawful` (`AloneStep`).
- `ReviewRows`: a pending review is the newest one (`PendingIsLast`), and as
  long as the last review of a version is pending or approved, the version has
  the content that was submitted (`Unedited`).

The theorems: `OnePending`, `DecisionsStand`, `ApprovedUnedited`,
`PublishedUnedited` and `PublishedFrozen` from `SerialInv`; `PublishedAddressed`
where audiences are enforced (`EnforceAudience`; without, the code does not
look); `PublicDocument` if no document is created `active`, from `Public`;
`StatusJudged` if none is created `pending_review` or `approved` and the
assistant does not reject, from `Judged`, which names the last review. These
conditions are those under which the code does what the properties say: each of
them, dropped, has a counterexample of a few steps. `OperationsKeepPromise` is the
refinement `Spec => Promise!Spec`: one step of `Publication`, or a stutter, for
each kind of commit, with or without the override.

Only model-checked: liveness, that is `Settles`, `DeliveredOrParked`,
`JobsSettle`, `EveryClientAnswered`, `EveryTurnEnds`, `EditsSettle` (temporal
reasoning under fairness is out of the prover's reach). Every other property of
a passing run is a theorem. No module declares a recursive operator.

## Disagreements between code and documentation

The three violation runs; `PROJECT.json` quotes the lines on both sides.

- `review_decision`: the check that a review is pending is made on a row that
  the rejection's commit no longer looks at.
- `conversion_pdf`: the claim of a PDF job compares its type with the default
  argument, `reader_html`, and matches nothing.
- `collab_store`: the collaboration server's tokens are of a type that the state
  endpoints refuse.

Known consequences of the models that no run asks for, since no document says
otherwise or the deployment decides:

- A worker that dies between the claim and the mark leaves its outbox row in
  processing; nothing takes it up again (`Settles` fails with `MaxCrashes = 1`).
- With an analytics database of its own the workers poll a table that producers
  do not write (`SharedDatabase = FALSE`).
- A schedule cancelled while the scheduler publishes takes the audience snapshot
  of the published version with it.
- Restoring an audience or a document, and deactivating a company, change the
  audience without counting `audience_version`, which the approval compares.
- A decision on a review that was open when its document was archived brings a
  document with a published version back online.
- An upload to an active document adds a version that is published at once.
- A scheduled version whose check keeps failing is tried at every tick, and only
  the log tells.
- An artifact that a crash leaves processing is claimed by forced runs only, and
  its job probes it until then (the exception in `JobsSettle`).
- A worker that has read an artifact as pending and stalls past its lease claims it
  after another worker has converted it and completed the job: the test "ready, with
  text" is made on the row that was loaded (`reader_view.py:305`), the claim asks only
  that it is not processing (314-320; its comment speaks of preventing such races).
  The job stays completed while the artifact is processing, and if this conversion
  fails, failed. `CompletedMeansReadable` without `reopened` has this counterexample.
- A forced retry can be swallowed: an older unforced run that ends after the request
  writes completed over the pending job that was forced meanwhile. The flag stays
  and the run it asks for does not take place. Of two
  forced requests, the run for the first may clear the flag of the second.
- A 429 or 403 from a middleware inside the idempotency layer is recorded and
  replayed (`Reject`).
- The last editor's departure drops the tokens before the final store, which is
  then refused with nobody left to warn.

## Not modelled

- Authentication and sessions, rate limits: outside of the document workflow, and
  their properties are of another kind.
- Invitations, support, chat: record keeping with short status fields.
- Notifications, projections, search, event store: derived from the write path.
- Company administration beyond what reaches a document; the assistant's engine
  beyond the tools that write workflow tables.
- Extractors, converters, storage, malware scans: functions of a file's bytes.
  The extractors (`conversion/`) are the largest files of the backend, and are
  abstracted to a conversion that succeeds or fails.
- The collaboration server's limit over all documents and the messages between
  several instances (an eviction is all that is left of them); merging belongs to Yjs.
- What outbox handlers do. A pass that fails after some handlers counts as
  failed (today each event has one handler). Mail handlers return once a detached
  thread has the mail (`utils/async_tasks.py:18`): delivery ends there for the outbox.
- Frontend and command line: clients of the HTTP interface, except the
  collaboration provider's copy of a document.

Most of the repository's lines are of these kinds. What the models leave out of
the files they do translate is said with each component in `PROJECT.json`.

## Plan

1. The safety core of the liveness properties: that a step which is needed is
   possible (a pending row is due or has a time, a job in processing has a worker or
   an overdue lease), as invariants with proofs.
2. Abstract specifications of idempotency and of the conversion of one attachment,
   implemented by `Idempotency` and `ConversionJobs`.
3. Several instances of the collaboration server: their shared limit and the
   invalidation messages.
