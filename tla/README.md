# Verification of the agentic content analyzer

The program ingests content from many sources, summarizes it with language
models and builds digests, podcasts and reports.  All of that work runs as
*operations* in a queue kept in PostgreSQL, and what makes it run reliably
(claims, fences, leases, sweeps, retries, outboxes) is this repository's own
code.  This directory models that code in TLA+, checks the models with TLC and
proves the results that matter most with TLAPS.

Paths below are relative to the package directory `src/` of the repository,
which `PROJECT.json` calls `src/src/`.

    tlc -workers 2 -config queue_zombies.cfg MCOperationQueue.tla
    tlapm OperationQueueProofs.tla

## 1. Inventory

### The system's parts and the state they keep

| Component | State | Operations | Correct when |
|---|---|---|---|
| Operation queue (`queue/worker.py`, `queue/setup.py`, `services/operation_service.py`) | `pgqueuer_jobs`: status, claim generation, heartbeat, cancel request, idempotency key | submit, claim, checkpoint, heartbeat, defer, cancel, retry, finalize, sweep | one attempt per generation; outcomes final, on record and true; every claim ends |
| Attempt evidence (`repositories/operation_observation_attempts.py`) | one row per job and generation | start, complete, note a stale claim | says of an attempt what happened to it and of no other |
| Terminal events (`services/workflow_terminal_event_service.py`, trigger in `queue/setup.py`) | outbox row per job, generation and status | capture, snapshot, classify, defer a child, close before a retry | nothing terminal is missed, nothing is classified by a later attempt |
| Alert delivery (`services/workflow_alert_delivery.py`, maintenance tick of the worker) | delivery rows with lease, attempts, next attempt | ensure, claim, post, record, exhaust, clean up | one writer at a time, one key per alert, every alert settles |
| Content ownership (`queue/execution_claim.py`, `processors/summarizer.py`, `services/url_extractor.py`) | `contents.status` and the owner columns, summaries | acquire, guard, commit output, fail, resume, forced preparation | output and release are one step; completed content keeps a summary; competitors do not work on one row |
| Content reconciliation (`services/content_reconciliation_service.py`) | scanned evidence in memory | scan, apply, skip | a repair never disturbs a live owner |
| Environment ownership (`services/environment_ownership.py`) | ownership epoch | fence a transaction | a worker that lost the epoch writes nothing |
| Pipeline workflow (`workflows/pipeline.py`, `pipeline/runner.py`) | checkpoint in the run's row, child rows | plan, submit children, wait, fail, resume, complete, repair | no stage is started twice, the checkpoint is never set back, a completed run has its digest, every run ends |
| Summarization batches (`workflows/summarization.py`, `queue/setup.py`) | parent row, item rows, aggregates in memory | submit, dispatch, defer, reconcile the parent, resume, complete | a batch ends, and only when its items have |
| Cleanup of operation graphs (`queue/setup.py`) | graphs of parents and children | `cleanup_old_jobs` | no live row is removed, no orphan is left |
| Batch inference (`services/batch/`) | request rows, job rows, the provider's batches, an advisory lock | enqueue, claim, submit, poll, recover, fall back | a result is written once, calls are bounded, every request is answered or fails |
| Agent scheduler (`agents/scheduler/`) | last runs and active tasks in memory | due, enqueue, finish | a due schedule runs once |
| Storage governance, API rate limiters, Obsidian ingestion | see `PROJECT.json` | | planned |

`PROJECT.json` lists the remaining components (adapters, processors, search,
delivery, storage providers, tools) with the reason each is not modelled:
mostly sequential conversion or I/O with no protocol between actors.

### How they interact

* The worker claims a row (`FOR UPDATE SKIP LOCKED`), increments its
  generation, and runs the job as a *sequence of separate transactions*.
  Every write of an attempt carries `status = 'in_progress' AND
  claim_generation = ...`.
* A handler acquires the content it works on in the same tables; each of its
  content transactions locks and revalidates the job row first.
* A database trigger on the queue's rows writes the terminal event in the
  transaction that ends a job, whoever ended it.  An elected tick classifies
  pending events by reading the job, its children and its evidence, later.
* A pipeline and a summarization run submit child operations, store a
  checkpoint that names them and put themselves back into the queue; the
  children end on their own, and a retry of the parent may queue them again.
* Callers leave inference requests in a table; one elected worker at a time
  submits them to a provider, polls it and redoes what it did not answer.
* A ready event gets a delivery; workers lease deliveries, post them outside
  any transaction and record the result under the lease.
* Clients and operators call cancel, retry and reconcile at any time.

### What is hard here

Attempts that outlive their claim; a sweep that takes slow for dead; retries
that reset rows other records describe; repairs based on a scan made in an
earlier transaction; results that come after a lease was recovered; posts
accepted without the poster learning of it; batches accepted whose handle is
lost; aggregates computed by one statement and written by another; age,
attempts and backoff meeting at the end of a delivery's life.  Each is a hazard of `PROJECT.json`, at its
line, with the properties that watch it, or a note on why none does yet.

## 2. Plan

Built: `OperationQueue` with its abstract specification `OperationLifecycle`,
`ContentExecution`, `AlertDelivery`, `PipelineRun`, `OperationGraph`,
`BatchInference`, and for each of them a module of proofs (two for the queue).

What is left to model, in this order:

1. `TerminalRouting`: `_apply_pipeline_routing`, the pipeline's alert, the
   limits of the child cohort; composed with the outbox of `OperationQueue`.
2. `AgentScheduler`, `StorageGovernance`, `RateLimiter`, `ObsidianIngest`, and
   the pure functions (outcome projection, retry schedules) against reference
   definitions.
3. `ContentLease`, an abstract specification of ownership that
   `ContentExecution` implements.

To prove more: every invariant and action property of the passing runs, and the
refinement, is a theorem (section 6), `NoItemIsForgotten` as it is checked,
without stalled attempts.  What is left is an exact statement for stalled
attempts: which batches may be completed early, and by whom.  `ContentLease`
would add a second refinement.

No module that theorems are about, or that it uses, has RECURSIVE operators.

## 3. The modules

### OperationQueue

State: one entry per job for the row (`status`, `gen`, `cancelReq`, `fresh`),
one per worker slot (`task`: where in `_process_job` it is, which job and
generation it claimed, which outcome it heads for), the attempt evidence, the
outbox, the classifier's work in hand, and three history variables that stand
for effects outside these tables: `commits` (domain writes), `notices`
(announcements), `staleNoted`.

One action is one database transaction.  `Submit`, `Cancel`, `Retry` and
`LegacyRetry` are the API's; `Claim` is `claim_job`; a slot then goes through
`RejectMalformed` or `CheckpointBeforeHandler`, `OwnershipGuard`,
`TouchBeforeHandler`, `StartEvidence`, any number of `DomainCommit` and
`CheckpointInHandler` steps, `Defer`, `HandlerReturns` or `HandlerRaises`,
`Finalize`, `DropSuperseded` and `Notify`.  `Heartbeat` runs beside the
handler.  `Crash` ends a slot anywhere.  `GoStale` is time passing the stale
threshold, `Sweep` is `reconcile_stale_claims`.  `PickEvent`, `ReadSnapshot`
and `StoreReview` are the classifier: it chooses an event, reads the job later
and stores its verdict later still, unless the event was closed meanwhile
(`ClosedBeforeRetry`, part of `Retry` but not of `LegacyRetry`).

Abstractions.  Payloads, progress, `retry_count` and protocol versions are left
out.  `classified` is the stored status ready or telemetry-only; `rejected`
is what the classifier stores when the snapshot contradicts the event.
Whether a child waits for its pipeline follows from the pipeline's row.  A
handler is assumed to return or raise; what it computes is left out, and only
whether it commits under its claim is kept.  With `Zombies` a slot that is
alive may still miss heartbeats for as long as it takes to be swept.
`Authority` is the set of answers the environment fence may give, per
transaction.  That one row of a key is active is the database's partial unique
index, which the model takes as given (`KeyFree`).
`Workloads` names the sets of jobs one behaviour may submit
together, so that one run covers a pipeline with its child and, apart from it,
two submissions of one key.

`OperationLifecycle` says what a submitter is promised, with no slots,
heartbeats or evidence: claims only grow, work asked to stop never completes,
work ends once per claim with its outcome on record, is requeued only after it
failed or was cancelled, and touches domain data only while its claim is
current.  `OperationQueue` implements it under the mapping in `Lifecycle`
(outcomes are what the outbox holds).

### ContentExecution

State: content rows with status and owner, summaries with the attempt that
made them, the job rows, and for every job and generation the stage its thread
is in.  What a session has loaded and writes through later is state as well:
`found` for a forced preparation, with the summaries it has deleted and not yet
committed, and `direct` for the call without a claim on each row.  One thread per generation is what `OperationQueue` establishes
(`OneHolderPerGeneration`), so the claim protocol is not repeated here; the
thread may stall at any stage, for ever or until long after it lost its claim,
which is why a crash needs no action of its own.

`Acquire` is `acquire_content_execution`, `CommitOutput` and `CommitFailure`
the guarded transactions of the parsers and the summarizer, `ResolveOwned` the
resumption of an ingestion whose row already exists.  The preparation of a
forced summarization checks neither claim nor content lock, so its transaction
is modelled statement by statement: `PrepareRead` is the unlocked read,
`PrepareDelete` the deletion of the summaries committed by then, which waits
for another preparation's row locks, and `PrepareReset` the flush and commit.
Callers without a claim go through `DirectRead`, `DirectLook`, `DirectNote` or
`DirectStart`, `DirectReread` and `DirectEnd` in the same way.  Both write with
`UnownedWrite`: the ORM updates only what differs from the row as it was
loaded, so assigning the status the row had then writes nothing, whatever it
has become.  `OwnerLeft` is the owner after such a write: none if the status
changes (the database trigger) or if the session saw the owner and emptied it.
`Scan` records the evidence `_same_evidence` compares; `Apply` is `_apply_one`;
`Skip` stands for a contended lock, changed evidence or a rolled-back repair.

A variable `workload`, chosen at the start, says what a behaviour is about:
the operations submitted, which are forced, which a client may cancel
(`stopped`), the phases callers without a claim work on (`direct`), and the
reconciliation requests made (`runs`).

Abstractions.  The owner's version number changes with every owner write, so
comparing the owner is comparing the version.  `heartbeat_at` is fresh or not;
a scan cannot confuse two heartbeats, as their timestamps differ.  A row has at
most one call without a claim at a time.  `Decision` leaves out the refusal of
jobs of another protocol version, so the model repairs more than the code.

### AlertDelivery

State: one delivery per event, the claims workers hold in memory between the
committed lease and the result, and what the receiver accepted.  Times are
kept relative to now and count down, a claim in step with its row, so that the
state space is finite while time never stops; equal, positive remainders are
equal lease timestamps.  Ages are capped where no condition depends on them.
Which events do not parse (`corrupt`) is chosen at the start.

`Ensure`, `Drain` (`claim_due_deliveries`), `Post`, `Record`
(`mark_delivery_succeeded`, `record_delivery_failure`), `Abandon` (a worker
that dies, stops, or whose result write raises), `Cleanup`, `Tick`.

Abstractions.  Workers' clocks agree.  A batch is any set of due rows of the
right size, where the code takes the oldest; a batch the database would refuse
is a step that cannot be taken.  Cleanup takes events one at a time.  What the
receiver answers and whether it accepted are chosen freely, except that a
success is an acceptance and a refusal is not.  `cleanup_terminal_deliveries`
is called nowhere in the program and not modelled; retention of events that
never had a delivery is left out.

### PipelineRun

State: the run's row (`status`, `gen`, `asked`, `resource`, `stored`: its
checkpoint), the rows of each child key (`child`), and for each slot where it
is in `PipelineWorkflow.execute`, with its own copy of the checkpoint and the
statuses it has read.  `stalled` is history: some attempt outlived its claim.

`Begin` is the cancellation checkpoint of `dispatch`, `Load` reads the
checkpoint, `Start` stores the plan.  A child is submitted by `Lookup`,
`Insert` and `Locate`, the statements of `submit_child`, and `Record` stores
its id, deferring the run after the summary and the digest.  `ReadSource` reads
one source at a time, `Judge` waits, fails or goes on; `ReadSummary`,
`Resolve`, `ReadDigest` and `Repair` follow the code.  `Raise` is an error
anywhere, including the failure that follows a stored one, and `Complete` the
end of the row.  `Attach` and `Defer` are fenced, submissions are not.

Abstractions.  Children end on their own in one of the ways `Ends` allows; that
a child waits in the queue, is claimed or is swept is `OperationQueue`'s
matter.  Of results only whether a source brought in something, and all of it,
is kept.  After `Defer` an attempt has only refused writes left and leaves.  A
generation nobody remembers is used again (`IsNewGen`), since generations are
only compared for equality; a claim waits when `MaxGen` leaves none.  Slots are alike, so one of the idle ones is picked to claim.
Two rows of one key are possible only if two attempts have looked before
either inserted, so there are as many rows as slots.

### OperationGraph

State: the rows of batches and items with their generations, which runs have a
checkpoint, a stored result or lowered priority, which rows are past their
retention, where each slot's handler is, the status read a client has under
way, and the roots the retention cycle has chosen.  `ended` is history: items
that have ended since their batch asked for them.

`SubmitBatch` is the legacy endpoint, `SubmitRun` the canonical one.  An item's
handler is `Summarize`, then the three statements that bring the parent up to
date (`Count`, `CountOwn`, `Write`), then `Complete`; a client's status read
computes the same aggregate (`Read`, `WriteRead`).  A canonical run goes
through `Load`, `Dispatch` and `Lookup` per item or `Check` per item, then
`Defer` or `Attach`.  `Select` and `RemoveEligible` are the two halves of
`cleanup_old_jobs`.  `Sweep` fails a row whose slot is gone, and a legacy batch
at any time, as nothing but its items' aggregates writes its heartbeat.

Abstractions.  Progress and counts of a batch are reduced to how many items are
missing.  An item has one row at a time: a new dispatch of an ended item reuses
its identity, as a removed row's is reused.

### BatchInference

State: the request and job rows of one step and model, the batches the
provider runs, the holder of the advisory lock, and for each maintainer where
its cycle is and which rows, jobs and attempt counts its session has loaded.
`applied` and `calls` are history: results written and chargeable calls made.

`Enqueue` is the collector.  A cycle is `Elect`, `Recover`, `Claim` or `Hold`,
`Send` (the provider may have accepted what the caller thinks has failed),
`StoreHandle` or `StoreFailure`, `Ask` with `AskAgain`, `Reconcile` or
`GiveUpBatch`, then `SelectFallbacks`, and for each row `Exhaust`, or `Attempt`
and `Redone`, then `Finish`.  `Die` ends a cycle anywhere, `PassGrace` is the
submission grace, `ProviderEnds` the provider.

Abstractions.  What a request asks and what the answer says are left out.
Times are two events: a group comes of age, a submission's grace passes.  The
lock's connection is taken to live as long as its holder.

## 4. The runs

Every run finishes within a few minutes on two cores.

| Run | Instance | States | Shows |
|---|---|---|---|
| `queue_zombies` | 1 job, 2 slots, 2 claims, 1 crash, stalls, fence | 52 000 | attempts of different generations overlap: `OneHolderPerGeneration`, `ReportsAreTrue`, `NoEffectAfterOutcome`, `ImplementsLifecycle`, and that every claim ends |
| `queue_retries` | parent and child, or 2 jobs of one key, one malformed, one retried by the legacy endpoint; 1 slot, 2 claims each | 2.7 million | `PendingEventsAreCurrent`, `CompletedIsFinal`, `OutcomesAreCaptured` |
| `queue_events_reviewed` | parent and child, 1 claim each, a crash | 11 000 | `EveryEventIsReviewed` |
| `queue_legacy_retry` | 1 job of the legacy endpoint | violation | see Findings |
| `content_ownership` | 2 summaries of one row; parse then process; a forced summary alone, beside another and beside an unclaimed writer; an ingestion beside unclaimed writers; reconciliations | 1.39 million | `OneSummaryPerContent`, `OutputEndsOwnership`, `CompletedHasOutput`, `OwnerMatchesStatus`, `RetriesFollowClaims`, `ActiveOwnerIsUndisturbed`, `ReturnedContentIsFree` |
| `content_swept` | 1 summary | violation | see Findings |
| `alerts_delivery` | 2 alerts, of which one may not parse, 2 workers | 106 000 | leases, uniqueness, punctual retries, and that every alert settles |
| `alerts_aged` | 1 alert, 1 worker | violation | see Findings |
| `pipeline_runs` | 2 sources, summary, digest; 2 slots, 1 retry or cancellation, 1 death or stall, errors anywhere | 491 000 | `EachStageOnce`, `CheckpointKeepsChildren`, `DigestFollowsSummary`, `CompletionIsConsistent`, `EveryRunEnds` |
| `graph_batches` | 1 batch of 2 items, 2 slots, 1 reader, 1 retry or death, sweep and retention without bound | 625 000 | `ItemsHaveBatches`, `NoItemIsForgotten`, `OnlyEndedGraphsAreRemoved`, `EveryBatchEnds` |
| `graph_unwatched` | 1 batch of 2 items, no reader | violation | see Findings |
| `batch_requests` | 2 requests, 2 maintainers, 2 jobs, batches of 2, 2 attempts, 2 deaths | 89 000 | `NothingIsStranded`, `AppliedOnce`, `CallsAreBounded`, `EveryRequestEnds` |

Bounds, and why they suffice.  `MaxClaims` bounds generations: two let an old
attempt meet its successor.  The fences compare an attempt's generation with
the row's and nothing else, so a third old attempt behaves like the second.
`queue_events_reviewed` allows one claim, because its question is about the
wait of a child and not about retries, which `queue_retries` covers.
`MaxCrashes` is at most one in the queue: a crash is a stall that never ends,
and `Zombies` allows those without bound.  Two slots or two reconciliations are
enough for a conflict over one row, as every transaction locks the row it
writes.  Of the workloads of `content_ownership`, those of two kinds of work have one reconciliation
each, one of two alike summarizations may be cancelled, and a forced summary
beside another writer is not: a
cancellation only ends what a stall may end as well, and a forced summary alone
has both cancellations and two reconciliations.  `MaxKeys` would let an event get a second delivery; none ever does.
Policies of one to three ticks put the expiry of a lease, the retry and the
age ceiling before, at and after each other.

`pipeline_runs` has the smallest plan in which some sources end well and others
badly.  One fault and one request let an attempt be retried after it died or
while it is stalled, at every step of both.  `Ends` lets each child end in
several ways and each way be taken by some child; the code treats the sources
alike.  `MaxGen` never makes a claim wait in these instances: with two slots a
row and its attempts know at most three generations.  `graph_batches` has no bound on
submissions, claims, sweeps and retention, as removed rows and forgotten
generations are reused; two items are needed for two aggregates to cross.
`batch_requests` reuses rows and jobs in the same way; two deaths let recovery
itself be interrupted, and two attempts let the count be lost or not.

Deadlock is not checked for the queue, content, pipelines, graphs and batches:
when all work has ended, or its bounds are used up, nothing is left to do, and
nobody has to submit more.  It is checked for alerts, where time always passes.

Fairness.  In `FairSpec` of the queue a live slot takes its next step (its
event loop runs, and handlers return or raise), some free slot claims when a
job is queued (the polling loop), time passes and the sweep runs at its
interval, and the elected tick gets to each pending event: strong fairness,
because the tick looks at one event at a time and takes the oldest first.
Clients, crashes and stalls are under no obligation.  `FairSpec` of the alerts
asks that time passes, that each worker's tick keeps running and that a post
ends, which the transport's timeout ensures.  A worker may die each time;
`EveryAlertSettles` holds all the same since attempts are counted when they
are claimed.  It has a premise, `Punctual`: no alert reaches its age ceiling
before its first claim.  Without it the property is false; `alerts_aged` shows
how.

A pipeline run needs only that the workers do something while there is
something to do, and that of the active children one ends: no slot and no child
is promised a turn.  For graphs live slots go on, one claims, rows whose slot
died are swept, and a legacy batch is watched by its client, without which
`EveryBatchEnds` is false (`graph_unwatched`).  For batch inference some
maintainer keeps running cycles, since every worker process runs the tick and a
lock is released with its connection; the provider ends its batches; and, as
strong fairness, a provider that is asked again and again once accepts a
submission and once answers a poll, and a held group comes of age.

## 5. Findings

* **Legacy retry leaves its event behind** (`queue_legacy_retry`).
  `POST /jobs/{id}/retry` requeues a failed row without closing the event of
  its failure; the classifier then finds a row that contradicts the event and
  rejects it, so no telemetry is emitted for that outcome.
* **A swept claim cannot be resumed** (`content_swept`).  The sweep fails the
  operation and leaves its content in processing.  Only failed content may be
  renewed by the next generation, so a retried summarization never acquires
  its own row again, and reconciliation reports `ownership_conflict` for it.
* **A delivery too old for its first claim blocks the drain** (`alerts_aged`).
  It is set to exhausted with an attempt count of zero, which the table's CHECK
  constraint forbids; the batch rolls back and the next tick meets it again.
* **A batch nobody watches is not completed** (`graph_unwatched`).  When the
  last two items of a legacy batch finish together, each counts the other's row
  as in progress, and neither completes the batch.  The docstring says batches
  end without anybody polling; in fact the next status read ends this one, or
  the stale sweep fails it.

Seen while modelling, and kept as hazards or notes because a run would add
nothing to reading the lines:

* `defer` keeps `cancel_requested`, so a deferred operation cannot be cancelled
  a second time while queued (`services/operation_service.py:1163`).
* `ClaimCancelled` raised by the guard before the handler is not caught there
  (`queue/worker.py:911`), and the sweep ends the operation as failed.
* A forced preparation reads the row, deletes its summaries and resets the
  status under no lock (`queue/worker.py:1823`).  A summary that another attempt
  commits between the read and the delete is lost, and if the row was read as
  parsed no status is written: the content stays completed with nothing to
  show.  `PrepareDelete` reaches this state, and `CompletedHasOutput` excludes
  it by name (`DeletedBehind`); no run is kept for it because no document
  speaks of it.
* `summarize_contents` notes content as completed because of a summary it saw
  earlier (`processors/summarizer.py:332`), which a forced preparation may have
  deleted since.
* The sweep fails a row and leaves its attempt evidence open
  (`queue/setup.py:1270`), so open evidence does not say that an attempt runs.
* A claim that dies before it acquires its content leaves the owner at an older
  generation than the operation, and every later scan reports
  `ownership_conflict` (`services/content_reconciliation_service.py:142`).
* The aggregate counts an item as done if its own handler is the caller
  (`queue/setup.py:1592`), even when the caller is a stalled attempt of an item
  that was retried; `ended` therefore asks that the item was summarized once.
* A legacy batch has no heartbeat of its own; one whose items take longer than
  the stale threshold is failed by the sweep (`queue/setup.py:1282`).
* If the connection that holds the batch advisory lock is lost while its holder
  lives, a second maintainer starts, and rows are marked by id alone
  (`services/batch/workers.py:255`).
* `submit_child` looks for the child and inserts it in two statements
  (`services/operation_service.py:308`).  An attempt that stalls between them
  past the sweep and a retry may start a stage a second time, which is the
  exception `EachStageOnce` makes.
* A run that fails because a source completed only partially
  (`workflows/pipeline.py:194`) names nothing to retry, since that source has
  completed; retrying the run fails in the same way each time.
* A tolerated failed source that a client retries later changes the outcome the
  run reports, and not the content its digest is made of
  (`workflows/pipeline.py:165`): the resolved set is stored once.

## 6. What is proved

Everything is proved for every set of jobs, slots, events and workers and
every value of the bounds, from the named assumptions of the modules.

`OperationQueueProofs`:

* `TypeCorrectness`: `Spec => []TypeOK`.  `TypeOK` is not inductive: a step of a
  slot updates the row of the slot's job, so that job must not be `NoJob`.
  `Typed` adds that a slot which is not idle has a job, and that a slot about
  to finish has an outcome.
* `GenerationsAreFenced`: `Spec => []OneHolderPerGeneration`.  Besides types the
  argument needs that only `Claim` gives a slot a job and a generation
  (`SlotsKeptUnlessClaimed`), that generations of rows never shrink, and the
  property's own first half: no slot is ahead of its row, so the next
  generation is nobody's.

`AlertDeliveryProofs`: one invariant, `Inv`, gives `TypeCorrectness`,
`LeasesAreExclusive`, `NotificationsAreUnique`, `RetriesAreInTime` and, with
the steps, `SettlementIsFinal`.  The property `LeaseIsExclusive` is not
inductive, because a row may be leased anew while an old claim is in memory.
What saves it is that a new lease is strictly younger than every claim in
memory: `FreshLeasesHold` says that a claim as young as a lease can be still
has its row, or its row is not due, which needs every retry delay to be
positive; `LeasesDiffer` follows.  `RowsSound` records why a corrupt row never
passes the attempt limit.  The prover knows nothing of powers, so that
`BaseBackoff * 2^(n-1)` is a positive number for every attempt is stated as
an assumption on the constants, which the runs evaluate.

`OperationOutcomeProofs`, on top of `OperationQueueProofs`: what the queue
records and reports.  `NextRows` sorts every action into the few things that
can happen to rows and their outbox (`RowSubmitted`, `RowRequeued`,
`RowSettled`, ...), and all arguments are by these kinds.

* `CompletionIsFinal`, `PendingEventsStayCurrent` and `EffectsPrecedeOutcomes`
  follow from `OutboxInv`: an event is of a generation its row has reached
  (`EventsAreReached`), a running claim has none (`RunningHasNoOutcome`), what
  is under review is in the outbox, and a terminal row has its event.
* `OutcomesReachTheOutbox` and `ReportsStayTrue` need `EvidenceInv`: a slot in
  its handler has open evidence, one about to announce an outcome has it
  recorded, and nobody works any more under a claim that is reported
  (`ReportedIsOver`).  `OneHolderPerGeneration` is used here: evidence is kept
  per generation, so no other slot writes it.
* `QueueImplementsLifecycle`: every step maps to a step of
  `OperationLifecycle` or to a stutter, outcomes being what the outbox holds.

`ContentExecutionProofs`: `ContentInv` adds to the properties that attempts
begin with their claim, that an owner is an attempt of an operation on that
row (`OwnersAreAttempts`), that the attempt which made a summary has only its
own row left to settle (`SummariesAreOver`), and that a requeued operation has
fewer retries than claims (`RetriesLag`, which `RetriesFollowClaims` alone does
not give: a requeue adds a retry first and a claim later).
`OutputsEndOwnership` depends on `SummariesAreOver`: the attempt that made a
summary cannot acquire again.  `CompletedContentIsShown` has an invariant of
its own, `OutputInv`: what a preparation has deleted is of its own row and
stays on record (`DeletionsAreOrdered`), and whoever is about to note content as
completed has seen a summary that is still there, or is excused
(`NotedHasOutput`).  Only `PrepareReset` takes summaries away, and it resets
the status unless it read the row as parsed, which is `DeletedBehind`.  Where every writer is fenced, content with a
summary stays completed (`SummariesAreFinal`), and nobody acquires completed
content; hence `SummariesAreUnique`.  `OwnedContentIsFenced` lists the three
ways in which owned content may change at all, the owner's own step, a later
generation's acquisition and a repair, and `OwnersAreUndisturbed` and
`ReturnsAreFree` are read off it.  `OwnersMatchStatuses`, `OutputsEndOwnership`,
`CompletedContentIsShown` and `RetriesAreEarned` hold with unclaimed writers
and forced resets too.

`PipelineRunProofs`: `PipelineInv` says what a slot knows.  Whatever a slot
goes by is true even if it has lost the run (`CopyIsTrue`); whoever holds the
run knows the whole stored checkpoint, because nobody else writes it
(`CopyIsCurrent`), so `CheckpointsGrow`; unless some attempt outlived its claim
the busy slot is alone, and what it has looked for in vain is still not there
(`IsAlone`), so `StagesAreStartedOnce`.  `RowsAreInOrder` shows that the model
has a row for every insertion: one per slot, each of which inserts at most one
of a key.  That `CHOOSE` finds the next source needs that a set of numbers has
a least element, from the library's well-foundedness of `<`.

`OperationGraphProofs` has two invariants.  `GraphInv` places every handler and
reader and holds without condition; it gives `GraphTypeCorrect`,
`NoItemIsOrphaned` and `RemovalIsSafe`.  `CountInv` is about aggregates: what
an item's handler or a reader has counted as missing is no less than what has
not ended, its own item included until it has subtracted it, and what a run's
handler has looked at is still so while it holds the run.  `NextEvolves` first
shows what a step may do to a batch (it is created, removed, or kept and then
changed by its holder only), and `BatchesWaitForTheirItems` follows.  It is
stated, and checked, for `~Zombies`: an item's handler that lost its row counts
it as done although a retry has queued it again (section 5), and with `Zombies`
TLC has the batch completed in ten states.

`BatchInferenceProofs`: who holds the advisory lock is the only one in a cycle
(`LockIsHeld`), so that what a maintainer has loaded stays true until it acts
on it (`WorkIsKnown`: the rows and jobs it has in hand, by the place where it
is).  With `ResultsAreCounted` and `CallsAreCounted`, which count results and
calls against the rows, this is inductive and gives `RowsAreNeverStranded`,
`ResultsAreAppliedOnce` and `FallbackCallsAreBounded`.

Each of these invariants was checked by TLC on an instance before it was
proved.

Only model-checked: the liveness properties, `EveryClaimEnds`,
`EveryEventIsReviewed`, `EveryAlertSettles`, `EveryRunEnds`, `EveryBatchEnds` and
`EveryRequestEnds`, because liveness under fairness and ENABLED are beyond the
prover; and the four findings, which are counterexamples.  No definition of the
modules is recursive, so nothing about data had to be left to TLC.

## 7. What is not modelled

The components of section 1 without a module, as planned; and within the
modelled ones what their notes in `PROJECT.json` name: listings and progress,
routing and severity of events, the other ingestion routes, audit rows and dry
runs of reconciliation, HTTP and address policy of the sinks.
