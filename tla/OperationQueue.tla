--------------------------- MODULE OperationQueue ---------------------------
(***************************************************************************)
(* The durable operation queue: the rows of pgqueuer_jobs, the workers     *)
(* that claim and run them, the stale-claim sweep, the control calls       *)
(* (cancel, retry) and the terminal-event outbox the row trigger feeds.    *)
(*                                                                         *)
(* A worker slot runs _process_job as a sequence of separate database      *)
(* transactions, so between any two of them the row may be swept, retried, *)
(* cancelled and claimed again by another slot.  The claim generation is   *)
(* the only thing that tells a slot whether the row is still its own.      *)
(***************************************************************************)
EXTENDS Naturals

CONSTANTS
  Jobs,        \* identities of the operations clients may submit
  Workers,     \* worker slots: one claimed job each
  NoJob,       \* the job of an idle slot
  KeyOf,       \* [Jobs -> key]: (entrypoint, idempotency_key) of a job
  Children,    \* [Jobs -> SUBSET Jobs]: the children a pipeline submits
  Malformed,   \* jobs whose persisted observation context does not parse
  LegacyJobs,  \* jobs whose client retries through POST /jobs/{id}/retry
  Authority,   \* answers of the shared-authority ownership fence ({}: no fence)
  Zombies,     \* TRUE iff a live slot may stall past the stale threshold
  Workloads,   \* bound: the sets of jobs one behaviour may submit together
  MaxCrashes,  \* bound: slots that may die in a behaviour
  MaxClaims    \* bound: claim generations a job may reach

ASSUME JobsAssumption == NoJob \notin Jobs
ASSUME BoundAssumption == MaxClaims \in Nat /\ MaxCrashes \in Nat
ASSUME ChildrenAssumption ==
  /\ Children \in [Jobs -> SUBSET Jobs]
  /\ \A j \in Jobs : j \notin Children[j]
ASSUME SubsetAssumption == Malformed \subseteq Jobs /\ LegacyJobs \subseteq Jobs
ASSUME ModeAssumption == Authority \subseteq BOOLEAN /\ Zombies \in BOOLEAN

VARIABLES
  status,     \* [Jobs -> Status]: pgqueuer_jobs.status
  gen,        \* [Jobs -> 0..MaxClaims]: claim_generation
  cancelReq,  \* [Jobs -> BOOLEAN]: payload.cancel_requested
  fresh,      \* [Jobs -> BOOLEAN]: heartbeat_at is younger than the threshold
  task,       \* [Workers -> Task]: where each slot is in _process_job
  attempt,    \* attempt evidence: the row of a job and generation, if any
  staleNoted, \* <<job, generation>> whose evidence carries queue.stale_claim
  event,      \* workflow_terminal_events: one row per job, generation, status
  review,     \* the terminal event the elected classifier is looking at
  commits,    \* <<job, generation>> under which a domain write committed
  notices,    \* <<job, generation, status>> announced to the notifier
  crashes     \* slots that have died so far

vars == <<status, gen, cancelReq, fresh, task, attempt, staleNoted, event,
          review, commits, notices, crashes>>

Active   == {"queued", "in_progress"}
Terminal == {"completed", "failed", "cancelled"}
Status   == {"absent"} \cup Active \cup Terminal
Stage    == {"idle", "claimed", "guard", "touch", "start", "handling",
             "finish", "drop", "notify"}
Task     == [pc: Stage, job: Jobs \cup {NoJob}, gen: 0..MaxClaims,
             target: Terminal \cup {"none"}]
Idle     == [pc |-> "idle", job |-> NoJob, gen |-> 0, target |-> "none"]
Evidence == {"none", "open"} \cup Terminal
Outbox   == {"none", "pending", "classified", "rejected"}
NoReview == [job |-> NoJob, gen |-> 0, status |-> "none", verdict |-> "none",
             evidence |-> 0]
Review   == [job: Jobs \cup {NoJob}, gen: 0..MaxClaims,
             status: Terminal \cup {"none"},
             verdict: {"none", "unread", "classified", "rejected"},
             evidence: 0..MaxClaims]

TypeOK ==
  /\ status \in [Jobs -> Status]
  /\ gen \in [Jobs -> 0..MaxClaims]
  /\ cancelReq \in [Jobs -> BOOLEAN]
  /\ fresh \in [Jobs -> BOOLEAN]
  /\ task \in [Workers -> Task]
  /\ attempt \in [Jobs -> [0..MaxClaims -> Evidence]]
  /\ staleNoted \subseteq Jobs \X (0..MaxClaims)
  /\ event \in [Jobs -> [0..MaxClaims -> [Terminal -> Outbox]]]
  /\ review \in Review
  /\ commits \subseteq Jobs \X (0..MaxClaims)
  /\ notices \subseteq Jobs \X (0..MaxClaims) \X Terminal
  /\ crashes \in 0..MaxCrashes

Init ==
  /\ status = [j \in Jobs |-> "absent"]
  /\ gen = [j \in Jobs |-> 0]
  /\ cancelReq = [j \in Jobs |-> FALSE]
  /\ fresh = [j \in Jobs |-> TRUE]
  /\ task = [w \in Workers |-> Idle]
  /\ attempt = [j \in Jobs |-> [g \in 0..MaxClaims |-> "none"]]
  /\ staleNoted = {}
  /\ event = [j \in Jobs |->
                [g \in 0..MaxClaims |-> [s \in Terminal |-> "none"]]]
  /\ review = NoReview
  /\ commits = {}
  /\ notices = {}
  /\ crashes = 0

-----------------------------------------------------------------------------
(* The row updates every statement is built from.                          *)

(* The WHERE clause of every lifecycle write: the row is still in progress *)
(* under the generation this slot claimed.                                 *)
HoldsRow(w) ==
  /\ status[task[w].job] = "in_progress"
  /\ gen[task[w].job] = task[w].gen

(* AFTER UPDATE trigger capture_pgqueuer_terminal_event: the row keyed by  *)
(* operation, generation and status is inserted once; a repetition of the  *)
(* same identity leaves the existing row alone.                            *)
Captured(j, s) ==
  [event EXCEPT ![j][gen[j]][s] = IF @ = "none" THEN "pending" ELSE @]

(* A transition into a terminal status, with its trigger.                  *)
SettleRow(j, s) ==
  /\ status' = [status EXCEPT ![j] = s]
  /\ fresh' = [fresh EXCEPT ![j] = TRUE]
  /\ event' = Captured(j, s)

RowUnchanged == UNCHANGED <<status, fresh, event>>

Goto(w, pc) == task' = [task EXCEPT ![w].pc = pc]
Finish(w, target) ==
  task' = [task EXCEPT ![w].pc = "finish", ![w].target = target]
Leave(w) == task' = [task EXCEPT ![w] = Idle]

(* uq_pgqueuer_jobs_active_dedupe: no two active rows share a key.         *)
KeyFree(j, others) ==
  \A k \in Jobs \ {j} :
    KeyOf[k] = KeyOf[j] => k \notin others /\ status[k] \notin Active

(* parent_job_id.                                                          *)
Parents(j) == {p \in Jobs : j \in Children[p]}

-----------------------------------------------------------------------------
(* Clients.                                                                *)

(* enqueue_queue_job: an equivalent active row wins over the insertion.    *)
(* A child is submitted by the handler of its parent, which only needs the *)
(* parent row to exist: a stalled handler submits as well as a current one.*)
Submit(j) ==
  /\ status[j] = "absent"
  /\ \E load \in Workloads : {k \in Jobs : status[k] # "absent"} \cup {j} \subseteq load
  /\ KeyFree(j, {})
  /\ \A p \in Parents(j) :
       \E w \in Workers : task[w].pc = "handling" /\ task[w].job = p
  /\ status' = [status EXCEPT ![j] = "queued"]
  /\ UNCHANGED <<gen, cancelReq, fresh, task, attempt, staleNoted, event,
                 review, commits, notices, crashes>>

(* OperationService.cancel: queued work is cancelled at once, running work *)
(* is only asked to stop.  A row that was already asked is left alone.     *)
Cancel(j) ==
  /\ status[j] \in Active
  /\ ~cancelReq[j]
  /\ cancelReq' = [cancelReq EXCEPT ![j] = TRUE]
  /\ IF status[j] = "queued"
       THEN SettleRow(j, "cancelled")
       ELSE /\ fresh' = [fresh EXCEPT ![j] = TRUE]
            /\ UNCHANGED <<status, event>>
  /\ UNCHANGED <<gen, task, attempt, staleNoted, review, commits, notices,
                 crashes>>

(* Requeueing resets the transient control state of the rows in S.         *)
Requeue(S) ==
  /\ \A j \in S : KeyFree(j, S) /\ gen[j] < MaxClaims
  /\ status' = [j \in Jobs |-> IF j \in S THEN "queued" ELSE status[j]]
  /\ cancelReq' = [j \in Jobs |-> IF j \in S THEN FALSE ELSE cancelReq[j]]
  /\ UNCHANGED <<gen, fresh, task, attempt, staleNoted, review, commits,
                 notices, crashes>>

(* Mutation: a retry that forgets to close the attempts it resets.         *)
ClosedNothing(S) == event

(* _close_terminal_attempts_before_retry: the pending event of the current *)
(* terminal state of each row in S is classified in the same transaction.  *)
ClosedBeforeRetry(S) ==
  [j \in Jobs |-> [g \in 0..MaxClaims |-> [s \in Terminal |->
     IF /\ j \in S
        /\ g = gen[j]
        /\ s = status[j]
        /\ event[j][g][s] = "pending"
       THEN "classified"
       ELSE event[j][g][s]]]]

(* Mutation: the status check is missing from the retried row.             *)
RetryAnyTerminal(j, kids) ==
  /\ status[j] \in Terminal
  /\ kids \subseteq {c \in Children[j] : status[c] \in {"failed", "cancelled"}}
  /\ Requeue({j} \cup kids)
  /\ event' = ClosedBeforeRetry({j} \cup kids)

(* OperationService.retry: a failed operation, and for a pipeline those of *)
(* its failed or cancelled children that its result names for retry.       *)
Retry(j, kids) ==
  /\ status[j] = "failed"
  /\ kids \subseteq {c \in Children[j] : status[c] \in {"failed", "cancelled"}}
  /\ Requeue({j} \cup kids)
  /\ event' = ClosedBeforeRetry({j} \cup kids)

(* setup.retry_failed_job, behind POST /jobs/{id}/retry: the same requeue  *)
(* of one failed row, with no step that closes its terminal event.         *)
LegacyRetry(j) ==
  /\ j \in LegacyJobs
  /\ status[j] = "failed"
  /\ Requeue({j})
  /\ UNCHANGED event

-----------------------------------------------------------------------------
(* One worker slot: the steps of _process_job.                             *)

(* Mutation: the trigger that advances the generation is not installed.    *)
ClaimSameGeneration(w, j) ==
  /\ task[w].pc = "idle"
  /\ status[j] = "queued"
  /\ status' = [status EXCEPT ![j] = "in_progress"]
  /\ fresh' = [fresh EXCEPT ![j] = TRUE]
  /\ task' = [task EXCEPT ![w] = [pc |-> "claimed", job |-> j,
                                  gen |-> gen[j], target |-> "none"]]
  /\ UNCHANGED <<gen, cancelReq, attempt, staleNoted, event, review, commits,
                 notices, crashes>>

(* _claim_jobs and the claim-generation trigger.                           *)
Claim(w, j) ==
  /\ task[w].pc = "idle"
  /\ status[j] = "queued"
  /\ gen[j] < MaxClaims
  /\ status' = [status EXCEPT ![j] = "in_progress"]
  /\ gen' = [gen EXCEPT ![j] = @ + 1]
  /\ fresh' = [fresh EXCEPT ![j] = TRUE]
  /\ task' = [task EXCEPT ![w] = [pc |-> "claimed", job |-> j,
                                  gen |-> gen[j] + 1, target |-> "none"]]
  /\ UNCHANGED <<cancelReq, attempt, staleNoted, event, review, commits,
                 notices, crashes>>

(* The observation context does not parse: _fail_job and return.  Its      *)
(* WHERE clause also requires that no cancellation was requested.          *)
RejectMalformed(w) ==
  LET j == task[w].job IN
  /\ task[w].pc = "claimed"
  /\ j \in Malformed
  /\ IF HoldsRow(w) /\ ~cancelReq[j] THEN SettleRow(j, "failed") ELSE RowUnchanged
  /\ Leave(w)
  /\ UNCHANGED <<gen, cancelReq, attempt, staleNoted, review, commits,
                 notices, crashes>>

(* _checkpoint_job_cancellation before the handler is invoked.             *)
CheckpointBeforeHandler(w) ==
  LET j == task[w].job IN
  /\ task[w].pc = "claimed"
  /\ j \notin Malformed
  /\ IF HoldsRow(w) /\ cancelReq[j]
       THEN SettleRow(j, "cancelled") /\ Leave(w)
       ELSE RowUnchanged /\ Goto(w, IF Authority = {} THEN "touch" ELSE "guard")
  /\ UNCHANGED <<gen, cancelReq, attempt, staleNoted, review, commits,
                 notices, crashes>>

(* _guard_execution_claim_before_handler.  Another environment may own the *)
(* authority, the claim may be superseded, or the job may be asked to      *)
(* cancel: the first two return, the last escapes _process_job as          *)
(* ClaimCancelled.  In every case the row stays as it is.                  *)
OwnershipGuard(w) ==
  /\ task[w].pc = "guard"
  /\ \E owned \in Authority :
       IF owned /\ HoldsRow(w) /\ ~cancelReq[task[w].job]
         THEN Goto(w, "touch")
         ELSE Leave(w)
  /\ UNCHANGED <<status, gen, cancelReq, fresh, attempt, staleNoted, event,
                 review, commits, notices, crashes>>

(* touch_job_heartbeat, whose failure means that the claim is lost.        *)
TouchBeforeHandler(w) ==
  /\ task[w].pc = "touch"
  /\ IF HoldsRow(w)
       THEN Goto(w, "start") /\ fresh' = [fresh EXCEPT ![task[w].job] = TRUE]
       ELSE Leave(w) /\ UNCHANGED fresh
  /\ UNCHANGED <<status, gen, cancelReq, attempt, staleNoted, event, review,
                 commits, notices, crashes>>

(* start_attempt appends the evidence row of this generation.              *)
StartEvidence(w) ==
  /\ task[w].pc = "start"
  /\ IF HoldsRow(w)
       THEN /\ attempt' = [attempt EXCEPT ![task[w].job][task[w].gen] = "open"]
            /\ Goto(w, "handling")
       ELSE Leave(w) /\ UNCHANGED attempt
  /\ UNCHANGED <<status, gen, cancelReq, fresh, staleNoted, event, review,
                 commits, notices, crashes>>

(* The heartbeat loop and the progress writes of the handler.              *)
Heartbeat(w) ==
  /\ task[w].pc \in {"handling", "finish"}
  /\ HoldsRow(w)
  /\ ~fresh[task[w].job]
  /\ fresh' = [fresh EXCEPT ![task[w].job] = TRUE]
  /\ UNCHANGED <<status, gen, cancelReq, task, attempt, staleNoted, event,
                 review, commits, notices, crashes>>

(* _guard_environment_ownership: with no fence the authority is never lost.*)
LostChoices == IF Authority = {} THEN {FALSE} ELSE {~owned : owned \in Authority}

(* Mutation: the commit validates the generation but not the status.       *)
DomainCommitByGeneration(w) ==
  /\ task[w].pc = "handling"
  /\ gen[task[w].job] = task[w].gen
  /\ ~cancelReq[task[w].job]
  /\ commits' = commits \cup {<<task[w].job, task[w].gen>>}
  /\ UNCHANGED <<status, gen, cancelReq, fresh, task, attempt, staleNoted,
                 event, review, notices, crashes>>

(* A domain transaction of the handler.  Its fences run in this order: the *)
(* environment still owns the authority (lost), the job row is locked and  *)
(* validated, the content row is still this operation's (taken).  Only the *)
(* cancellation request ends the job; a lost fence drops the work.         *)
DomainCommit(w) ==
  /\ task[w].pc = "handling"
  /\ \E lost \in LostChoices, taken \in BOOLEAN :
       \/ /\ lost \/ ~HoldsRow(w) \/ (taken /\ ~cancelReq[task[w].job])
          /\ Goto(w, "drop")
          /\ UNCHANGED commits
       \/ /\ ~lost /\ HoldsRow(w) /\ cancelReq[task[w].job]
          /\ Finish(w, "cancelled")
          /\ UNCHANGED commits
       \/ /\ ~lost /\ ~taken /\ HoldsRow(w) /\ ~cancelReq[task[w].job]
          /\ commits' = commits \cup {<<task[w].job, task[w].gen>>}
          /\ UNCHANGED task
  /\ UNCHANGED <<status, gen, cancelReq, fresh, attempt, staleNoted, event,
                 review, notices, crashes>>

(* OperationService.checkpoint_cancellation at a point the workflow chose: *)
(* the handler owns the transition and then returns normally.              *)
CheckpointInHandler(w) ==
  /\ task[w].pc = "handling"
  /\ HoldsRow(w)
  /\ cancelReq[task[w].job]
  /\ SettleRow(task[w].job, "cancelled")
  /\ Finish(w, "completed")
  /\ UNCHANGED <<gen, cancelReq, attempt, staleNoted, review, commits,
                 notices, crashes>>

(* OperationService.defer releases running work back to the queue.  It     *)
(* neither reads nor clears the cancellation request.                      *)
Defer(w) ==
  LET j == task[w].job IN
  /\ task[w].pc = "handling"
  /\ HoldsRow(w)
  /\ gen[j] < MaxClaims
  /\ status' = [status EXCEPT ![j] = "queued"]
  /\ fresh' = [fresh EXCEPT ![j] = TRUE]
  /\ Finish(w, "completed")
  /\ UNCHANGED <<gen, cancelReq, attempt, staleNoted, event, review, commits,
                 notices, crashes>>

(* The handler returns, or raises, or there is none for the entrypoint.    *)
HandlerReturns(w) ==
  /\ task[w].pc = "handling"
  /\ Finish(w, "completed")
  /\ UNCHANGED <<status, gen, cancelReq, fresh, attempt, staleNoted, event,
                 review, commits, notices, crashes>>

(* Mutation: the failure is recorded under a status the row does not have. *)
HandlerRaisesError(w) ==
  /\ task[w].pc = "handling"
  /\ Finish(w, "error")
  /\ UNCHANGED <<status, gen, cancelReq, fresh, attempt, staleNoted, event,
                 review, commits, notices, crashes>>

HandlerRaises(w) ==
  /\ task[w].pc = "handling"
  /\ Finish(w, "failed")
  /\ UNCHANGED <<status, gen, cancelReq, fresh, attempt, staleNoted, event,
                 review, commits, notices, crashes>>

(* Mutation: the row is completed or failed although a stop was asked for. *)
ResolutionOfTarget(w) ==
  IF HoldsRow(w) THEN task[w].target
  ELSE IF gen[task[w].job] = task[w].gen /\ status[task[w].job] \in Terminal
    THEN status[task[w].job]
    ELSE "none"

(* _finalize_attempt_transition resolves the row in this order: the target *)
(* itself, a cancellation that raced it, or the terminal status the row    *)
(* already has under this generation; otherwise the claim is lost.         *)
Resolution(w) ==
  LET j == task[w].job
      t == task[w].target
  IN  CASE HoldsRow(w) /\ cancelReq[j]                      -> "cancelled"
        [] HoldsRow(w) /\ ~cancelReq[j] /\ t # "cancelled"  -> t
        [] ~HoldsRow(w) /\ gen[j] = task[w].gen
                        /\ status[j] \in Terminal           -> status[j]
        [] OTHER                                            -> "none"

(* Mutation: evidence and announcement follow the target, whatever the row *)
(* was resolved to.                                                        *)
FinalizeByTarget(w) ==
  LET j == task[w].job
      resolved == Resolution(w)
      transitioned == HoldsRow(w) /\ resolved # "none"
  IN
  /\ task[w].pc = "finish"
  /\ IF transitioned THEN SettleRow(j, resolved) ELSE RowUnchanged
  /\ attempt' = IF resolved = "none" THEN attempt
                ELSE [attempt EXCEPT ![j][task[w].gen] = task[w].target]
  /\ IF transitioned /\ task[w].target # "cancelled"
       THEN Goto(w, "notify")
       ELSE Leave(w)
  /\ UNCHANGED <<gen, cancelReq, staleNoted, review, commits, notices,
                 crashes>>

(* The attempt evidence is completed in the same transaction.  Only the    *)
(* slot whose own target changed the row announces it.                     *)
Finalize(w) ==
  LET j == task[w].job
      g == task[w].gen
      resolved == Resolution(w)
      transitioned == HoldsRow(w) /\ resolved # "none"
  IN
  /\ task[w].pc = "finish"
  /\ IF transitioned THEN SettleRow(j, resolved) ELSE RowUnchanged
  /\ attempt' = IF resolved = "none" THEN attempt
                ELSE [attempt EXCEPT ![j][g] = resolved]
  /\ IF transitioned /\ resolved = task[w].target /\ resolved # "cancelled"
       THEN Goto(w, "notify")
       ELSE Leave(w)
  /\ UNCHANGED <<gen, cancelReq, staleNoted, review, commits, notices,
                 crashes>>

(* Mutation: the diagnostic does not look for a newer claim.               *)
DropAlwaysNoted(w) ==
  /\ task[w].pc = "drop"
  /\ staleNoted' = staleNoted \cup {<<task[w].job, task[w].gen>>}
  /\ Leave(w)
  /\ UNCHANGED <<status, gen, cancelReq, fresh, attempt, event, review,
                 commits, notices, crashes>>

(* ClaimSuperseded: record_stale_claim_diagnostic, if a newer claim exists.*)
DropSuperseded(w) ==
  LET j == task[w].job IN
  /\ task[w].pc = "drop"
  /\ staleNoted' = IF gen[j] > task[w].gen
                     THEN staleNoted \cup {<<j, task[w].gen>>}
                     ELSE staleNoted
  /\ Leave(w)
  /\ UNCHANGED <<status, gen, cancelReq, fresh, attempt, event, review,
                 commits, notices, crashes>>

(* _emit_job_notification, after the transition has committed.             *)
Notify(w) ==
  /\ task[w].pc = "notify"
  /\ notices' = notices \cup {<<task[w].job, task[w].gen, task[w].target>>}
  /\ Leave(w)
  /\ UNCHANGED <<status, gen, cancelReq, fresh, attempt, staleNoted, event,
                 review, commits, crashes>>

(* The process dies: the slot is gone, the row keeps what was committed.   *)
Crash(w) ==
  /\ task[w].pc # "idle"
  /\ crashes < MaxCrashes
  /\ crashes' = crashes + 1
  /\ Leave(w)
  /\ UNCHANGED <<status, gen, cancelReq, fresh, attempt, staleNoted, event,
                 review, commits, notices>>

-----------------------------------------------------------------------------
(* Maintenance.                                                            *)

(* A slot works on the current claim of j.                                 *)
Attended(j) ==
  \E w \in Workers : /\ task[w].pc # "idle"
                     /\ task[w].job = j
                     /\ HoldsRow(w)

(* Time passes: nobody has touched the row for the stale threshold.  The   *)
(* heartbeat period is far below it, so a live slot only gets there by     *)
(* stalling.                                                               *)
GoStale(j) ==
  /\ status[j] = "in_progress"
  /\ fresh[j]
  /\ Zombies \/ ~Attended(j)
  /\ fresh' = [fresh EXCEPT ![j] = FALSE]
  /\ UNCHANGED <<status, gen, cancelReq, task, attempt, staleNoted, event,
                 review, commits, notices, crashes>>

(* Mutation: the sweep skips rows that were asked to stop, as _fail_job    *)
(* does.                                                                   *)
SweepUnlessAsked(j) ==
  /\ status[j] = "in_progress"
  /\ ~fresh[j]
  /\ ~cancelReq[j]
  /\ SettleRow(j, "failed")
  /\ UNCHANGED <<gen, cancelReq, task, attempt, staleNoted, review, commits,
                 notices, crashes>>

(* mark_stale_jobs_failed, not fenced by any generation.                   *)
Sweep(j) ==
  /\ status[j] = "in_progress"
  /\ ~fresh[j]
  /\ SettleRow(j, "failed")
  /\ UNCHANGED <<gen, cancelReq, task, attempt, staleNoted, review, commits,
                 notices, crashes>>

(* process_pending_event, by the one elected alert tick: read a pending    *)
(* event ...                                                               *)
PickEvent(j, g, s) ==
  /\ review = NoReview
  /\ event[j][g][s] = "pending"
  /\ review' = [job |-> j, gen |-> g, status |-> s, verdict |-> "unread",
                evidence |-> g]
  /\ UNCHANGED <<status, gen, cancelReq, fresh, task, attempt, staleNoted,
                 event, commits, notices, crashes>>

(* Mutation: a child waits until its pipeline has completed.               *)
ReadSnapshotAfterSuccess ==
  LET j == review.job IN
  /\ review.verdict = "unread"
  /\ review' = IF \E p \in Parents(j) : status[p] # "completed"
                 THEN NoReview
                 ELSE [review EXCEPT
                         !.evidence = gen[j],
                         !.verdict = IF status[j] = review.status
                                       THEN "classified" ELSE "rejected"]
  /\ UNCHANGED <<status, gen, cancelReq, fresh, task, attempt, staleNoted,
                 event, commits, notices, crashes>>

(* ... then a fresh snapshot of the operation row.  The row must show the  *)
(* terminal status of the event, though it may be of a later generation.   *)
(* _apply_pipeline_routing: a child's outcome that would be alerted on its *)
(* own (never a cancellation) is left pending while its pipeline is active.*)
ReadSnapshot ==
  LET j == review.job
      awaitsRoot == /\ review.status # "cancelled"
                    /\ \E p \in Parents(j) : status[p] \in Active
  IN
  /\ review.verdict = "unread"
  /\ \/ /\ status[j] # review.status
        /\ review' = [review EXCEPT !.verdict = "rejected", !.evidence = gen[j]]
     \/ /\ status[j] = review.status
        /\ review' = [review EXCEPT !.verdict = "classified", !.evidence = gen[j]]
     \/ /\ status[j] = review.status /\ awaitsRoot
        /\ review' = NoReview
  /\ UNCHANGED <<status, gen, cancelReq, fresh, task, attempt, staleNoted,
                 event, commits, notices, crashes>>

(* ... and store the verdict if the event is pending still.                *)
StoreReview ==
  /\ review.verdict \in {"classified", "rejected"}
  /\ event' = [event EXCEPT ![review.job][review.gen][review.status] =
                 IF @ = "pending" THEN review.verdict ELSE @]
  /\ review' = NoReview
  /\ UNCHANGED <<status, gen, cancelReq, fresh, task, attempt, staleNoted,
                 commits, notices, crashes>>

-----------------------------------------------------------------------------
WorkerStep(w) ==
  \/ RejectMalformed(w)
  \/ CheckpointBeforeHandler(w)
  \/ OwnershipGuard(w)
  \/ TouchBeforeHandler(w)
  \/ StartEvidence(w)
  \/ DomainCommit(w)
  \/ CheckpointInHandler(w)
  \/ Defer(w)
  \/ HandlerReturns(w)
  \/ HandlerRaises(w)
  \/ Finalize(w)
  \/ DropSuperseded(w)
  \/ Notify(w)

Next ==
  \/ \E j \in Jobs : Submit(j)
  \/ \E j \in Jobs : Cancel(j)
  \/ \E j \in Jobs : \E kids \in SUBSET Children[j] : Retry(j, kids)
  \/ \E j \in Jobs : LegacyRetry(j)
  \/ \E w \in Workers : \E j \in Jobs : Claim(w, j)
  \/ \E w \in Workers : WorkerStep(w)
  \/ \E w \in Workers : Heartbeat(w)
  \/ \E w \in Workers : Crash(w)
  \/ \E j \in Jobs : GoStale(j)
  \/ \E j \in Jobs : Sweep(j)
  \/ \E j \in Jobs : \E g \in 0..MaxClaims : \E s \in Terminal : PickEvent(j, g, s)
  \/ ReadSnapshot
  \/ StoreReview

Spec == Init /\ [][Next]_vars

(* What keeps moving: the steps of a live slot (handlers return or raise), *)
(* time, the sweep, which runs at every interval, and the elected tick,    *)
(* which takes pending events oldest first so that each has its turn.      *)
(* Clients and crashes owe nothing.                                        *)
Fairness ==
  /\ \A w \in Workers : WF_vars(WorkerStep(w))
  /\ WF_vars(\E w \in Workers, j \in Jobs : Claim(w, j))
  /\ \A j \in Jobs : WF_vars(GoStale(j) \/ Sweep(j))
  /\ \A j \in Jobs :
       SF_vars(\E g \in 0..MaxClaims, s \in Terminal : PickEvent(j, g, s))
  /\ WF_vars(ReadSnapshot \/ StoreReview)

FairSpec == Spec /\ Fairness

-----------------------------------------------------------------------------
(* Properties.                                                             *)

Live(w) == task[w].pc # "idle"

(* However claims, sweeps, retries and crashes interleave, two slots never *)
(* work under the same generation of a job, and no slot is ahead of the    *)
(* row: the generation identifies one attempt.                             *)
OneHolderPerGeneration ==
  /\ \A w \in Workers : Live(w) => task[w].gen <= gen[task[w].job]
  /\ \A v, w \in Workers :
       v # w /\ Live(v) /\ Live(w) /\ task[v].job = task[w].job
         => task[v].gen # task[w].gen

(* An outcome a reader can see is in the outbox: that of a terminal row    *)
(* under its generation, and that of every completed attempt, even where   *)
(* the slot only learnt from the row how its job ended.                    *)
OutcomesAreCaptured ==
  /\ \A j \in Jobs :
       status[j] \in Terminal => event[j][gen[j]][status[j]] # "none"
  /\ \A j \in Jobs : \A g \in 0..MaxClaims :
       attempt[j][g] \in Terminal => event[j][g][attempt[j][g]] # "none"

(* A pending event of a canonically retried operation still describes its  *)
(* row, so the classifier, which reads the row long after the event, never *)
(* rejects it and never classifies it by a later attempt.                  *)
PendingEventsAreCurrent ==
  \A j \in Jobs \ LegacyJobs : \A g \in 0..MaxClaims : \A s \in Terminal :
    event[j][g][s] = "pending" =>
      /\ g = gen[j] /\ s = status[j]
      /\ review.job = j /\ review.gen = g /\ review.status = s =>
           review.verdict # "rejected" /\ review.evidence = g

(* Completion is final: no sweep, late worker or retry takes a row out of  *)
(* it or completes it under a second generation.                           *)
CompletedIsFinal ==
  \A j \in Jobs : \A g \in 0..MaxClaims :
    event[j][g]["completed"] # "none" => status[j] = "completed" /\ gen[j] = g

(* queue.stale_claim is written only on the evidence of a superseded       *)
(* attempt that recorded no outcome of its own.                            *)
StaleNotesAreSuperseded ==
  \A j \in Jobs : \A g \in 0..MaxClaims :
    <<j, g>> \in staleNoted => g < gen[j] /\ attempt[j][g] = "open"

(* What the notifier announces is what the attempt evidence and the outbox *)
(* say of that claim, and a cancellation is never announced.               *)
NoticesAreTrue ==
  \A n \in notices : /\ attempt[n[1]][n[2]] = n[3]
                     /\ event[n[1]][n[2]][n[3]] # "none"
                     /\ n[3] # "cancelled"

(* Whatever order slots, sweeps and retries come in, nothing that is told  *)
(* of an attempt is false, neither to the operator nor to the submitter.   *)
ReportsAreTrue == StaleNotesAreSuperseded /\ NoticesAreTrue

(* No domain write commits under a claim that has an outcome on record: a  *)
(* worker whose row was swept, cancelled or deferred commits nothing.      *)
NoEffectAfterOutcome ==
  [][\A j \in Jobs : \A g \in 0..MaxClaims :
       <<j, g>> \in commits' \ commits =>
         \A s \in Terminal : event[j][g][s] = "none"]_vars

(* The queue is an implementation of what the submitter was promised.      *)
Outcomes == {o \in Jobs \X (0..MaxClaims) \X Terminal :
               event[o[1]][o[2]][o[3]] # "none"}
Lifecycle == INSTANCE OperationLifecycle
               WITH state <- status, claim <- gen, asked <- cancelReq,
                    outcomes <- Outcomes, effects <- commits
ImplementsLifecycle == Lifecycle!ASpec

(* Every claim ends: a slot that dies, is fenced out or loses its content  *)
(* never strands the row under the claim it took.                          *)
EveryClaimEnds ==
  \A j \in Jobs : \A g \in 1..MaxClaims :
    (status[j] = "in_progress" /\ gen[j] = g)
      ~> ~(status[j] = "in_progress" /\ gen[j] = g)

(* Every captured event is classified in the end, children included.       *)
EveryEventIsReviewed ==
  \A j \in Jobs : \A g \in 0..MaxClaims : \A s \in Terminal :
    event[j][g][s] = "pending" ~> event[j][g][s] # "pending"

-----------------------------------------------------------------------------
(* What the documents say and the code does otherwise.                     *)

(* Telemetry is emitted for every terminal operation event; a rejected     *)
(* event emits none.                                                       *)
EveryEventEmitsTelemetry ==
  \A j \in Jobs : \A g \in 0..MaxClaims : \A s \in Terminal :
    event[j][g][s] # "rejected"

=============================================================================
