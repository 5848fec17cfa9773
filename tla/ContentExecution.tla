-------------------------- MODULE ContentExecution --------------------------
(***************************************************************************)
(* Content ownership.  A claimed attempt of an operation owns one phase    *)
(* (parsing or processing) of a content row while it computes; each of its *)
(* transactions revalidates the job row and the owner fields.  The         *)
(* reconciliation endpoint scans rows that look stuck and, in a later      *)
(* transaction, repairs those whose evidence has not changed since.        *)
(*                                                                         *)
(* An attempt is a job and a claim generation.  The queue gives every      *)
(* generation one slot, so an attempt is one thread of control: it may     *)
(* stall anywhere, for ever (a crash) or until after it lost its claim.    *)
(***************************************************************************)
EXTENDS Naturals, FiniteSets

CONSTANTS
  Contents,    \* content rows
  Jobs,        \* operations that work on a content row
  NoJob,       \* the owner of a row nobody owns
  ContentOf,   \* [Jobs -> Contents]
  Workloads,   \* what may be asked of a system, see Workload
  Runs,        \* concurrent reconciliation requests in apply mode
  MaxRetries,  \* CONTENT_RECONCILIATION_MAX_RETRIES
  MaxClaims    \* bound: claim generations a job may reach

ASSUME OwnerAssumption == NoJob \notin Jobs
ASSUME JobAssumption == ContentOf \in [Jobs -> Contents]
ASSUME LimitAssumption == MaxRetries \in Nat /\ MaxClaims \in Nat \ {0}

(* jobs: the operations submitted; forced: those with force or             *)
(* force_reprocess; stopped: those a client may cancel; start: the status  *)
(* content has before them; direct: the phases callers without a claim     *)
(* write as well; runs: the reconciliation requests made.                  *)
Workload == [jobs: SUBSET Jobs, kind: [Jobs -> {"url", "extract", "summary", "process"}],
             forced: SUBSET Jobs, stopped: SUBSET Jobs,
             start: [Contents -> {"pending", "parsed"}],
             direct: SUBSET {"parsing", "processing"}, runs: SUBSET Runs]
ASSUME WorkloadAssumption == Workloads \subseteq Workload

VARIABLES
  content,   \* [Contents -> ContentStatus]: contents.status
  owner,     \* [Contents -> Owner]: status_operation_id, _claim_generation
             \* and _phase; the owner version changes with each of them
  summaries, \* <<content, job, generation>>: summaries and their provenance
  direct,    \* [Contents -> Call]: the call without a claim on each row
  status,    \* [Jobs -> JobStatus]
  gen,       \* [Jobs -> 0..MaxClaims]: claim_generation
  cancelReq, \* [Jobs -> BOOLEAN]
  fresh,     \* [Jobs -> BOOLEAN]: heartbeat_at is younger than the threshold
  retries,   \* [Jobs -> 0..MaxClaims]: retry_count
  stage,     \* [Jobs -> [1..MaxClaims -> Stage]]: where each attempt is
  found,     \* [Jobs -> [1..MaxClaims -> Found]]: what each attempt's forced
             \* preparation has read and deleted
  scan,      \* [Runs -> evidence]: the row each request is about to repair
  workload   \* what is asked of this system; never changes

content_vars == <<content, owner, summaries, direct>>
job_vars == <<status, gen, cancelReq, fresh, retries>>
vars == <<content_vars, job_vars, stage, found, scan, workload>>

Kind   == workload.kind
Forced == workload.forced

Transitional  == {"parsing", "processing"}
ContentStatus == {"pending", "parsed", "completed", "failed"} \cup Transitional
JobStatus     == {"queued", "in_progress", "completed", "failed", "cancelled"}
Stage   == {"none", "claimed", "prepare", "delete", "reset", "resolve", "acquire",
            "working", "completing", "failing", "cancelling", "over"}
Owner   == [job: Jobs \cup {NoJob}, gen: 0..MaxClaims,
            phase: Transitional \cup {"none"}]
NoOwner == [job |-> NoJob, gen |-> 0, phase |-> "none"]
Summary == Contents \X (Jobs \cup {NoJob}) \X (0..MaxClaims)

(* What a session has loaded of a row: its status, and whether the owner   *)
(* fields were set.  A caller without a claim is also somewhere in a phase.*)
Found   == [status: ContentStatus \cup {"none"}, owned: BOOLEAN, deleted: SUBSET Summary]
Unread  == [status |-> "none", owned |-> FALSE, deleted |-> {}]
NoCall  == [at |-> "none", phase |-> "none", status |-> "none", owned |-> FALSE]
Call    == {NoCall} \cup
           [at: {"looking", "noting", "starting", "computing", "failing"},
            phase: Transitional, status: ContentStatus, owned: BOOLEAN]

PhaseOf(j) == IF Kind[j] \in {"url", "extract"} THEN "parsing" ELSE "processing"
Before(phase) == IF phase = "parsing" THEN "pending" ELSE "parsed"
(* Mutation: the database has no status of this name.                      *)
AfterMisnamed(phase) == IF phase = "parsing" THEN "parsed" ELSE "summarized"

After(phase)  == IF phase = "parsing" THEN "parsed" ELSE "completed"

(* The columns _same_evidence compares, of a content row and its owner.    *)
Evidence(c) ==
  LET j == owner[c].job IN
  [content |-> c, state |-> content[c], owner |-> owner[c],
   job |-> IF j = NoJob THEN <<>>
           ELSE <<status[j], gen[j], retries[j], cancelReq[j], fresh[j]>>]
NoScan == [content |-> "none", state |-> "none", owner |-> NoOwner, job |-> <<>>]

TypeOK ==
  /\ content \in [Contents -> ContentStatus]
  /\ owner \in [Contents -> Owner]
  /\ summaries \subseteq Summary
  /\ direct \in [Contents -> Call]
  /\ status \in [Jobs -> JobStatus]
  /\ gen \in [Jobs -> 0..MaxClaims]
  /\ cancelReq \in [Jobs -> BOOLEAN]
  /\ fresh \in [Jobs -> BOOLEAN]
  /\ retries \in [Jobs -> 0..MaxClaims]
  /\ stage \in [Jobs -> [1..MaxClaims -> Stage]]
  /\ found \in [Jobs -> [1..MaxClaims -> Found]]
  /\ \A r \in Runs : scan[r] # NoScan =>
       scan[r].content \in Contents /\ scan[r].owner \in Owner
  /\ workload \in Workload

(* Jobs wait in the queue; content is where their work may start.  A job   *)
(* that is not submitted is like one cancelled before it was claimed.      *)
Init ==
  /\ workload \in Workloads
  /\ content = workload.start
  /\ owner = [c \in Contents |-> NoOwner]
  /\ summaries = {}
  /\ direct = [c \in Contents |-> NoCall]
  /\ status = [j \in Jobs |-> IF j \in workload.jobs THEN "queued" ELSE "cancelled"]
  /\ gen = [j \in Jobs |-> 0]
  /\ cancelReq = [j \in Jobs |-> FALSE]
  /\ fresh = [j \in Jobs |-> TRUE]
  /\ retries = [j \in Jobs |-> 0]
  /\ stage = [j \in Jobs |-> [g \in 1..MaxClaims |-> "none"]]
  /\ found = [j \in Jobs |-> [g \in 1..MaxClaims |-> Unread]]
  /\ scan = [r \in Runs |-> NoScan]

-----------------------------------------------------------------------------
(* Row updates.                                                            *)

Goto(j, g, s) == stage' = [stage EXCEPT ![j][g] = s]

(* A writer that advances the owner version: the owner fields are stored.  *)
OwnedWrite(c, s, o) ==
  /\ content' = [content EXCEPT ![c] = s]
  /\ owner' = [owner EXCEPT ![c] = o]

(* Mutation: the trigger that clears the owner is not installed.           *)
UnownedWriteKept(c, s, was) ==
  IF was.status = s THEN UNCHANGED <<content, owner>> ELSE OwnedWrite(c, s, owner[c])

(* A writer that does not leaves no owner if the row's status changes, by  *)
(* the trigger clear_unchanged_content_status_owner, or if its session has *)
(* seen the owner fields set, which it then empties itself.                *)
OwnerLeft(c, s, was) ==
  IF content[c] # s \/ was.owned THEN NoOwner ELSE owner[c]

(* Its session has loaded the row as "was": to assign the status the row   *)
(* had then writes nothing, whatever the row has become since.             *)
UnownedWrite(c, s, was) ==
  IF was.status = s THEN UNCHANGED <<content, owner>>
  ELSE OwnedWrite(c, s, OwnerLeft(c, s, was))

SummariesOf(c) == {s \in summaries : s[1] = c}

SettleJob(j, s) ==
  /\ status' = [status EXCEPT ![j] = s]
  /\ fresh' = [fresh EXCEPT ![j] = TRUE]

(* _retry_locked: back to the queue, with the stop request forgotten.      *)
RequeueJob(j) ==
  /\ gen[j] < MaxClaims
  /\ SettleJob(j, "queued")
  /\ cancelReq' = [cancelReq EXCEPT ![j] = FALSE]
  /\ retries' = [retries EXCEPT ![j] = @ + 1]

HoldsRow(j, g) == status[j] = "in_progress" /\ gen[j] = g

-----------------------------------------------------------------------------
(* The queue, as far as content can tell.                                  *)

Claim(j) ==
  /\ status[j] = "queued"
  /\ gen[j] < MaxClaims
  /\ SettleJob(j, "in_progress")
  /\ gen' = [gen EXCEPT ![j] = @ + 1]
  /\ Goto(j, gen[j] + 1, "claimed")
  /\ UNCHANGED <<content_vars, cancelReq, retries, found, scan, workload>>

Cancel(j) ==
  /\ j \in workload.stopped
  /\ status[j] \in {"queued", "in_progress"}
  /\ ~cancelReq[j]
  /\ cancelReq' = [cancelReq EXCEPT ![j] = TRUE]
  /\ SettleJob(j, IF status[j] = "queued" THEN "cancelled" ELSE "in_progress")
  /\ UNCHANGED <<content_vars, gen, retries, stage, found, scan, workload>>

(* Mutation: the retry does not require that the operation has failed.     *)
RetryUnfailed(j) ==
  /\ status[j] # "in_progress"
  /\ RequeueJob(j)
  /\ UNCHANGED <<content_vars, gen, stage, found, scan, workload>>

(* OperationService.retry, which has no ceiling.                           *)
Retry(j) ==
  /\ status[j] = "failed"
  /\ RequeueJob(j)
  /\ UNCHANGED <<content_vars, gen, stage, found, scan, workload>>

Attended(j) == gen[j] > 0 /\ stage[j][gen[j]] \notin {"none", "over"}

Heartbeat(j) ==
  /\ status[j] = "in_progress"
  /\ Attended(j)
  /\ ~fresh[j]
  /\ fresh' = [fresh EXCEPT ![j] = TRUE]
  /\ UNCHANGED <<content_vars, status, gen, cancelReq, retries, stage, found, scan, workload>>

(* The threshold passes without a heartbeat.  A row whose heartbeat moved  *)
(* after it was scanned does not look as it did again: its heartbeat_at is *)
(* another, so it need not grow stale while the request holds it.          *)
GoStale(j) ==
  /\ status[j] = "in_progress"
  /\ fresh[j]
  /\ \A r \in Runs : scan[r].owner.job # j
  /\ fresh' = [fresh EXCEPT ![j] = FALSE]
  /\ UNCHANGED <<content_vars, status, gen, cancelReq, retries, stage, found, scan, workload>>

(* mark_stale_jobs_failed: the same threshold, and no look at the content. *)
Sweep(j) ==
  /\ status[j] = "in_progress"
  /\ ~fresh[j]
  /\ SettleJob(j, "failed")
  /\ UNCHANGED <<content_vars, gen, cancelReq, retries, stage, found, scan, workload>>

-----------------------------------------------------------------------------
(* One attempt.                                                            *)

(* _process_job up to the handler: a superseded attempt leaves, one that   *)
(* was asked to stop is cancelled.                                         *)
Dispatch(j, g) ==
  LET start == IF j \in Forced /\ Kind[j] = "summary" THEN "prepare"
               ELSE IF Kind[j] = "url" /\ g > 1 THEN "resolve"
               ELSE "acquire"
  IN
  /\ stage[j][g] = "claimed"
  /\ IF HoldsRow(j, g) /\ cancelReq[j]
       THEN SettleJob(j, "cancelled")
       ELSE UNCHANGED <<status, fresh>>
  /\ Goto(j, g, IF HoldsRow(j, g) /\ ~cancelReq[j] THEN start ELSE "over")
  /\ UNCHANGED <<content_vars, gen, cancelReq, retries, found, scan, workload>>

(* _prepare_forced_summary: one transaction of an unlocked read, a delete  *)
(* and a reset, which checks no claim and takes no content lock.           *)
PrepareRead(j, g) ==
  LET c == ContentOf[j] IN
  /\ stage[j][g] = "prepare"
  /\ found' = [found EXCEPT ![j][g] =
                [Unread EXCEPT !.status = content[c], !.owned = owner[c] # NoOwner]]
  /\ Goto(j, g, "delete")
  /\ UNCHANGED <<content_vars, job_vars, scan, workload>>

(* The DELETE takes the summaries committed by now, and waits for another  *)
(* preparation that has locked one of them.  (One that dies rolls back and *)
(* is as if it had died before its DELETE.)                                *)
PrepareDelete(j, g) ==
  LET c == ContentOf[j] IN
  /\ stage[j][g] = "delete"
  /\ \A k \in Jobs, h \in 1..MaxClaims :
       stage[k][h] = "reset" => found[k][h].deleted \cap SummariesOf(c) = {}
  /\ found' = [found EXCEPT ![j][g].deleted = SummariesOf(c)]
  /\ Goto(j, g, "reset")
  /\ UNCHANGED <<content_vars, job_vars, scan, workload>>

(* Mutation: the summaries are deleted and the status is left as it is.    *)
PrepareDeleteOnly(j, g) ==
  /\ stage[j][g] = "reset"
  /\ summaries' = summaries \ found[j][g].deleted
  /\ Goto(j, g, "acquire")
  /\ UNCHANGED <<content, owner, direct, job_vars, found, scan, workload>>

(* The flush and commit, on the row as it was read.                        *)
PrepareReset(j, g) ==
  LET c == ContentOf[j] IN
  /\ stage[j][g] = "reset"
  /\ summaries' = summaries \ found[j][g].deleted
  /\ UnownedWrite(c, "parsed", found[j][g])
  /\ Goto(j, g, "acquire")
  /\ UNCHANGED <<direct, job_vars, found, scan, workload>>

(* resolve_owned_url_resume_content: a retried URL operation must find the *)
(* one row it owns, else the handler fails.                                *)
ResolveOwned(j, g) ==
  LET c == ContentOf[j] IN
  /\ stage[j][g] = "resolve"
  /\ Goto(j, g, IF /\ owner[c].job = j /\ owner[c].phase = "parsing"
                   /\ content[c] \in {"parsing", "failed"}
                  THEN "acquire" ELSE "failing")
  /\ UNCHANGED <<content_vars, job_vars, found, scan, workload>>

(* Every transaction of an attempt takes the content lock and validates    *)
(* the locked job row first: a lost claim drops the work, a stop request   *)
(* ends it as cancelled.                                                   *)
Refused(j, g) ==
  /\ ~HoldsRow(j, g) \/ cancelReq[j]
  /\ Goto(j, g, IF HoldsRow(j, g) THEN "cancelling" ELSE "over")
  /\ UNCHANGED content_vars

(* Mutation: a row nobody owns may be acquired whatever its status.        *)
InitialOwnerAnyStatus(j) == owner[ContentOf[j]] = NoOwner

(* acquire_content_execution: from the predecessor when nobody owns the    *)
(* row, or from an earlier generation of the same operation and phase that *)
(* left it failed (URL resumption: also transitional).                     *)
InitialOwner(j) ==
  LET c == ContentOf[j] IN
  content[c] = Before(PhaseOf(j)) /\ owner[c] = NoOwner

RenewedOwner(j, g) ==
  LET c == ContentOf[j] IN
  /\ \/ content[c] = "failed"
     \/ Kind[j] = "url" /\ g > 1 /\ content[c] = PhaseOf(j)
  /\ owner[c].job = j
  /\ owner[c].phase = PhaseOf(j)
  /\ owner[c].gen < g

Acquire(j, g) ==
  LET c == ContentOf[j]
      mine == [job |-> j, gen |-> g, phase |-> PhaseOf(j)]
  IN
  /\ stage[j][g] = "acquire"
  /\ \/ Refused(j, g)
     \/ /\ HoldsRow(j, g) /\ ~cancelReq[j]
        /\ InitialOwner(j) \/ RenewedOwner(j, g)
        /\ OwnedWrite(c, PhaseOf(j), mine)
        /\ Goto(j, g, "working")
        /\ UNCHANGED <<summaries, direct>>
     \/ /\ HoldsRow(j, g) /\ ~cancelReq[j]
        /\ ~InitialOwner(j) /\ ~RenewedOwner(j, g)
        /\ Goto(j, g, "over")
        /\ UNCHANGED content_vars
  /\ UNCHANGED <<job_vars, found, scan, workload>>

(* guard_content_execution: the owner fields are exactly this attempt's.   *)
OwnsContent(j, g) ==
  owner[ContentOf[j]] = [job |-> j, gen |-> g, phase |-> PhaseOf(j)]

(* Mutation: the output is committed before the phase transition.          *)
CommitOutputFirst(j, g) ==
  LET c == ContentOf[j] IN
  /\ stage[j][g] = "working"
  /\ \/ Refused(j, g)
     \/ /\ HoldsRow(j, g) /\ ~cancelReq[j] /\ OwnsContent(j, g)
        /\ <<c, j, g>> \notin summaries
        /\ summaries' = summaries \cup {<<c, j, g>>}
        /\ UNCHANGED <<content, owner, direct, stage>>
     \/ /\ HoldsRow(j, g) /\ ~cancelReq[j] /\ OwnsContent(j, g)
        /\ <<c, j, g>> \in summaries
        /\ OwnedWrite(c, After(PhaseOf(j)), NoOwner)
        /\ Goto(j, g, "completing")
        /\ UNCHANGED <<summaries, direct>>
  /\ UNCHANGED <<job_vars, found, scan, workload>>

(* The final transaction: the output and the phase transition together.    *)
CommitOutput(j, g) ==
  LET c == ContentOf[j] IN
  /\ stage[j][g] = "working"
  /\ \/ Refused(j, g)
     \/ /\ HoldsRow(j, g) /\ ~cancelReq[j] /\ ~OwnsContent(j, g)
        /\ Goto(j, g, "over")
        /\ UNCHANGED content_vars
     \/ /\ HoldsRow(j, g) /\ ~cancelReq[j] /\ OwnsContent(j, g)
        /\ OwnedWrite(c, After(PhaseOf(j)), NoOwner)
        /\ summaries' = IF PhaseOf(j) = "processing"
                          THEN summaries \cup {<<c, j, g>>} ELSE summaries
        /\ Goto(j, g, "completing")
        /\ UNCHANGED direct
  /\ UNCHANGED <<job_vars, found, scan, workload>>

(* The computation failed: the row is failed and stays owned.  Only the    *)
(* process_content handler ignores what the summarizer reports.            *)
CommitFailure(j, g) ==
  LET c == ContentOf[j] IN
  /\ stage[j][g] = "working"
  /\ \/ Refused(j, g)
     \/ /\ HoldsRow(j, g) /\ ~cancelReq[j] /\ ~OwnsContent(j, g)
        /\ Goto(j, g, "over")
        /\ UNCHANGED content_vars
     \/ /\ HoldsRow(j, g) /\ ~cancelReq[j] /\ OwnsContent(j, g)
        /\ OwnedWrite(c, "failed", owner[c])
        /\ Goto(j, g, IF Kind[j] = "process" THEN "completing" ELSE "failing")
        /\ UNCHANGED <<summaries, direct>>
  /\ UNCHANGED <<job_vars, found, scan, workload>>

(* _finalize_attempt_transition, a later transaction on the job row.       *)
Finish(j, g) ==
  LET target == IF cancelReq[j] THEN "cancelled"
                ELSE IF stage[j][g] = "completing" THEN "completed"
                ELSE "failed"
  IN
  /\ stage[j][g] \in {"completing", "failing", "cancelling"}
  /\ IF HoldsRow(j, g) THEN SettleJob(j, target) ELSE UNCHANGED <<status, fresh>>
  /\ Goto(j, g, "over")
  /\ UNCHANGED <<content_vars, gen, cancelReq, retries, found, scan, workload>>

-----------------------------------------------------------------------------
(* Callers without a claim: the direct summarizer and URL extractor, one   *)
(* call on a row at a time.  Each writes through the row as it loaded it.  *)

CallGoes(c, at, was, owned) ==
  direct' = [direct EXCEPT ![c] = [@ EXCEPT !.at = at, !.status = was, !.owned = owned]]

DirectRead(c, phase) ==
  /\ phase \in workload.direct
  /\ direct[c] = NoCall
  /\ direct' = [direct EXCEPT ![c] =
                 [at |-> IF phase = "parsing" THEN "starting" ELSE "looking",
                  phase |-> phase, status |-> content[c], owned |-> owner[c] # NoOwner]]
  /\ UNCHANGED <<content, owner, summaries, job_vars, stage, found, scan, workload>>

(* The summarizer leaves content that has a summary alone, but for         *)
(* summarize_contents, which takes it for completed.                       *)
DirectLook(c) ==
  /\ direct[c].at = "looking"
  /\ \/ SummariesOf(c) = {} /\ direct' = [direct EXCEPT ![c].at = "starting"]
     \/ SummariesOf(c) # {} /\ direct' = [direct EXCEPT ![c] = NoCall]
     \/ /\ SummariesOf(c) # {} /\ direct[c].status # "completed"
        /\ direct' = [direct EXCEPT ![c].at = "noting"]
  /\ UNCHANGED <<content, owner, summaries, job_vars, stage, found, scan, workload>>

DirectNote(c) ==
  /\ direct[c].at = "noting"
  /\ UnownedWrite(c, "completed", direct[c])
  /\ direct' = [direct EXCEPT ![c] = NoCall]
  /\ UNCHANGED <<summaries, job_vars, stage, found, scan, workload>>

DirectStart(c) ==
  LET phase == direct[c].phase IN
  /\ direct[c].at = "starting"
  /\ UnownedWrite(c, phase, direct[c])
  /\ CallGoes(c, "computing", phase, direct[c].owned /\ direct[c].status = phase)
  /\ UNCHANGED <<summaries, job_vars, stage, found, scan, workload>>

(* An exception rolls the session back: the row is loaded anew, its status *)
(* only where the extractor queries it again.                              *)
DirectReread(c) ==
  /\ direct[c].at = "computing"
  /\ CallGoes(c, "failing",
              IF direct[c].phase = "parsing" THEN content[c] ELSE direct[c].status,
              owner[c] # NoOwner)
  /\ UNCHANGED <<content, owner, summaries, job_vars, stage, found, scan, workload>>

DirectEnd(c, s) ==
  /\ \/ direct[c].at = "computing" /\ s = After(direct[c].phase)
     \/ direct[c].at = "computing" /\ direct[c].phase = "processing" /\ s = "failed"
     \/ direct[c].at = "failing" /\ s = "failed"
  /\ UnownedWrite(c, s, direct[c])
  /\ summaries' = IF s = "completed" THEN summaries \cup {<<c, NoJob, 0>>}
                  ELSE summaries
  /\ direct' = [direct EXCEPT ![c] = NoCall]
  /\ UNCHANGED <<job_vars, stage, found, scan, workload>>

-----------------------------------------------------------------------------
(* Reconciliation.                                                         *)

Stuck == Transitional \cup {"failed"}

(* _has_exact_owner.                                                       *)
ExactOwner(c) ==
  /\ owner[c] # NoOwner
  /\ owner[c].gen = gen[owner[c].job]
  /\ content[c] \in {"failed", owner[c].phase}

Budgeted(j) == retries[j] < MaxRetries

(* Mutation: a running operation is taken for stale.                       *)
DecideRunningAlways(j) ==
  IF cancelReq[j] THEN "cancel"
  ELSE IF j \in Forced \/ ~Budgeted(j) THEN "none"
  ELSE "reclaim"

(* _classify_in_progress.                                                  *)
DecideRunning(j) ==
  IF fresh[j] THEN "none"
  ELSE IF cancelReq[j] THEN "cancel"
  ELSE IF j \in Forced \/ ~Budgeted(j) THEN "none"
  ELSE "reclaim"

(* classify, for an owner that is neither queued nor in progress.          *)
DecideSettled(c, j) ==
  LET g == owner[c].gen
      produced == <<c, j, g>> \in summaries
      others == SummariesOf(c) \ {<<c, j, g>>} # {}
  IN
  IF cancelReq[j] THEN "cancel"
  ELSE IF j \in Forced /\ status[j] # "completed" THEN "none"
  ELSE IF others /\ ~produced THEN "none"
  ELSE IF owner[c].phase = "processing" /\ produced THEN "project"
  ELSE IF status[j] = "completed"
    THEN IF content[c] = "parsing" /\ Kind[j] = "url" THEN "project" ELSE "none"
  ELSE IF status[j] = "failed"
    THEN IF Budgeted(j) THEN "retry" ELSE "none"
  ELSE "restore"

Decision(c) ==
  LET j == owner[c].job IN
  IF ~ExactOwner(c) \/ status[j] = "queued" THEN "none"
  ELSE IF status[j] = "in_progress" THEN DecideRunning(j)
  ELSE DecideSettled(c, j)

(* reconcile scans one page; a row whose decision is "none" is reported    *)
(* and left, any other is taken to _apply_one.                             *)
Scan(r, c) ==
  /\ r \in workload.runs
  /\ scan[r] = NoScan
  /\ content[c] \in Stuck
  /\ Decision(c) # "none"
  /\ scan' = [scan EXCEPT ![r] = Evidence(c)]
  /\ UNCHANGED <<content_vars, job_vars, stage, found, workload>>

(* _project_output and _restore_predecessor.                               *)
Release(c, decision) ==
  LET phase == owner[c].phase IN
  OwnedWrite(c, IF decision = "project" THEN After(phase) ELSE Before(phase),
             NoOwner)

(* Mutation: the operation of a restored row is not cancelled with it.     *)
RepairKeepsClaim(c) ==
  LET j == owner[c].job
      decision == Decision(c)
  IN
  \/ /\ decision \in {"reclaim", "retry"}
     /\ RequeueJob(j)
     /\ IF decision = "reclaim" THEN OwnedWrite(c, "failed", owner[c])
        ELSE UNCHANGED <<content, owner>>
  \/ /\ decision \in {"restore", "cancel", "project"}
     /\ Release(c, decision)
     /\ UNCHANGED <<status, fresh, cancelReq, retries>>

(* _mutate.  A stale claim leaves its row failed, the one status its next  *)
(* generation may renew; a failed claim leaves the row as it is.           *)
Repair(c) ==
  LET j == owner[c].job
      decision == Decision(c)
  IN
  \/ /\ decision \in {"reclaim", "retry"}
     /\ RequeueJob(j)
     /\ IF decision = "reclaim" THEN OwnedWrite(c, "failed", owner[c])
        ELSE UNCHANGED <<content, owner>>
  \/ /\ decision \in {"restore", "cancel", "project"}
     /\ Release(c, decision)
     /\ IF decision = "cancel" /\ status[j] = "in_progress"
          THEN SettleJob(j, "cancelled")
          ELSE UNCHANGED <<status, fresh>>
     /\ UNCHANGED <<cancelReq, retries>>

(* _apply_one, one transaction under the content lock, the graph lock and  *)
(* the row locks: the row is repaired if it still shows what was scanned.  *)
Apply(r) ==
  /\ scan[r] # NoScan
  /\ scan[r] = Evidence(scan[r].content)
  /\ Repair(scan[r].content)
  /\ scan' = [scan EXCEPT ![r] = NoScan]
  /\ UNCHANGED <<summaries, direct, gen, stage, found, workload>>

(* The content lock is contended, the evidence changed, or the transaction *)
(* failed and rolled back: nothing happens to the row.                     *)
Skip(r) ==
  /\ scan[r] # NoScan
  /\ scan' = [scan EXCEPT ![r] = NoScan]
  /\ UNCHANGED <<content_vars, job_vars, stage, found, workload>>

-----------------------------------------------------------------------------
AttemptStep(j, g) ==
  \/ Dispatch(j, g)
  \/ PrepareRead(j, g)
  \/ PrepareDelete(j, g)
  \/ PrepareReset(j, g)
  \/ ResolveOwned(j, g)
  \/ Acquire(j, g)
  \/ CommitOutput(j, g)
  \/ CommitFailure(j, g)
  \/ Finish(j, g)

Next ==
  \/ \E j \in Jobs : Claim(j)
  \/ \E j \in Jobs : Cancel(j)
  \/ \E j \in Jobs : Retry(j)
  \/ \E j \in Jobs : Heartbeat(j)
  \/ \E j \in Jobs : GoStale(j)
  \/ \E j \in Jobs : Sweep(j)
  \/ \E j \in Jobs : \E g \in 1..MaxClaims : AttemptStep(j, g)
  \/ \E c \in Contents : \E phase \in Transitional : DirectRead(c, phase)
  \/ \E c \in Contents : DirectLook(c)
  \/ \E c \in Contents : DirectNote(c)
  \/ \E c \in Contents : DirectStart(c)
  \/ \E c \in Contents : DirectReread(c)
  \/ \E c \in Contents : \E s \in ContentStatus : DirectEnd(c, s)
  \/ \E r \in Runs : \E c \in Contents : Scan(r, c)
  \/ \E r \in Runs : Apply(r)
  \/ \E r \in Runs : Skip(r)

Spec == Init /\ [][Next]_vars

-----------------------------------------------------------------------------
(* Properties.                                                             *)

(* A forced preparation and a caller without a claim write content without *)
(* looking at its owner: where either is at work only the properties that  *)
(* do not ask for this are promised.                                       *)
EveryWriterIsFenced == workload.direct = {} /\ Forced = {}

(* ck_contents_status_owner_complete: whoever writes the row, with a claim *)
(* or without one, an owner stands only beside its own phase or a failure, *)
(* so no writer's transaction is ever rejected by the constraint.          *)
OwnerMatchesStatus ==
  \A c \in Contents :
    owner[c] # NoOwner =>
      owner[c].gen > 0 /\ content[c] \in {owner[c].phase, "failed"}

(* Summaries, status and the release of ownership commit together: an      *)
(* attempt whose summary is stored owns nothing any more, so that no       *)
(* reconciliation ever finds an output of the owner to project.            *)
OutputEndsOwnership ==
  \A c \in Contents :
    owner[c] # NoOwner => <<c, owner[c].job, owner[c].gen>> \notin summaries

(* A forced preparation that has deleted summaries and not written the     *)
(* status: it had read the row as parsed, before they were stored.  Beside *)
(* callers without a claim its own write may also be undone: a summarizer  *)
(* that saw the summaries notes the row as completed.                      *)
DeletedBehind(c) ==
  \E j \in Forced : \E g \in 1..MaxClaims :
    /\ ContentOf[j] = c
    /\ stage[j][g] # "reset"
    /\ found[j][g].deleted # {}
    /\ found[j][g].status = "parsed" \/ workload.direct # {}

(* Completed content has a summary to show.  The code breaks this when a   *)
(* forced preparation stalls between its read and its delete, and then only*)
(* (DeletedBehind): no commit, reconciliation, retry or reset of an attempt*)
(* whose reading was in time takes the last summary of completed content.  *)
CompletedHasOutput ==
  \A c \in Contents :
    content[c] = "completed" => SummariesOf(c) # {} \/ DeletedBehind(c)

(* However operations compete for a row, lose claims, are retried and      *)
(* reclaimed, its content is summarized once.                              *)
OneSummaryPerContent ==
  EveryWriterIsFenced =>
    \A c \in Contents : Cardinality(SummariesOf(c)) <= 1

(* A row whose owner is queued, or runs with a fresh heartbeat under the   *)
(* claim that owns it, is changed by nobody but that attempt.              *)
ActiveOwnerIsUndisturbed ==
  [][EveryWriterIsFenced => \A c \in Contents :
       LET o == owner[c] IN
       (/\ o # NoOwner
        /\ o.gen = gen[o.job]
        /\ status[o.job] = "queued" \/ (status[o.job] = "in_progress" /\ fresh[o.job])
        /\ content'[c] # content[c] \/ owner'[c] # o)
         => stage'[o.job][o.gen] # stage[o.job][o.gen]]_vars

(* A row goes back to where another operation may take it only when the    *)
(* claim that owned it is over.                                            *)
ReturnedContentIsFree ==
  [][EveryWriterIsFenced => \A c \in Contents :
       LET o == owner[c] IN
       (o # NoOwner /\ owner'[c] = NoOwner /\ content'[c] = Before(o.phase))
         => ~(status'[o.job] = "in_progress" /\ gen'[o.job] = o.gen)]_vars

(* Concurrent reconciliations and client retries of one failure count and  *)
(* requeue it once: every retry is preceded by a claim of its own.         *)
RetriesFollowClaims == \A j \in Jobs : retries[j] <= gen[j]

-----------------------------------------------------------------------------
(* What the documents say and the code does otherwise.                     *)

(* A guarded same-operation acquisition rolls ownership from a failed      *)
(* claim to its retry generation.                                          *)
RetryRenewsOwnership ==
  [][\A j \in Jobs : \A g \in 1..MaxClaims :
       (/\ stage[j][g] = "acquire" /\ stage'[j][g] = "over"
        /\ HoldsRow(j, g)
        /\ owner[ContentOf[j]].job = j
        /\ owner[ContentOf[j]].gen < g)
         => owner'[ContentOf[j]].gen = g]_vars

=============================================================================
