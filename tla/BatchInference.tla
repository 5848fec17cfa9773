---------------------------- MODULE BatchInference ----------------------------
(***************************************************************************)
(* Deferred inference requests of one (step, model) group.  Callers leave  *)
(* requests in a table; the worker process that wins an advisory lock      *)
(* submits them to the provider in batches, polls the provider's jobs, and *)
(* redoes synchronously what a batch did not answer.  Each of these calls  *)
(* leaves the process between two transactions, so a maintainer may die    *)
(* with the provider's handle, an answer or an attempt in hand.            *)
(*                                                                         *)
(* A maintainer works on objects its session loaded, which no commit       *)
(* refreshes (expire_on_commit is off): what it read before a call is what *)
(* it decides on and overwrites after it.                                  *)
(***************************************************************************)
EXTENDS Naturals, FiniteSets

CONSTANTS
  Requests,      \* rows of batch_requests; one is reused when done with
  Target,        \* [Requests -> contents]: what a row is about
  Maintainers,   \* worker processes
  MaxJobs,       \* bound: rows of batch_jobs in use at a time
  BatchSize,     \* flush_max_requests
  Limit,         \* fallback_max_attempts
  MaxCrashes,    \* bound: maintenance cycles that die or raise
  None

ASSUME BatchAssumption ==
  /\ MaxJobs \in Nat /\ BatchSize \in Nat \ {0} /\ Limit \in Nat \ {0}
  /\ MaxCrashes \in Nat
  /\ None \notin Maintainers /\ None \notin Requests

VARIABLES
  req,      \* [Requests -> Row]: the table batch_requests
  older,    \* [Requests -> SUBSET Requests]: rows created before a row
  job,      \* [Jobs -> JobStates]: the table batch_jobs
  overdue,  \* jobs submitting since more than the submission grace
  provider, \* [Jobs -> Batch]: the batch the provider runs for a job
  lock,     \* who holds the batch maintenance advisory lock
  work,     \* [Maintainers -> Work]: where a maintainer is, what it holds
  crashes,  \* cycles that have died so far
  applied,  \* [Requests -> Nat]: times a row's result was written (history)
  calls     \* [Requests -> Nat]: fallback calls made for a row (history)

vars == <<req, older, job, overdue, provider, lock, work, crashes, applied, calls>>

Jobs      == 1..MaxJobs
NoJob     == 0
Active    == {"pending", "claimed", "submitted", "fallback"}
Answered  == {"succeeded", "failed"}
Statuses  == {"none"} \cup Active \cup Answered
(* "open" is pending or running: polled alike.  A job that succeeded or    *)
(* that failed, was cancelled or expired is closed.                        *)
JobStates == {"none", "submitting", "open", "closed"}
Outcomes  == {"accepted", "permanent", "transient"}

Row   == [status: Statuses, job: Jobs \cup {NoJob}, tries: 0..Limit]
Batch == [state: {"none", "running", "succeeded", "failed"},
          keys: SUBSET Requests, answers: SUBSET Requests]
NoBatch == [state |-> "none", keys |-> {}, answers |-> {}]

(* Where a maintenance cycle is.  rows: those in hand; jobs: still to poll;*)
(* current: the row being redone; seen: the attempts when rows was read.   *)
Places == {"idle", "recover", "submit", "sending", "sent", "poll", "asking",
           "fallback", "redoing"}
Work == [at: Places, job: Jobs \cup {NoJob}, rows: SUBSET Requests,
         jobs: SUBSET Jobs, outcome: Outcomes \cup {None},
         current: Requests \cup {None}, seen: [Requests -> 0..Limit]]

At(place) ==
  [at |-> place, job |-> NoJob, rows |-> {}, jobs |-> {}, outcome |-> None,
   current |-> None, seen |-> [r \in Requests |-> 0]]

TypeOK ==
  /\ req \in [Requests -> Row]
  /\ older \in [Requests -> SUBSET Requests]
  /\ job \in [Jobs -> JobStates]
  /\ overdue \subseteq Jobs
  /\ provider \in [Jobs -> Batch]
  /\ lock \in Maintainers \cup {None}
  /\ work \in [Maintainers -> Work]
  /\ crashes \in 0..MaxCrashes
  /\ applied \in [Requests -> Nat]
  /\ calls \in [Requests -> Nat]

Init ==
  /\ req = [r \in Requests |-> [status |-> "none", job |-> NoJob, tries |-> 0]]
  /\ older = [r \in Requests |-> {}]
  /\ job = [j \in Jobs |-> "none"]
  /\ overdue = {}
  /\ provider = [j \in Jobs |-> NoBatch]
  /\ lock = None
  /\ work = [m \in Maintainers |-> At("idle")]
  /\ crashes = 0
  /\ applied = [r \in Requests |-> 0]
  /\ calls = [r \in Requests |-> 0]

-----------------------------------------------------------------------------
(* The tables.                                                             *)

With(status) == {r \in Requests : req[r].status = status}
RowsOf(j, status) == {r \in With(status) : req[r].job = j}

(* Nobody asks the provider about a closed job again.                      *)
Close(js) ==
  /\ job' = [j \in Jobs |-> IF j \in js THEN "closed" ELSE job[j]]
  /\ overdue' = overdue \ js
  /\ provider' = [j \in Jobs |-> IF j \in js THEN NoBatch ELSE provider[j]]

(* A row, a job that nothing refers to any more may stand for a new one.   *)
RowIsFree(r) ==
  /\ req[r].status \notin Active
  /\ \A m \in Maintainers : r \notin work[m].rows /\ r # work[m].current
  /\ \A j \in Jobs : job[j] = "open" => r \notin provider[j].keys
JobIsFree(j) ==
  /\ job[j] \in {"none", "closed"}
  /\ \A r \in Requests : req[r].job = j => req[r].status \notin {"claimed", "submitted"}
  /\ \A m \in Maintainers : work[m].job # j /\ j \notin work[m].jobs

(* BatchCollector.enqueue: reuse the target's active row or insert one.    *)
Enqueue(r) ==
  /\ RowIsFree(r)
  /\ \A q \in Requests : req[q].status \in Active => Target[q] # Target[r]
  /\ req' = [req EXCEPT ![r] = [status |-> "pending", job |-> NoJob, tries |-> 0]]
  /\ older' = [q \in Requests |-> IF q = r THEN Requests \ {r} ELSE older[q] \ {r}]
  /\ applied' = [applied EXCEPT ![r] = 0]
  /\ calls' = [calls EXCEPT ![r] = 0]
  /\ UNCHANGED <<job, overdue, provider, lock, work, crashes>>

-----------------------------------------------------------------------------
(* The maintenance cycle: election, and recovery of what a maintainer that *)
(* died during a submission had claimed.                                   *)

(* _run_batch_maintenance_tick, up to the lock.                            *)
Elect(m) ==
  /\ work[m].at = "idle"
  /\ lock = None
  /\ lock' = m
  /\ work' = [work EXCEPT ![m] = At("recover")]
  /\ UNCHANGED <<req, older, job, overdue, provider, crashes, applied, calls>>

(* Mutation: the job is failed, its rows are not released.                 *)
RecoverJobsOnly(m) ==
  /\ work[m].at = "recover"
  /\ Close({j \in Jobs : job[j] = "submitting" /\ j \in overdue})
  /\ work' = [work EXCEPT ![m] = At("submit")]
  /\ UNCHANGED <<req, older, lock, crashes, applied, calls>>

(* _recover_interrupted_submissions.                                       *)
Recover(m) ==
  LET interrupted == {j \in Jobs : job[j] = "submitting" /\ j \in overdue} IN
  /\ work[m].at = "recover"
  /\ req' = [r \in Requests |->
       IF req[r].status = "claimed" /\ req[r].job \in interrupted
         THEN [status |-> "pending", job |-> NoJob, tries |-> req[r].tries]
         ELSE req[r]]
  /\ Close(interrupted)
  /\ work' = [work EXCEPT ![m] = At("submit")]
  /\ UNCHANGED <<older, lock, crashes, applied, calls>>

-----------------------------------------------------------------------------
(* Submission.                                                             *)

(* The group's oldest pending rows.                                        *)
Oldest ==
  {r \in With("pending") : Cardinality(older[r] \cap With("pending")) < BatchSize}

(* A group below the count threshold is held until its oldest row is old   *)
(* enough, which happens at a time of its own; an empty one is not seen.   *)
Hold(m) ==
  /\ work[m].at = "submit"
  /\ Cardinality(With("pending")) < BatchSize
  /\ work' = [work EXCEPT ![m] = [At("poll") EXCEPT !.jobs = {j \in Jobs : job[j] = "open"}]]
  /\ UNCHANGED <<req, older, job, overdue, provider, lock, crashes, applied, calls>>

(* The claim is committed before the provider is called.                   *)
Claim(m, j) ==
  /\ work[m].at = "submit"
  /\ With("pending") # {}
  /\ JobIsFree(j)
  /\ \A k \in Jobs : k < j => ~JobIsFree(k)
  /\ req' = [r \in Requests |->
       IF r \in Oldest THEN [status |-> "claimed", job |-> j, tries |-> req[r].tries]
       ELSE req[r]]
  /\ job' = [job EXCEPT ![j] = "submitting"]
  /\ work' = [work EXCEPT ![m] = [At("sending") EXCEPT !.job = j, !.rows = Oldest]]
  /\ UNCHANGED <<older, overdue, provider, lock, crashes, applied, calls>>

(* LLMRouter.submit_batch.  A request the router rejects never reaches the *)
(* provider; one that fails otherwise may have.                            *)
Send(m, outcome, reached) ==
  LET j == work[m].job IN
  /\ work[m].at = "sending"
  /\ outcome = "accepted" => reached
  /\ outcome = "permanent" => ~reached
  /\ provider' = IF reached
       THEN [provider EXCEPT ![j] =
               [state |-> "running", keys |-> work[m].rows, answers |-> {}]]
       ELSE provider
  /\ work' = [work EXCEPT ![m].at = "sent", ![m].outcome = outcome]
  /\ UNCHANGED <<req, older, job, overdue, lock, crashes, applied, calls>>

(* The jobs the poll of the same cycle finds, once j has its new state.    *)
Polls(j, state) == {k \in Jobs : IF k = j THEN state = "open" ELSE job[k] = "open"}

(* The provider's handle is stored and the rows in hand are submitted.     *)
StoreHandle(m) ==
  LET j == work[m].job IN
  /\ work[m].at = "sent" /\ work[m].outcome = "accepted"
  /\ req' = [r \in Requests |->
       IF r \in work[m].rows THEN [req[r] EXCEPT !.status = "submitted"] ELSE req[r]]
  /\ job' = [job EXCEPT ![j] = "open"]
  /\ overdue' = overdue \ {j}
  /\ work' = [work EXCEPT ![m] = [At("poll") EXCEPT !.jobs = Polls(j, "open")]]
  /\ UNCHANGED <<older, provider, lock, crashes, applied, calls>>

(* The submission failed: for good, or until the next cycle.               *)
StoreFailure(m) ==
  LET j == work[m].job IN
  /\ work[m].at = "sent" /\ work[m].outcome \in {"permanent", "transient"}
  /\ req' = [r \in Requests |->
       IF r \notin work[m].rows THEN req[r]
       ELSE IF work[m].outcome = "permanent" THEN [req[r] EXCEPT !.status = "fallback"]
       ELSE [req[r] EXCEPT !.status = "pending", !.job = NoJob]]
  /\ Close({j})
  /\ work' = [work EXCEPT ![m] = [At("poll") EXCEPT !.jobs = Polls(j, "closed")]]
  /\ UNCHANGED <<older, lock, crashes, applied, calls>>

-----------------------------------------------------------------------------
(* The poll.                                                               *)

(* The rows still submitted are read, then the provider is asked.          *)
Ask(m, j) ==
  /\ work[m].at = "poll" /\ j \in work[m].jobs
  /\ work' = [work EXCEPT ![m].at = "asking", ![m].job = j,
                          ![m].rows = RowsOf(j, "submitted")]
  /\ UNCHANGED <<req, older, job, overdue, provider, lock, crashes, applied, calls>>

NextPoll(m) ==
  [At("poll") EXCEPT !.jobs = work[m].jobs \ {work[m].job}]

(* The provider does not answer, or its batch is not done yet.             *)
AskAgain(m) ==
  /\ work[m].at = "asking"
  /\ work' = [work EXCEPT ![m] = NextPoll(m)]
  /\ UNCHANGED <<req, older, job, overdue, provider, lock, crashes, applied, calls>>

(* Mutation: a handler that fails leaves what it wrote.                    *)
ReconcileWithoutSavepoint(m, done) ==
  LET j == work[m].job IN
  /\ work[m].at = "asking" /\ provider[j].state = "succeeded"
  /\ done \subseteq work[m].rows \cap provider[j].answers
  /\ req' = [r \in Requests |->
       IF r \in done THEN [req[r] EXCEPT !.status = "succeeded"]
       ELSE IF r \in work[m].rows THEN [req[r] EXCEPT !.status = "fallback"]
       ELSE req[r]]
  /\ applied' = [r \in Requests |->
       applied[r] + IF r \in work[m].rows \cap provider[j].answers THEN 1 ELSE 0]
  /\ Close({j})
  /\ work' = [work EXCEPT ![m] = NextPoll(m)]
  /\ UNCHANGED <<older, lock, crashes, calls>>

(* The batch succeeded.  Answers that a handler applies (done) are written *)
(* with their rows; rows without one, and rows whose handler fails or is   *)
(* not registered, fall back.                                              *)
Reconcile(m, done) ==
  LET j == work[m].job IN
  /\ work[m].at = "asking" /\ provider[j].state = "succeeded"
  /\ done \subseteq work[m].rows \cap provider[j].answers
  /\ req' = [r \in Requests |->
       IF r \in done THEN [req[r] EXCEPT !.status = "succeeded"]
       ELSE IF r \in work[m].rows THEN [req[r] EXCEPT !.status = "fallback"]
       ELSE req[r]]
  /\ applied' = [r \in Requests |-> applied[r] + IF r \in done THEN 1 ELSE 0]
  /\ Close({j})
  /\ work' = [work EXCEPT ![m] = NextPoll(m)]
  /\ UNCHANGED <<older, lock, crashes, calls>>

(* The batch failed, was cancelled or expired: all its rows fall back.     *)
GiveUpBatch(m) ==
  LET j == work[m].job IN
  /\ work[m].at = "asking" /\ provider[j].state = "failed"
  /\ req' = [r \in Requests |->
       IF r \in work[m].rows THEN [req[r] EXCEPT !.status = "fallback"] ELSE req[r]]
  /\ Close({j})
  /\ work' = [work EXCEPT ![m] = NextPoll(m)]
  /\ UNCHANGED <<older, lock, crashes, applied, calls>>

-----------------------------------------------------------------------------
(* The synchronous fallback.                                               *)

(* The rows are selected when every job has been polled.  Their locks end  *)
(* with the first commit, before the first call.                           *)
SelectFallbacks(m) ==
  /\ work[m].at = "poll" /\ work[m].jobs = {}
  /\ work' = [work EXCEPT ![m] =
       [At("fallback") EXCEPT !.rows = With("fallback"),
                              !.seen = [r \in Requests |-> req[r].tries]]]
  /\ UNCHANGED <<req, older, job, overdue, provider, lock, crashes, applied, calls>>

(* Mutation: a row without attempts left is passed over.                   *)
ExhaustNever(m, r) ==
  /\ work[m].at = "fallback" /\ r \in work[m].rows
  /\ work[m].seen[r] >= Limit
  /\ work' = [work EXCEPT ![m].rows = @ \ {r}]
  /\ UNCHANGED <<req, older, job, overdue, provider, lock, crashes, applied, calls>>

(* No attempt is left: the row fails.                                      *)
Exhaust(m, r) ==
  /\ work[m].at = "fallback" /\ r \in work[m].rows
  /\ work[m].seen[r] >= Limit
  /\ req' = [req EXCEPT ![r].status = "failed"]
  /\ work' = [work EXCEPT ![m].rows = @ \ {r}]
  /\ UNCHANGED <<older, job, overdue, provider, lock, crashes, applied, calls>>

(* Mutation: the attempt is counted with its result, not before the call.  *)
AttemptUncounted(m, r) ==
  /\ work[m].at = "fallback" /\ r \in work[m].rows
  /\ work[m].seen[r] < Limit
  /\ calls' = [calls EXCEPT ![r] = @ + 1]
  /\ work' = [work EXCEPT ![m].at = "redoing", ![m].rows = @ \ {r}, ![m].current = r]
  /\ UNCHANGED <<req, older, job, overdue, provider, lock, crashes, applied>>

(* Mutation: nobody looks whether an attempt is left.                      *)
AttemptUnlimited(m, r) ==
  /\ work[m].at = "fallback" /\ r \in work[m].rows
  /\ req' = [req EXCEPT ![r].tries = work[m].seen[r] + 1]
  /\ calls' = [calls EXCEPT ![r] = @ + 1]
  /\ work' = [work EXCEPT ![m].at = "redoing", ![m].rows = @ \ {r}, ![m].current = r]
  /\ UNCHANGED <<older, job, overdue, provider, lock, crashes, applied>>

(* The attempt is committed, then the call is made.                        *)
Attempt(m, r) ==
  /\ work[m].at = "fallback" /\ r \in work[m].rows
  /\ work[m].seen[r] < Limit
  /\ req' = [req EXCEPT ![r].tries = work[m].seen[r] + 1]
  /\ calls' = [calls EXCEPT ![r] = @ + 1]
  /\ work' = [work EXCEPT ![m].at = "redoing", ![m].rows = @ \ {r}, ![m].current = r]
  /\ UNCHANGED <<older, job, overdue, provider, lock, crashes, applied>>

(* The call and the handler return, or one of them raises.                 *)
Redone(m, done) ==
  LET r == work[m].current IN
  /\ work[m].at = "redoing"
  /\ req' = [req EXCEPT ![r].status =
       IF done THEN "succeeded"
       ELSE IF work[m].seen[r] + 1 >= Limit THEN "failed"
       ELSE @]
  /\ applied' = [applied EXCEPT ![r] = @ + IF done THEN 1 ELSE 0]
  /\ work' = [work EXCEPT ![m].at = "fallback", ![m].current = None]
  /\ UNCHANGED <<older, job, overdue, provider, lock, crashes, calls>>

(* The cycle is over; the lock is released if it is still held.            *)
Finish(m) ==
  /\ work[m].at = "fallback" /\ work[m].rows = {}
  /\ work' = [work EXCEPT ![m] = At("idle")]
  /\ lock' = IF lock = m THEN None ELSE lock
  /\ UNCHANGED <<req, older, job, overdue, provider, crashes, applied, calls>>

-----------------------------------------------------------------------------
(* The environment.                                                        *)

(* The process dies, or the cycle raises: what it has not committed is     *)
(* gone, and its lock with its connection.  The lock's connection is taken *)
(* to live as long as its holder.                                          *)
Die(m) ==
  /\ work[m].at # "idle"
  /\ crashes < MaxCrashes
  /\ crashes' = crashes + 1
  /\ work' = [work EXCEPT ![m] = At("idle")]
  /\ lock' = IF lock = m THEN None ELSE lock
  /\ UNCHANGED <<req, older, job, overdue, provider, applied, calls>>

(* The submission grace of a job passes.                                   *)
PassGrace(j) ==
  /\ job[j] = "submitting" /\ j \notin overdue
  /\ overdue' = overdue \cup {j}
  /\ UNCHANGED <<req, older, job, provider, lock, work, crashes, applied, calls>>

(* The provider ends a batch, with an answer for some of its requests.     *)
ProviderEnds(j, state, answers) ==
  /\ provider[j].state = "running"
  /\ answers \subseteq provider[j].keys
  /\ state = "failed" => answers = {}
  /\ provider' = [provider EXCEPT ![j].state = state, ![j].answers = answers]
  /\ UNCHANGED <<req, older, job, overdue, lock, work, crashes, applied, calls>>

-----------------------------------------------------------------------------
Sends(m) == \E outcome \in Outcomes, reached \in BOOLEAN : Send(m, outcome, reached)
Reconciles(m) ==
  \E done \in SUBSET (work[m].rows) : Reconcile(m, done)
Closes(m, j) == work[m].job = j /\ (Reconciles(m) \/ GiveUpBatch(m))
Ends(j) ==
  \E state \in {"succeeded", "failed"}, answers \in SUBSET (provider[j].keys) :
    ProviderEnds(j, state, answers)

Submission(m) ==
  \/ Elect(m) \/ Recover(m) \/ Hold(m)
  \/ \E j \in Jobs : Claim(m, j)
  \/ Sends(m) \/ StoreHandle(m) \/ StoreFailure(m)
Polling(m) ==
  \/ \E j \in Jobs : Ask(m, j)
  \/ AskAgain(m) \/ Reconciles(m) \/ GiveUpBatch(m)
Fallback(m) ==
  \/ SelectFallbacks(m)
  \/ \E r \in Requests : Exhaust(m, r) \/ Attempt(m, r)
  \/ \E done \in BOOLEAN : Redone(m, done)
  \/ Finish(m)
Environment ==
  \/ \E r \in Requests : Enqueue(r)
  \/ \E j \in Jobs : PassGrace(j) \/ Ends(j)
  \/ \E m \in Maintainers : Die(m)

Next == (\E m \in Maintainers : Submission(m) \/ Polling(m) \/ Fallback(m)) \/ Environment

Spec == Init /\ [][Next]_vars

(* Some worker process runs the cycle again and again and each call ends.  *)
(* A provider that keeps being asked accepts some submission and answers   *)
(* some poll of each finished batch, and a held group comes of age.        *)
Fairness ==
  /\ WF_vars(\E m \in Maintainers : Submission(m) \/ Polling(m) \/ Fallback(m))
  /\ SF_vars(\E m \in Maintainers, j \in Jobs : Claim(m, j))
  /\ SF_vars(\E m \in Maintainers : Send(m, "accepted", TRUE))
  /\ \A j \in Jobs :
       /\ SF_vars(\E m \in Maintainers : Closes(m, j))
       /\ WF_vars(PassGrace(j)) /\ WF_vars(Ends(j))

FairSpec == Spec /\ Fairness

-----------------------------------------------------------------------------
(* Properties.                                                             *)

(* No row waits for a job that nobody works on: a claimed row belongs to a *)
(* job that is being submitted, which recovery looks for, and a submitted  *)
(* row to one that is polled, whose batch at the provider holds it.        *)
NothingIsStranded ==
  \A r \in Requests :
    /\ req[r].status = "claimed" =>
         req[r].job \in Jobs /\ job[req[r].job] = "submitting"
    /\ req[r].status = "submitted" =>
         /\ req[r].job \in Jobs /\ job[req[r].job] = "open"
         /\ r \in provider[req[r].job].keys

(* A request's result is written at most once, though a crash may leave    *)
(* the provider with two batches that answer it, and exactly once if it    *)
(* succeeded.                                                              *)
AppliedOnce ==
  \A r \in Requests :
    /\ applied[r] <= 1
    /\ req[r].status \in Statuses \ {"none"} =>
         (applied[r] = 1 <=> req[r].status = "succeeded")

(* No crash buys a request another chargeable call: its fallback is called *)
(* at most as often as attempts are allowed.                               *)
CallsAreBounded == \A r \in Requests : calls[r] <= Limit

(* Every request is answered or fails for good in the end, whatever the    *)
(* provider rejects and whichever maintainer dies.                         *)
EveryRequestEnds ==
  \A r \in Requests : req[r].status \in Active ~> req[r].status \in Answered

=============================================================================
