------------------------- MODULE BatchInferenceProofs -------------------------
(***************************************************************************)
(* Proofs about BatchInference, for every set of requests and maintainers, *)
(* every number of jobs, batch size, attempt limit and number of crashes.  *)
(***************************************************************************)
EXTENDS BatchInference, TLAPS

-----------------------------------------------------------------------------
(* The lock.  A maintainer is in a cycle exactly while it holds the lock,  *)
(* so what it has in hand is changed by nobody else.                       *)

LockIsHeld == \A m \in Maintainers : work[m].at # "idle" <=> lock = m

(* What a maintainer knows of the rows and jobs it has in hand.            *)
Submitting(m) ==
  work[m].at \in {"sending", "sent"} =>
    /\ work[m].job \in Jobs /\ job[work[m].job] = "submitting"
    /\ work[m].rows = RowsOf(work[m].job, "claimed")

Sent(m) ==
  work[m].at = "sent" /\ work[m].outcome = "accepted" =>
    work[m].rows \subseteq provider[work[m].job].keys

PollsOpenJobs(m) ==
  /\ work[m].at \in {"poll", "asking"} => \A k \in work[m].jobs : job[k] = "open"
  /\ work[m].at = "asking" =>
       work[m].job \in work[m].jobs /\ work[m].rows = RowsOf(work[m].job, "submitted")

RedoesFallbacks(m) ==
  /\ work[m].at \in {"fallback", "redoing"} =>
       \A r \in work[m].rows : req[r].status = "fallback" /\ work[m].seen[r] = req[r].tries
  /\ work[m].at = "redoing" =>
       /\ work[m].current \in Requests \ work[m].rows
       /\ req[work[m].current].status = "fallback"

WorkIsKnown ==
  \A m \in Maintainers :
    Submitting(m) /\ Sent(m) /\ PollsOpenJobs(m) /\ RedoesFallbacks(m)

(* A row's result has been written once if it succeeded and never if not,  *)
(* and every call that was made has been counted as an attempt.            *)
ResultsAreCounted ==
  \A r \in Requests : applied[r] = IF req[r].status = "succeeded" THEN 1 ELSE 0
CallsAreCounted == \A r \in Requests : calls[r] <= req[r].tries

BatchInv ==
  /\ TypeOK /\ LockIsHeld /\ WorkIsKnown
  /\ NothingIsStranded /\ ResultsAreCounted /\ CallsAreCounted

(* What the invariant says of the results and calls is what is promised.   *)
LEMMA BatchInvSuffices == BatchInv => AppliedOnce /\ CallsAreBounded
<1> SUFFICES ASSUME BatchInv PROVE AppliedOnce /\ CallsAreBounded
  OBVIOUS
<1>1. AppliedOnce
  BY DEF BatchInv, ResultsAreCounted, AppliedOnce
<1>2. CallsAreBounded
  <2> SUFFICES ASSUME NEW r \in Requests PROVE calls[r] <= Limit
    BY DEF CallsAreBounded
  <2>1. req[r].tries \in 0..Limit /\ calls[r] \in Nat /\ calls[r] <= req[r].tries
    BY DEF BatchInv, TypeOK, Row, CallsAreCounted
  <2> QED
    BY <2>1, BatchAssumption
<1> QED
  BY <1>1, <1>2

(* A place without anything in hand is well typed.                         *)
LEMMA AtTyped ==
  ASSUME NEW place \in Places
  PROVE  /\ At(place) \in Work
         /\ At(place).at = place /\ At(place).rows = {} /\ At(place).jobs = {}
  BY BatchAssumption DEF At, Work

(* So is one with rows or jobs in hand, and a row that gets a new status.   *)
LEMMA PollTyped ==
  ASSUME NEW js \in SUBSET Jobs
  PROVE  LET x == [At("poll") EXCEPT !.jobs = js] IN
         x \in Work /\ x.at = "poll" /\ x.jobs = js
<1>1. At("poll") \in Work
  BY AtTyped DEF Places
<1>2. At("poll").at = "poll"
  BY DEF At
<1> QED
  BY <1>1, <1>2 DEF Work

LEMMA SendingTyped ==
  ASSUME NEW j \in Jobs, NEW rows \in SUBSET Requests
  PROVE  LET x == [At("sending") EXCEPT !.job = j, !.rows = rows] IN
         x \in Work /\ x.at = "sending" /\ x.job = j /\ x.rows = rows
<1>1. At("sending") \in Work
  BY AtTyped DEF Places
<1>2. At("sending").at = "sending"
  BY DEF At
<1> QED
  BY <1>1, <1>2 DEF Work

LEMMA FallbackTyped ==
  ASSUME NEW rows \in SUBSET Requests, NEW tries \in [Requests -> 0..Limit]
  PROVE  LET x == [At("fallback") EXCEPT !.rows = rows, !.seen = tries] IN
         x \in Work /\ x.at = "fallback" /\ x.rows = rows /\ x.seen = tries
<1>1. At("fallback") \in Work
  BY AtTyped DEF Places
<1>2. At("fallback").at = "fallback"
  BY DEF At
<1> QED
  BY <1>1, <1>2 DEF Work

(* Nothing is in hand in the initial state.                                *)
LEMMA InitBatch == Init => BatchInv
<1> SUFFICES ASSUME Init PROVE BatchInv
  OBVIOUS
<1> USE DEF Init
<1>1. At("idle") \in Work /\ At("idle").at = "idle"
  BY AtTyped DEF Places
<1>2. TypeOK
  <2>1. req \in [Requests -> Row]
    BY BatchAssumption DEF Row, Statuses
  <2>2. provider \in [Jobs -> Batch]
    BY DEF NoBatch, Batch
  <2> QED
    BY <1>1, <2>1, <2>2, BatchAssumption DEF TypeOK, JobStates
<1>3. LockIsHeld
  BY <1>1, BatchAssumption DEF LockIsHeld
<1>4. WorkIsKnown
  BY <1>1 DEF WorkIsKnown, Submitting, Sent, PollsOpenJobs, RedoesFallbacks
<1>5. NothingIsStranded /\ ResultsAreCounted
  BY DEF NothingIsStranded, ResultsAreCounted
<1>6. CallsAreCounted
  BY DEF CallsAreCounted
<1> QED
  BY <1>2, <1>3, <1>4, <1>5, <1>6 DEF BatchInv

-----------------------------------------------------------------------------
(* Steps.                                                                  *)

MineIsKnown(m) == Submitting(m) /\ Sent(m) /\ PollsOpenJobs(m) /\ RedoesFallbacks(m)

(* A cycle's step concerns the one maintainer that holds the lock, so only *)
(* what that one knows has to be looked at.                                *)
LEMMA OneAtWork ==
  ASSUME TypeOK, LockIsHeld, NEW m \in Maintainers, NEW x \in Work,
         work' = [work EXCEPT ![m] = x], MineIsKnown(m)',
         \/ work[m].at # "idle" /\ x.at # "idle" /\ lock' = lock
         \/ work[m].at # "idle" /\ x.at = "idle" /\ lock' = None
         \/ lock = None /\ x.at # "idle" /\ lock' = m
  PROVE  work' \in [Maintainers -> Work] /\ LockIsHeld' /\ WorkIsKnown'
<1>1. work' \in [Maintainers -> Work] /\ work'[m] = x
      /\ \A n \in Maintainers \ {m} : work'[n] = work[n]
  BY DEF TypeOK
<1>2. \A n \in Maintainers \ {m} : work[n].at = "idle" /\ lock' # n
  BY BatchAssumption DEF LockIsHeld
<1>3. LockIsHeld'
  BY <1>1, <1>2, BatchAssumption DEF LockIsHeld
<1>4. \A n \in Maintainers \ {m} : MineIsKnown(n)'
  BY <1>1, <1>2 DEF MineIsKnown, Submitting, Sent, PollsOpenJobs, RedoesFallbacks
<1>5. WorkIsKnown'
  BY <1>4 DEF WorkIsKnown, MineIsKnown
<1> QED
  BY <1>1, <1>3, <1>5

(* A row that is enqueued again is in nobody's hands.                      *)
LEMMA EnqueueBatch ==
  ASSUME BatchInv, NEW r \in Requests, Enqueue(r)
  PROVE  BatchInv'
<1> USE DEF BatchInv
<1>1. /\ \A q \in Requests : req'[q] = IF q = r THEN [status |-> "pending", job |-> NoJob, tries |-> 0]
                                                ELSE req[q]
      /\ \A q \in Requests : applied'[q] = IF q = r THEN 0 ELSE applied[q]
      /\ \A q \in Requests : calls'[q] = IF q = r THEN 0 ELSE calls[q]
      /\ UNCHANGED <<job, overdue, provider, lock, work, crashes>>
      /\ req[r].status \notin Active
      /\ \A m \in Maintainers : r \notin work[m].rows /\ r # work[m].current
  BY DEF Enqueue, RowIsFree, TypeOK
<1>2. TypeOK'
  <2>1. req' \in [Requests -> Row]
    BY BatchAssumption DEF Enqueue, TypeOK, Row, Statuses, Active
  <2>2. older' \in [Requests -> SUBSET Requests]
    BY DEF Enqueue, TypeOK
  <2> QED
    BY <1>1, <2>1, <2>2 DEF Enqueue, TypeOK
<1>3. LockIsHeld'
  BY <1>1 DEF LockIsHeld
<1>4. WorkIsKnown'
  <2> SUFFICES ASSUME NEW m \in Maintainers PROVE MineIsKnown(m)'
    BY DEF WorkIsKnown, MineIsKnown
  <2>1. RowsOf(work[m].job, "claimed")' = RowsOf(work[m].job, "claimed")
    BY <1>1 DEF RowsOf, With, Active
  <2>2. RowsOf(work[m].job, "submitted")' = RowsOf(work[m].job, "submitted")
    BY <1>1 DEF RowsOf, With, Active
  <2>3. work[m] \in Work
    BY DEF TypeOK
  <2> QED
    BY <1>1, <2>1, <2>2, <2>3
       DEF WorkIsKnown, MineIsKnown, Submitting, Sent, PollsOpenJobs, RedoesFallbacks, Work
<1>5. NothingIsStranded'
  BY <1>1 DEF NothingIsStranded
<1>6. ResultsAreCounted'
  BY <1>1 DEF ResultsAreCounted
<1>7. CallsAreCounted'
  BY <1>1 DEF CallsAreCounted
<1> QED
  BY <1>2, <1>3, <1>4, <1>5, <1>6, <1>7

(* The grace of a submission passes, or the provider ends a batch.         *)
LEMMA EnvironmentBatch ==
  ASSUME BatchInv, NEW j \in Jobs, PassGrace(j) \/ Ends(j)
  PROVE  BatchInv'
<1> USE DEF BatchInv
<1>1. /\ UNCHANGED <<req, older, job, lock, work, crashes, applied, calls>>
      /\ overdue' \subseteq Jobs
      /\ provider' \in [Jobs -> Batch]
      /\ \A k \in Jobs : provider'[k].keys = provider[k].keys
  <2>1. CASE PassGrace(j)
    BY <2>1 DEF PassGrace, TypeOK
  <2>2. CASE Ends(j)
    <3>1. PICK state \in {"succeeded", "failed"}, answers \in SUBSET (provider[j].keys) :
            ProviderEnds(j, state, answers)
      BY <2>2 DEF Ends
    <3>2. provider[j] \in Batch /\ answers \subseteq Requests
      BY DEF TypeOK, Batch
    <3>3. provider' = [provider EXCEPT ![j] = [provider[j] EXCEPT !.state = state, !.answers = answers]]
      BY <3>1 DEF ProviderEnds
    <3>4. [provider[j] EXCEPT !.state = state, !.answers = answers] \in Batch
      BY <3>2 DEF Batch
    <3> QED
      BY <3>1, <3>2, <3>3, <3>4 DEF ProviderEnds, TypeOK, Batch
  <2> QED
    BY <2>1, <2>2
<1>2. TypeOK'
  BY <1>1 DEF TypeOK
<1>3. LockIsHeld' /\ ResultsAreCounted' /\ CallsAreCounted'
  BY <1>1 DEF LockIsHeld, ResultsAreCounted, CallsAreCounted
<1>4. NothingIsStranded'
  BY <1>1 DEF NothingIsStranded
<1>5. WorkIsKnown'
  BY <1>1 DEF WorkIsKnown, Submitting, Sent, PollsOpenJobs, RedoesFallbacks, RowsOf, With
<1> QED
  BY <1>2, <1>3, <1>4, <1>5

(* Steps that change nothing but where the lock's holder is.               *)
LEMMA MoveBatch ==
  ASSUME BatchInv, NEW m \in Maintainers, NEW x \in Work,
         work' = [work EXCEPT ![m] = x], MineIsKnown(m)',
         \/ work[m].at # "idle" /\ x.at # "idle" /\ lock' = lock
         \/ work[m].at # "idle" /\ x.at = "idle" /\ lock' = None
         \/ lock = None /\ x.at # "idle" /\ lock' = m,
         crashes' \in 0..MaxCrashes,
         UNCHANGED <<req, older, job, overdue, provider, applied, calls>>
  PROVE  BatchInv'
<1> USE DEF BatchInv
<1>1. work' \in [Maintainers -> Work] /\ LockIsHeld' /\ WorkIsKnown'
  BY OneAtWork
<1>2. lock' \in Maintainers \cup {None}
  BY DEF TypeOK
<1>3. TypeOK'
  BY <1>1, <1>2 DEF TypeOK
<1>4. NothingIsStranded' /\ ResultsAreCounted' /\ CallsAreCounted'
  BY DEF NothingIsStranded, ResultsAreCounted, CallsAreCounted
<1> QED
  BY <1>1, <1>3, <1>4

(* Being elected, holding a group back, asking, being told to ask again,   *)
(* selecting what to redo, finishing and dying are such steps.             *)
LEMMA MovesBatch ==
  ASSUME BatchInv, NEW m \in Maintainers,
         \/ Elect(m) \/ Hold(m) \/ AskAgain(m) \/ SelectFallbacks(m) \/ Finish(m) \/ Die(m)
         \/ \E j \in Jobs : Ask(m, j)
  PROVE  BatchInv'
<1> USE DEF BatchInv
<1>1. work \in [Maintainers -> Work] /\ work[m] \in Work
  BY DEF TypeOK
<1>2. work[m].at # "idle" => lock = m
  BY DEF LockIsHeld
<1>3. crashes \in 0..MaxCrashes
  BY DEF TypeOK
<1> USE DEF MineIsKnown, Submitting, Sent, PollsOpenJobs, RedoesFallbacks, Places
<1>4. CASE Elect(m)
  <2>1. At("recover") \in Work /\ At("recover").at = "recover"
    BY AtTyped
  <2>2. work' = [work EXCEPT ![m] = At("recover")] /\ work'[m] = At("recover")
    BY <1>1, <1>4 DEF Elect
  <2>3. MineIsKnown(m)'
    BY <2>1, <2>2
  <2> QED
    BY <1>3, <1>4, <2>1, <2>2, <2>3, MoveBatch DEF Elect
<1>5. CASE Hold(m)
  <2> DEFINE open == {j \in Jobs : job[j] = "open"}
  <2> DEFINE x == [At("poll") EXCEPT !.jobs = open]
  <2>1. x \in Work /\ x.at = "poll" /\ x.jobs = open
    BY AtTyped DEF Work
  <2>2. work' = [work EXCEPT ![m] = x]
    BY <1>5 DEF Hold
  <2>3. work'[m] = x
    BY <1>1, <2>2
  <2>4. MineIsKnown(m)'
    BY <1>5, <2>1, <2>3 DEF Hold
  <2> HIDE DEF x
  <2> QED
    BY <1>3, <1>5, <2>1, <2>2, <2>4, MoveBatch DEF Hold
<1>6. ASSUME NEW j \in Jobs, Ask(m, j) PROVE BatchInv'
  <2> DEFINE x == [work[m] EXCEPT !.at = "asking", !.job = j, !.rows = RowsOf(j, "submitted")]
  <2>1. /\ x \in Work /\ x.at = "asking" /\ x.jobs = work[m].jobs
        /\ x.job = j /\ x.rows = RowsOf(j, "submitted")
    BY <1>1 DEF Work, RowsOf, With
  <2>2. work' = [work EXCEPT ![m] = x]
    BY <1>6 DEF Ask
  <2>3. work'[m] = x
    BY <1>1, <2>2
  <2>4. RowsOf(j, "submitted")' = RowsOf(j, "submitted") /\ job' = job
        /\ work[m].at = "poll" /\ j \in work[m].jobs
    BY <1>6 DEF Ask, RowsOf, With
  <2> HIDE DEF x
  <2>5. MineIsKnown(m)'
    BY <2>1, <2>3, <2>4 DEF WorkIsKnown
  <2> QED
    <3>1. work[m].at = "poll" /\ UNCHANGED <<req, older, job, overdue, provider, lock, crashes, applied, calls>>
      BY <1>6 DEF Ask
    <3> QED
      BY <1>3, <2>1, <2>2, <2>5, <3>1, MoveBatch
<1>7. CASE AskAgain(m)
  <2> DEFINE x == NextPoll(m)
  <2>1. x \in Work /\ x.at = "poll" /\ x.jobs = work[m].jobs \ {work[m].job}
    BY <1>1, PollTyped DEF NextPoll, Work
  <2>2. work' = [work EXCEPT ![m] = x]
    BY <1>7 DEF AskAgain
  <2>3. work'[m] = x
    BY <1>1, <2>2
  <2> HIDE DEF x
  <2>4. MineIsKnown(m)'
    BY <1>7, <2>1, <2>3 DEF AskAgain, WorkIsKnown
  <2> QED
    BY <1>3, <1>7, <2>1, <2>2, <2>4, MoveBatch DEF AskAgain
<1>8. CASE SelectFallbacks(m)
  <2> DEFINE tries == [r \in Requests |-> req[r].tries]
  <2> DEFINE x == [At("fallback") EXCEPT !.rows = With("fallback"), !.seen = tries]
  <2>1. tries \in [Requests -> 0..Limit]
    BY DEF TypeOK, Row
  <2>2. x \in Work /\ x.at = "fallback" /\ x.rows = With("fallback") /\ x.seen = tries
    BY <2>1, FallbackTyped DEF With
  <2>3. work' = [work EXCEPT ![m] = x]
    BY <1>8 DEF SelectFallbacks
  <2>4. work'[m] = x /\ req' = req
    BY <1>1, <1>8, <2>3 DEF SelectFallbacks
  <2> HIDE DEF x
  <2>5. MineIsKnown(m)'
    BY <2>2, <2>4 DEF With
  <2> QED
    BY <1>3, <1>8, <2>2, <2>3, <2>5, MoveBatch DEF SelectFallbacks
<1>9. CASE Finish(m) \/ Die(m)
  <2>1. At("idle") \in Work /\ At("idle").at = "idle"
    BY AtTyped
  <2>2. work' = [work EXCEPT ![m] = At("idle")] /\ work'[m] = At("idle")
    BY <1>1, <1>9 DEF Finish, Die
  <2>3. MineIsKnown(m)'
    BY <2>1, <2>2
  <2>4. lock' = None /\ work[m].at # "idle"
    BY <1>2, <1>9 DEF Finish, Die
  <2>5. crashes' \in 0..MaxCrashes
    BY <1>3, <1>9, BatchAssumption DEF Finish, Die
  <2> QED
    BY <1>9, <2>1, <2>2, <2>3, <2>4, <2>5, MoveBatch DEF Finish, Die
<1> QED
  BY <1>4, <1>5, <1>6, <1>7, <1>8, <1>9

(* Closing jobs keeps the tables of jobs typed.                            *)
LEMMA CloseTyped ==
  ASSUME TypeOK, NEW js \in SUBSET Jobs, Close(js)
  PROVE  /\ job' \in [Jobs -> JobStates] /\ overdue' \subseteq Jobs
         /\ provider' \in [Jobs -> Batch]
         /\ \A k \in Jobs : /\ job'[k] = IF k \in js THEN "closed" ELSE job[k]
                            /\ k \notin js => provider'[k] = provider[k]
<1>1. NoBatch \in Batch
  BY DEF NoBatch, Batch
<1> QED
  BY <1>1 DEF TypeOK, Close, JobStates

(* Recovery puts back the rows of the submissions it gives up.             *)
LEMMA RecoverBatch ==
  ASSUME BatchInv, NEW m \in Maintainers, Recover(m)
  PROVE  BatchInv'
<1> DEFINE js == {j \in Jobs : job[j] = "submitting" /\ j \in overdue}
<1> USE DEF BatchInv
<1>1. /\ \A r \in Requests :
           /\ req'[r].tries = req[r].tries
           /\ req'[r].status = IF req[r].status = "claimed" /\ req[r].job \in js
                                THEN "pending" ELSE req[r].status
           /\ req'[r].status # "pending" => req'[r].job = req[r].job
      /\ Close(js) /\ work' = [work EXCEPT ![m] = At("submit")]
      /\ UNCHANGED <<older, lock, crashes, applied, calls>> /\ work[m].at = "recover"
  BY DEF Recover
<1>2. At("submit") \in Work /\ At("submit").at = "submit"
  BY AtTyped DEF Places
<1>3. /\ job' \in [Jobs -> JobStates] /\ overdue' \subseteq Jobs /\ provider' \in [Jobs -> Batch]
      /\ \A k \in Jobs : /\ job'[k] = IF k \in js THEN "closed" ELSE job[k]
                         /\ k \notin js => provider'[k] = provider[k]
  BY <1>1, CloseTyped
<1>4. work'[m] = At("submit")
  BY <1>1 DEF TypeOK
<1>5. MineIsKnown(m)'
  BY <1>2, <1>4 DEF MineIsKnown, Submitting, Sent, PollsOpenJobs, RedoesFallbacks
<1>6. work' \in [Maintainers -> Work] /\ LockIsHeld' /\ WorkIsKnown'
  BY <1>1, <1>2, <1>5, OneAtWork
<1>7. req' \in [Requests -> Row]
  BY DEF Recover, TypeOK, Row, Statuses, Active
<1>8. TypeOK'
  BY <1>1, <1>3, <1>6, <1>7 DEF TypeOK
<1>9. NothingIsStranded'
  BY <1>1, <1>3 DEF NothingIsStranded
<1>10. ResultsAreCounted'
  BY <1>1 DEF ResultsAreCounted
<1>11. CallsAreCounted'
  BY <1>1 DEF CallsAreCounted
<1> QED
  BY <1>6, <1>8, <1>9, <1>10, <1>11

(* A claim takes pending rows for a job that no claimed or submitted row   *)
(* belongs to.                                                             *)
LEMMA ClaimBatch ==
  ASSUME BatchInv, NEW m \in Maintainers, NEW j \in Jobs, Claim(m, j)
  PROVE  BatchInv'
<1> DEFINE x == [At("sending") EXCEPT !.job = j, !.rows = Oldest]
<1> USE DEF BatchInv
<1>1. /\ \A r \in Requests :
           /\ req'[r].tries = req[r].tries
           /\ r \in Oldest => req'[r].status = "claimed" /\ req'[r].job = j
           /\ r \notin Oldest => req'[r] = req[r]
      /\ \A k \in Jobs : job'[k] = IF k = j THEN "submitting" ELSE job[k]
      /\ job' \in [Jobs -> JobStates]
      /\ work' = [work EXCEPT ![m] = x] /\ work[m].at = "submit"
      /\ UNCHANGED <<older, overdue, provider, lock, crashes, applied, calls>>
      /\ job[j] \in {"none", "closed"}
      /\ \A r \in Requests : req[r].job = j => req[r].status \notin {"claimed", "submitted"}
  BY DEF Claim, JobIsFree, TypeOK, JobStates
<1>2. /\ Oldest \subseteq Requests
      /\ \A r \in Oldest : req[r].status = "pending"
  BY DEF Oldest, With
<1>3. x \in Work /\ x.at = "sending" /\ x.job = j /\ x.rows = Oldest
  <2>1. Oldest \in SUBSET Requests
    BY <1>2
  <2> HIDE DEF BatchInv
  <2> QED
    BY <2>1, SendingTyped
<1>4. work'[m] = x
  BY <1>1 DEF TypeOK
<1> HIDE DEF x
<1>5. Oldest = {r \in Requests : req'[r].status = "claimed" /\ req'[r].job = j}
  BY <1>1, <1>2
<1>6. MineIsKnown(m)'
  BY <1>1, <1>3, <1>4, <1>5
     DEF MineIsKnown, Submitting, Sent, PollsOpenJobs, RedoesFallbacks, RowsOf, With
<1>7. work' \in [Maintainers -> Work] /\ LockIsHeld' /\ WorkIsKnown'
  BY <1>1, <1>3, <1>6, OneAtWork
<1>8. req' \in [Requests -> Row]
  BY DEF Claim, TypeOK, Row, Statuses, Active
<1>9. TypeOK'
  BY <1>1, <1>7, <1>8 DEF TypeOK
<1>10. NothingIsStranded'
  BY <1>1 DEF NothingIsStranded
<1>11. ResultsAreCounted'
  BY <1>1, <1>2 DEF ResultsAreCounted
<1>12. CallsAreCounted'
  BY <1>1 DEF CallsAreCounted
<1> QED
  BY <1>7, <1>9, <1>10, <1>11, <1>12

(* What the provider was given are the rows in hand.                       *)
LEMMA SendBatch ==
  ASSUME BatchInv, NEW m \in Maintainers, NEW outcome \in Outcomes, NEW reached \in BOOLEAN,
         Send(m, outcome, reached)
  PROVE  BatchInv'
<1> DEFINE j == work[m].job
<1> DEFINE b == [state |-> "running", keys |-> work[m].rows, answers |-> {}]
<1> DEFINE x == [work[m] EXCEPT !.at = "sent", !.outcome = outcome]
<1> USE DEF BatchInv
<1>1. work[m].at = "sending" /\ work[m] \in Work /\ j \in Jobs /\ job[j] = "submitting"
      /\ work[m].rows = RowsOf(j, "claimed")
  BY DEF Send, TypeOK, WorkIsKnown, Submitting
<1>2. /\ work' = [work EXCEPT ![m] = x]
      /\ UNCHANGED <<req, older, job, overdue, lock, crashes, applied, calls>>
      /\ provider' = IF reached THEN [provider EXCEPT ![j] = b] ELSE provider
      /\ outcome = "accepted" => reached
  BY DEF Send
<1>3. x \in Work /\ x.at = "sent" /\ x.outcome = outcome /\ x.job = j /\ x.rows = work[m].rows
  BY <1>1 DEF Work, Places
<1>4. work'[m] = x
  BY <1>2 DEF TypeOK
<1> HIDE DEF x
<1>5. b \in Batch
  BY <1>1 DEF Batch, Work
<1>6. /\ provider' \in [Jobs -> Batch]
      /\ \A k \in Jobs \ {j} : provider'[k] = provider[k]
      /\ outcome = "accepted" => provider'[j].keys = work[m].rows
  BY <1>1, <1>2, <1>5 DEF TypeOK
<1>9. MineIsKnown(m)'
  BY <1>1, <1>2, <1>3, <1>4, <1>6 DEF MineIsKnown, Submitting, Sent, PollsOpenJobs, RedoesFallbacks,
     RowsOf, With
<1>10. work' \in [Maintainers -> Work] /\ LockIsHeld' /\ WorkIsKnown'
  BY <1>1, <1>2, <1>3, <1>9, OneAtWork
<1>11. TypeOK'
  BY <1>2, <1>6, <1>10 DEF TypeOK
<1>12. NothingIsStranded'
  BY <1>1, <1>2, <1>6 DEF NothingIsStranded
<1>13. ResultsAreCounted' /\ CallsAreCounted'
  BY <1>2 DEF ResultsAreCounted, CallsAreCounted
<1> QED
  BY <1>10, <1>11, <1>12, <1>13

(* The rows of an accepted submission are the provider's.                  *)
LEMMA StoreHandleBatch ==
  ASSUME BatchInv, NEW m \in Maintainers, StoreHandle(m)
  PROVE  BatchInv'
<1> USE DEF BatchInv
<1>1. PICK j \in Jobs : j = work[m].job /\ job[j] = "submitting"
  BY DEF StoreHandle, WorkIsKnown, Submitting
<1>2. PICK rows \in SUBSET Requests :
         rows = work[m].rows /\ rows = RowsOf(j, "claimed") /\ rows \subseteq provider[j].keys
  BY <1>1 DEF StoreHandle, WorkIsKnown, Submitting, Sent, RowsOf, With
<1> DEFINE polls == Polls(j, "open")
<1> DEFINE x == [At("poll") EXCEPT !.jobs = polls]
<1>3. /\ \A r \in Requests :
           /\ req'[r].tries = req[r].tries /\ req'[r].job = req[r].job
           /\ req'[r].status = IF r \in rows THEN "submitted" ELSE req[r].status
      /\ req' \in [Requests -> Row]
      /\ \A k \in Jobs : job'[k] = IF k = j THEN "open" ELSE job[k]
      /\ job' \in [Jobs -> JobStates] /\ overdue' \subseteq Jobs
      /\ work' = [work EXCEPT ![m] = x] /\ work[m].at = "sent"
      /\ UNCHANGED <<older, provider, lock, crashes, applied, calls>>
  <2>1. /\ \A r \in Requests :
             req'[r] = IF r \in rows THEN [req[r] EXCEPT !.status = "submitted"] ELSE req[r]
        /\ req' = [r \in Requests |-> req'[r]]
    BY <1>2 DEF StoreHandle
  <2>2. ASSUME NEW r \in Requests
        PROVE  /\ req'[r] \in Row /\ req'[r].tries = req[r].tries /\ req'[r].job = req[r].job
               /\ req'[r].status = IF r \in rows THEN "submitted" ELSE req[r].status
    <3>1. req[r] \in Row /\ "submitted" \in Statuses
      BY DEF TypeOK, Statuses, Active
    <3>2. CASE r \in rows
      <4>1. req'[r] = [req[r] EXCEPT !.status = "submitted"]
        BY <2>1, <3>2
      <4> QED
        BY <3>1, <3>2, <4>1 DEF Row
    <3> QED
      BY <2>1, <3>1, <3>2
  <2>3. req' \in [Requests -> Row]
    BY <2>1, <2>2
  <2>4. /\ \A k \in Jobs : job'[k] = IF k = j THEN "open" ELSE job[k]
        /\ job' \in [Jobs -> JobStates] /\ overdue' \subseteq Jobs
    BY <1>1 DEF StoreHandle, TypeOK, JobStates
  <2>5. /\ work' = [work EXCEPT ![m] = x] /\ work[m].at = "sent"
        /\ UNCHANGED <<older, provider, lock, crashes, applied, calls>>
    BY <1>1 DEF StoreHandle
  <2> QED
    BY <2>2, <2>3, <2>4, <2>5
<1>4. x \in Work /\ x.at = "poll" /\ x.jobs = polls
  BY PollTyped DEF Polls
<1>5. \A k \in polls : job'[k] = "open"
  BY <1>3 DEF Polls
<1>6. work'[m] = x
  BY <1>3 DEF TypeOK
<1> HIDE DEF x, polls
<1>7. MineIsKnown(m)'
  BY <1>4, <1>5, <1>6 DEF MineIsKnown, Submitting, Sent, PollsOpenJobs, RedoesFallbacks
<1>8. work' \in [Maintainers -> Work] /\ LockIsHeld' /\ WorkIsKnown'
  BY <1>3, <1>4, <1>7, OneAtWork
<1>9. TypeOK'
  BY <1>3, <1>8 DEF TypeOK
<1>10. \A r \in rows : req[r].status = "claimed" /\ req[r].job = j
  BY <1>2 DEF RowsOf, With
<1>11. \A r \in Requests \ rows : ~(req[r].status = "claimed" /\ req[r].job = j)
  BY <1>2 DEF RowsOf, With
<1>12. NothingIsStranded'
  BY <1>1, <1>2, <1>3, <1>10, <1>11 DEF NothingIsStranded
<1>13. ResultsAreCounted' /\ CallsAreCounted'
  BY <1>3, <1>10 DEF ResultsAreCounted, CallsAreCounted
<1> QED
  BY <1>8, <1>9, <1>12, <1>13

(* The rows of a failed submission leave the job that is closed.           *)
LEMMA StoreFailureBatch ==
  ASSUME BatchInv, NEW m \in Maintainers, StoreFailure(m)
  PROVE  BatchInv'
<1> USE DEF BatchInv
<1>1. PICK j \in Jobs : j = work[m].job /\ job[j] = "submitting"
  BY DEF StoreFailure, WorkIsKnown, Submitting
<1>2. PICK rows \in SUBSET Requests : rows = work[m].rows /\ rows = RowsOf(j, "claimed")
  BY <1>1 DEF StoreFailure, WorkIsKnown, Submitting, RowsOf, With
<1> DEFINE polls == Polls(j, "closed")
<1> DEFINE x == [At("poll") EXCEPT !.jobs = polls]
<1>3. /\ \A r \in Requests :
           /\ req'[r].tries = req[r].tries
           /\ r \notin rows => req'[r] = req[r]
           /\ r \in rows => req'[r].status \in {"fallback", "pending"}
      /\ req' \in [Requests -> Row]
      /\ Close({j})
      /\ work' = [work EXCEPT ![m] = x] /\ work[m].at = "sent"
      /\ UNCHANGED <<older, lock, crashes, applied, calls>>
  <2>1. /\ \A r \in Requests :
             req'[r] = IF r \notin rows THEN req[r]
                       ELSE IF work[m].outcome = "permanent"
                         THEN [req[r] EXCEPT !.status = "fallback"]
                         ELSE [req[r] EXCEPT !.status = "pending", !.job = NoJob]
        /\ req' = [r \in Requests |-> req'[r]]
    BY <1>2 DEF StoreFailure
  <2>2. ASSUME NEW r \in Requests
        PROVE  /\ req'[r] \in Row /\ req'[r].tries = req[r].tries
               /\ r \notin rows => req'[r] = req[r]
               /\ r \in rows => req'[r].status \in {"fallback", "pending"}
    <3>1. req[r] \in Row /\ "fallback" \in Statuses /\ "pending" \in Statuses
      BY DEF TypeOK, Statuses, Active
    <3>2. CASE r \in rows
      <4>1. \/ req'[r] = [req[r] EXCEPT !.status = "fallback"]
            \/ req'[r] = [req[r] EXCEPT !.status = "pending", !.job = NoJob]
        BY <2>1, <3>2
      <4> QED
        BY <3>1, <3>2, <4>1 DEF Row
    <3> QED
      BY <2>1, <3>1, <3>2
  <2>3. req' \in [Requests -> Row]
    BY <2>1, <2>2
  <2>4. /\ Close({j})
        /\ work' = [work EXCEPT ![m] = x] /\ work[m].at = "sent"
        /\ UNCHANGED <<older, lock, crashes, applied, calls>>
    BY <1>1 DEF StoreFailure
  <2> QED
    BY <2>2, <2>3, <2>4
<1>4. x \in Work /\ x.at = "poll" /\ x.jobs = polls
  BY PollTyped DEF Polls
<1>5. /\ job' \in [Jobs -> JobStates] /\ overdue' \subseteq Jobs /\ provider' \in [Jobs -> Batch]
      /\ \A k \in Jobs : /\ job'[k] = IF k = j THEN "closed" ELSE job[k]
                         /\ k # j => provider'[k] = provider[k]
  BY <1>3, CloseTyped
<1>6. \A k \in polls : job'[k] = "open"
  BY <1>5 DEF Polls
<1>7. work'[m] = x
  BY <1>3 DEF TypeOK
<1> HIDE DEF x, polls
<1>8. MineIsKnown(m)'
  BY <1>4, <1>6, <1>7 DEF MineIsKnown, Submitting, Sent, PollsOpenJobs, RedoesFallbacks
<1>9. work' \in [Maintainers -> Work] /\ LockIsHeld' /\ WorkIsKnown'
  BY <1>3, <1>4, <1>8, OneAtWork
<1>10. TypeOK'
  BY <1>3, <1>5, <1>9 DEF TypeOK
<1>11. \A r \in Requests : r \in rows <=> req[r].status = "claimed" /\ req[r].job = j
  BY <1>2 DEF RowsOf, With
<1>12. NothingIsStranded'
  BY <1>1, <1>3, <1>5, <1>11 DEF NothingIsStranded
<1>13. ResultsAreCounted' /\ CallsAreCounted'
  BY <1>3, <1>11 DEF ResultsAreCounted, CallsAreCounted
<1> QED
  BY <1>9, <1>10, <1>12, <1>13

(* A job that is closed after its poll leaves no submitted row behind.     *)
LEMMA PolledBatch ==
  ASSUME BatchInv, NEW m \in Maintainers, Reconciles(m) \/ GiveUpBatch(m)
  PROVE  BatchInv'
<1> USE DEF BatchInv
<1>1. PICK j \in Jobs : j = work[m].job /\ job[j] = "open" /\ j \in work[m].jobs
  BY DEF Reconciles, Reconcile, GiveUpBatch, WorkIsKnown, PollsOpenJobs, TypeOK, Work
<1>2. PICK rows \in SUBSET Requests : rows = work[m].rows /\ rows = RowsOf(j, "submitted")
  BY <1>1 DEF Reconciles, Reconcile, GiveUpBatch, WorkIsKnown, PollsOpenJobs, RowsOf, With
<1> DEFINE x == NextPoll(m)
<1>3. PICK done \in SUBSET rows :
        /\ \A r \in Requests :
             /\ req'[r].tries = req[r].tries
             /\ r \notin rows => req'[r] = req[r]
             /\ r \in done => req'[r].status = "succeeded"
             /\ r \in rows \ done => req'[r].status = "fallback"
             /\ applied'[r] = applied[r] + IF r \in done THEN 1 ELSE 0
        /\ req' \in [Requests -> Row] /\ applied' \in [Requests -> Nat]
        /\ Close({j})
        /\ work' = [work EXCEPT ![m] = x] /\ work[m].at = "asking"
        /\ UNCHANGED <<older, lock, crashes, calls>>
  <2>1. CASE Reconciles(m)
    <3>1. PICK done \in SUBSET rows : Reconcile(m, done)
      BY <1>2, <2>1 DEF Reconciles
    <3>2. req' \in [Requests -> Row] /\ applied' \in [Requests -> Nat]
      <4>1. /\ \A r \in Requests :
                 req'[r] = IF r \in done THEN [req[r] EXCEPT !.status = "succeeded"]
                           ELSE IF r \in work[m].rows THEN [req[r] EXCEPT !.status = "fallback"]
                           ELSE req[r]
            /\ req' = [r \in Requests |-> req'[r]]
        BY <3>1 DEF Reconcile
      <4>2. \A r \in Requests : req'[r] \in Row
        <5> SUFFICES ASSUME NEW r \in Requests PROVE req'[r] \in Row
          OBVIOUS
        <5>1. req[r] \in Row /\ "succeeded" \in Statuses /\ "fallback" \in Statuses
          BY DEF TypeOK, Statuses, Answered, Active
        <5>2. \/ req'[r] = [req[r] EXCEPT !.status = "succeeded"]
              \/ req'[r] = [req[r] EXCEPT !.status = "fallback"]
              \/ req'[r] = req[r]
          BY <4>1
        <5> QED
          BY <5>1, <5>2 DEF Row
      <4>3. applied' \in [Requests -> Nat]
        BY <3>1 DEF Reconcile, TypeOK
      <4> QED
        BY <4>1, <4>2, <4>3
    <3> QED
      BY <1>1, <1>2, <3>1, <3>2 DEF Reconcile, TypeOK, Row
  <2>2. CASE GiveUpBatch(m)
    <3>1. req' \in [Requests -> Row] /\ applied' = applied
      BY <2>2 DEF GiveUpBatch, TypeOK, Row, Statuses, Active
    <3>2. \A r \in Requests :
            /\ req'[r].tries = req[r].tries
            /\ r \notin rows => req'[r] = req[r]
            /\ r \in rows => req'[r].status = "fallback"
      BY <1>2, <2>2, <3>1 DEF GiveUpBatch, TypeOK, Row
    <3>3. \A r \in Requests : applied'[r] = applied[r] + 0
      BY <3>1 DEF TypeOK
    <3>4. Close({j}) /\ work' = [work EXCEPT ![m] = x] /\ work[m].at = "asking"
          /\ UNCHANGED <<older, lock, crashes, calls>> /\ applied' \in [Requests -> Nat]
      BY <1>1, <2>2, <3>1 DEF GiveUpBatch, TypeOK
    <3> HIDE DEF x
    <3> WITNESS {} \in SUBSET rows
    <3> QED
      BY <3>1, <3>2, <3>3, <3>4
  <2> QED
    BY <2>1, <2>2
<1>4. work[m] \in Work
  BY DEF TypeOK
<1>5. x \in Work /\ x.at = "poll" /\ x.jobs = work[m].jobs \ {j}
  BY <1>1, <1>4, PollTyped DEF NextPoll, Work
<1>6. /\ job' \in [Jobs -> JobStates] /\ overdue' \subseteq Jobs /\ provider' \in [Jobs -> Batch]
      /\ \A k \in Jobs : /\ job'[k] = IF k = j THEN "closed" ELSE job[k]
                         /\ k # j => provider'[k] = provider[k]
  BY <1>3, CloseTyped
<1>7. work'[m] = x
  BY <1>3 DEF TypeOK
<1> HIDE DEF x
<1>8. \A k \in x.jobs : job'[k] = "open"
  BY <1>3, <1>4, <1>5, <1>6 DEF WorkIsKnown, PollsOpenJobs, Work
<1>9. MineIsKnown(m)'
  BY <1>5, <1>7, <1>8 DEF MineIsKnown, Submitting, Sent, PollsOpenJobs, RedoesFallbacks
<1>10. work' \in [Maintainers -> Work] /\ LockIsHeld' /\ WorkIsKnown'
  BY <1>3, <1>5, <1>9, OneAtWork
<1>11. TypeOK'
  BY <1>3, <1>6, <1>10 DEF TypeOK
<1>12. \A r \in Requests : r \in rows <=> req[r].status = "submitted" /\ req[r].job = j
  BY <1>2 DEF RowsOf, With
<1>13. NothingIsStranded'
  BY <1>1, <1>3, <1>6, <1>12 DEF NothingIsStranded
<1>14. ResultsAreCounted'
  BY <1>3, <1>12 DEF ResultsAreCounted
<1>15. CallsAreCounted'
  BY <1>3 DEF CallsAreCounted
<1> QED
  BY <1>10, <1>11, <1>13, <1>14, <1>15

(* Redoing a row concerns no job: it was taken out of its job before.      *)
LEMMA FallbackBatch ==
  ASSUME BatchInv, NEW m \in Maintainers, NEW x \in Work, NEW r \in Requests, NEW row \in Row,
         work[m].at # "idle", x.at # "idle", lock' = lock,
         work' = [work EXCEPT ![m] = x], MineIsKnown(m)',
         req' = [req EXCEPT ![r] = row],
         req[r].status = "fallback", row.status \notin {"claimed", "submitted"},
         applied' = [applied EXCEPT ![r] = @ + IF row.status = "succeeded" THEN 1 ELSE 0],
         calls' \in [Requests -> Nat],
         \A q \in Requests \ {r} : calls'[q] = calls[q],
         calls'[r] <= row.tries,
         UNCHANGED <<older, job, overdue, provider, crashes>>
  PROVE  BatchInv'
<1> USE DEF BatchInv
<1>1. work' \in [Maintainers -> Work] /\ LockIsHeld' /\ WorkIsKnown'
  BY OneAtWork
<1>2. \A q \in Requests : req'[q] = IF q = r THEN row ELSE req[q]
  BY DEF TypeOK
<1>3. \A q \in Requests : applied'[q] = IF q # r THEN applied[q]
                            ELSE applied[r] + IF row.status = "succeeded" THEN 1 ELSE 0
  BY DEF TypeOK
<1>4. applied' \in [Requests -> Nat] /\ req' \in [Requests -> Row]
  BY DEF TypeOK
<1>5. TypeOK'
  BY <1>1, <1>4 DEF TypeOK
<1>6. NothingIsStranded'
  BY <1>2 DEF NothingIsStranded
<1>7. ResultsAreCounted'
  BY <1>2, <1>3 DEF ResultsAreCounted
<1>8. CallsAreCounted'
  BY <1>2 DEF CallsAreCounted
<1> QED
  BY <1>1, <1>5, <1>6, <1>7, <1>8

(* A row without attempts left, an attempt, and what comes of it.          *)
LEMMA ExhaustBatch ==
  ASSUME BatchInv, NEW m \in Maintainers, NEW r \in Requests, Exhaust(m, r)
  PROVE  BatchInv'
<1> DEFINE x == [work[m] EXCEPT !.rows = @ \ {r}]
<1> DEFINE row == [req[r] EXCEPT !.status = "failed"]
<1> USE DEF BatchInv
<1>1. work[m] \in Work /\ req[r] \in Row /\ calls \in [Requests -> Nat]
      /\ work \in [Maintainers -> Work] /\ req \in [Requests -> Row]
      /\ applied \in [Requests -> Nat]
  BY DEF TypeOK
<1>2. work[m].at = "fallback" /\ r \in work[m].rows /\ req[r].status = "fallback"
      /\ req' = [req EXCEPT ![r] = row] /\ work' = [work EXCEPT ![m] = x]
      /\ UNCHANGED <<older, job, overdue, provider, lock, crashes, applied, calls>>
  BY DEF Exhaust, WorkIsKnown, RedoesFallbacks
<1>3. x \in Work /\ x.at = "fallback" /\ x.rows = work[m].rows \ {r} /\ x.seen = work[m].seen
  BY <1>1, <1>2 DEF Work
<1>4. row \in Row /\ row.status = "failed" /\ row.tries = req[r].tries
  BY <1>1 DEF Row, Statuses, Answered
<1>5. work'[m] = x /\ \A q \in Requests : req'[q] = IF q = r THEN row ELSE req[q]
  <2> HIDE DEF x, row
  <2>1. work'[m] = x
    BY <1>1, <1>2
  <2>2. \A q \in Requests : req'[q] = IF q = r THEN row ELSE req[q]
    BY <1>1, <1>2
  <2> QED
    BY <2>1, <2>2
<1> HIDE DEF x, row
<1>6. MineIsKnown(m)'
  BY <1>1, <1>2, <1>3, <1>5
     DEF WorkIsKnown, MineIsKnown, Submitting, Sent, PollsOpenJobs, RedoesFallbacks, Work
<1>7. applied' = [applied EXCEPT ![r] = @ + IF row.status = "succeeded" THEN 1 ELSE 0]
  BY <1>1, <1>2, <1>4
<1>8. calls'[r] <= row.tries
  BY <1>2, <1>4 DEF CallsAreCounted
<1> QED
  BY <1>1, <1>2, <1>3, <1>4, <1>6, <1>7, <1>8, FallbackBatch

LEMMA AttemptBatch ==
  ASSUME BatchInv, NEW m \in Maintainers, NEW r \in Requests, Attempt(m, r)
  PROVE  BatchInv'
<1> DEFINE x == [work[m] EXCEPT !.at = "redoing", !.rows = @ \ {r}, !.current = r]
<1> DEFINE row == [req[r] EXCEPT !.tries = work[m].seen[r] + 1]
<1> USE DEF BatchInv
<1>1. work[m] \in Work /\ req[r] \in Row /\ calls \in [Requests -> Nat]
      /\ work \in [Maintainers -> Work] /\ req \in [Requests -> Row]
      /\ applied \in [Requests -> Nat]
  BY DEF TypeOK
<1>2. work[m].at = "fallback" /\ r \in work[m].rows /\ req[r].status = "fallback"
      /\ work[m].seen[r] = req[r].tries /\ work[m].seen[r] < Limit
      /\ req' = [req EXCEPT ![r] = row] /\ work' = [work EXCEPT ![m] = x]
      /\ calls' = [calls EXCEPT ![r] = @ + 1]
      /\ UNCHANGED <<older, job, overdue, provider, lock, crashes, applied>>
  BY DEF Attempt, WorkIsKnown, RedoesFallbacks
<1>3. x \in Work /\ x.at = "redoing" /\ x.rows = work[m].rows \ {r} /\ x.seen = work[m].seen
      /\ x.current = r
  BY <1>1, <1>2 DEF Work, Places
<1>4. row \in Row /\ row.status = "fallback" /\ row.tries = req[r].tries + 1
  BY <1>1, <1>2, BatchAssumption DEF Row
<1>5. work'[m] = x /\ \A q \in Requests : req'[q] = IF q = r THEN row ELSE req[q]
  BY <1>1, <1>2
<1> HIDE DEF x, row
<1>6. MineIsKnown(m)'
  BY <1>1, <1>2, <1>3, <1>4, <1>5
     DEF WorkIsKnown, MineIsKnown, Submitting, Sent, PollsOpenJobs, RedoesFallbacks, Work
<1>7. applied' = [applied EXCEPT ![r] = @ + IF row.status = "succeeded" THEN 1 ELSE 0]
  BY <1>1, <1>2, <1>4
<1>8. calls' \in [Requests -> Nat] /\ (\A q \in Requests \ {r} : calls'[q] = calls[q])
      /\ calls'[r] = calls[r] + 1
  BY <1>1, <1>2
<1>9. calls'[r] <= row.tries
  BY <1>1, <1>4, <1>8 DEF CallsAreCounted, Row
<1> QED
  BY <1>1, <1>2, <1>3, <1>4, <1>6, <1>7, <1>8, <1>9, FallbackBatch

LEMMA RedoneBatch ==
  ASSUME BatchInv, NEW m \in Maintainers, NEW done \in BOOLEAN, Redone(m, done)
  PROVE  BatchInv'
<1> USE DEF BatchInv
<1>1. PICK r \in Requests : r = work[m].current /\ r \notin work[m].rows /\ req[r].status = "fallback"
  BY DEF Redone, WorkIsKnown, RedoesFallbacks
<1> DEFINE status == IF done THEN "succeeded"
                     ELSE IF work[m].seen[r] + 1 >= Limit THEN "failed"
                     ELSE "fallback"
<1> DEFINE x == [work[m] EXCEPT !.at = "fallback", !.current = None]
<1> DEFINE row == [req[r] EXCEPT !.status = status]
<1>2. work[m] \in Work /\ req[r] \in Row /\ calls \in [Requests -> Nat]
      /\ work \in [Maintainers -> Work] /\ req \in [Requests -> Row]
      /\ applied \in [Requests -> Nat]
  BY DEF TypeOK
<1>3. work[m].at = "redoing"
      /\ req' = [req EXCEPT ![r] = row] /\ work' = [work EXCEPT ![m] = x]
      /\ applied' = [applied EXCEPT ![r] = @ + IF done THEN 1 ELSE 0]
      /\ UNCHANGED <<older, job, overdue, provider, lock, crashes, calls>>
  BY <1>1 DEF Redone
<1>4. x \in Work /\ x.at = "fallback" /\ x.rows = work[m].rows /\ x.seen = work[m].seen
  BY <1>2, <1>3 DEF Work, Places
<1>5. status \in {"succeeded", "failed", "fallback"} /\ (status = "succeeded" <=> done)
  OBVIOUS
<1> HIDE DEF status
<1>6. row \in Row /\ row.status = status /\ row.tries = req[r].tries
  BY <1>2, <1>5 DEF Row, Statuses, Answered, Active
<1>7. work'[m] = x /\ \A q \in Requests : req'[q] = IF q = r THEN row ELSE req[q]
  BY <1>2, <1>3
<1> HIDE DEF x, row
<1>8. MineIsKnown(m)'
  BY <1>1, <1>2, <1>3, <1>4, <1>7
     DEF WorkIsKnown, MineIsKnown, Submitting, Sent, PollsOpenJobs, RedoesFallbacks, Work
<1>9. applied' = [applied EXCEPT ![r] = @ + IF row.status = "succeeded" THEN 1 ELSE 0]
  BY <1>3, <1>5, <1>6
<1>10. calls'[r] <= row.tries
  BY <1>3, <1>6 DEF CallsAreCounted
<1> QED
  BY <1>1, <1>2, <1>3, <1>4, <1>5, <1>6, <1>8, <1>9, <1>10, FallbackBatch

-----------------------------------------------------------------------------
(* Every step keeps the invariant.                                         *)
LEMMA NextBatch == BatchInv /\ [Next]_vars => BatchInv'
<1> SUFFICES ASSUME BatchInv, [Next]_vars PROVE BatchInv'
  OBVIOUS
<1>1. ASSUME NEW m \in Maintainers, Submission(m) PROVE BatchInv'
  BY <1>1, MovesBatch, RecoverBatch, ClaimBatch, SendBatch, StoreHandleBatch, StoreFailureBatch
     DEF Submission, Sends
<1>2. ASSUME NEW m \in Maintainers, Polling(m) PROVE BatchInv'
  BY <1>2, MovesBatch, PolledBatch DEF Polling
<1>3. ASSUME NEW m \in Maintainers, Fallback(m) PROVE BatchInv'
  BY <1>3, MovesBatch, ExhaustBatch, AttemptBatch, RedoneBatch DEF Fallback
<1>4. CASE Environment
  BY <1>4, EnqueueBatch, EnvironmentBatch, MovesBatch DEF Environment
<1>5. CASE UNCHANGED vars
  BY <1>5 DEF BatchInv, TypeOK, LockIsHeld, WorkIsKnown, Submitting, Sent, PollsOpenJobs,
     RedoesFallbacks, RowsOf, With, NothingIsStranded, ResultsAreCounted, CallsAreCounted, vars
<1> QED
  BY <1>1, <1>2, <1>3, <1>4, <1>5 DEF Next

LEMMA BatchInvariance == Spec => []BatchInv
  BY InitBatch, NextBatch, PTL DEF Spec

(* The tables, the provider's batches and what a maintainer holds are      *)
(* typed; in particular no row counts more attempts than are allowed.      *)
THEOREM BatchTypeCorrect == Spec => []TypeOK
<1>1. BatchInv => TypeOK
  BY DEF BatchInv
<1> QED
  BY <1>1, BatchInvariance, PTL

(* No row waits for a job that nobody works on, whenever a maintainer dies *)
(* between the commits of workers.py's submission and poll.                *)
THEOREM RowsAreNeverStranded == Spec => []NothingIsStranded
<1>1. BatchInv => NothingIsStranded
  BY DEF BatchInv
<1> QED
  BY <1>1, BatchInvariance, PTL

(* A request's result is written at most once, and exactly once if it      *)
(* succeeded, although a crash may leave two batches that answer it.       *)
THEOREM ResultsAreAppliedOnce == Spec => []AppliedOnce
  BY BatchInvSuffices, BatchInvariance, PTL

(* No crash buys a request more fallback calls than fallback_max_attempts. *)
THEOREM FallbackCallsAreBounded == Spec => []CallsAreBounded
  BY BatchInvSuffices, BatchInvariance, PTL

=============================================================================
