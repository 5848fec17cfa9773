------------------------ MODULE OperationOutcomeProofs ------------------------
(***************************************************************************)
(* Proofs about what OperationQueue records and reports, for every set of  *)
(* jobs, keys, pipelines and worker slots and every bound: outcomes, the   *)
(* outbox, attempt evidence, notices and domain writes, and that the queue *)
(* implements OperationLifecycle.                                          *)
(***************************************************************************)
EXTENDS OperationQueueProofs

-----------------------------------------------------------------------------
(* What a step does to the rows and their outbox.  Every action is one of  *)
(* a few kinds, and everything below argues by these kinds.                *)

Claims == 0..MaxClaims

(* The outbox gains at most the event of j's current generation and s.     *)
Recorded(j, s) ==
  \A k \in Jobs, g \in Claims, t \in Terminal :
    event'[k][g][t] =
      IF k = j /\ g = gen[j] /\ t = s /\ event[k][g][t] = "none"
        THEN "pending" ELSE event[k][g][t]

(* The pending events of the current outcomes of S are classified.         *)
Closed(S) ==
  \A k \in Jobs, g \in Claims, t \in Terminal :
    event'[k][g][t] =
      IF k \in S /\ g = gen[k] /\ t = status[k] /\ event[k][g][t] = "pending"
        THEN "classified" ELSE event[k][g][t]

RowsQuiet == UNCHANGED <<status, gen, cancelReq, event, review, commits>>

RowSubmitted(j) ==
  /\ status[j] = "absent" /\ KeyFree(j, {})
  /\ status' = [status EXCEPT ![j] = "queued"]
  /\ UNCHANGED <<gen, cancelReq, event, review, commits>>

RowAsked(j) ==
  /\ status[j] = "in_progress" /\ ~cancelReq[j]
  /\ cancelReq' = [cancelReq EXCEPT ![j] = TRUE]
  /\ UNCHANGED <<status, gen, event, review, commits>>

RowWithdrawn(j) ==
  /\ status[j] = "queued" /\ ~cancelReq[j]
  /\ cancelReq' = [cancelReq EXCEPT ![j] = TRUE]
  /\ status' = [status EXCEPT ![j] = "cancelled"]
  /\ Recorded(j, "cancelled")
  /\ UNCHANGED <<gen, review, commits>>

RowRequeued(S) ==
  /\ S \subseteq Jobs
  /\ \A j \in S : status[j] \in {"failed", "cancelled"} /\ KeyFree(j, S)
  /\ status' = [j \in Jobs |-> IF j \in S THEN "queued" ELSE status[j]]
  /\ cancelReq' = [j \in Jobs |-> IF j \in S THEN FALSE ELSE cancelReq[j]]
  /\ Closed(S) \/ (S \subseteq LegacyJobs /\ event' = event)
  /\ UNCHANGED <<gen, review, commits>>

RowClaimed(j) ==
  /\ status[j] = "queued" /\ gen[j] < MaxClaims
  /\ status' = [status EXCEPT ![j] = "in_progress"]
  /\ gen' = [gen EXCEPT ![j] = @ + 1]
  /\ UNCHANGED <<cancelReq, event, review, commits>>

RowYielded(j) ==
  /\ status[j] = "in_progress"
  /\ status' = [status EXCEPT ![j] = "queued"]
  /\ UNCHANGED <<gen, cancelReq, event, review, commits>>

RowSettled(j, s) ==
  /\ status[j] = "in_progress"
  /\ s = "completed" => ~cancelReq[j]
  /\ s = "cancelled" => cancelReq[j]
  /\ status' = [status EXCEPT ![j] = s]
  /\ Recorded(j, s)
  /\ UNCHANGED <<gen, cancelReq, review, commits>>

RowCommitted(j) ==
  /\ status[j] = "in_progress" /\ ~cancelReq[j]
  /\ commits' = commits \cup {<<j, gen[j]>>}
  /\ UNCHANGED <<status, gen, cancelReq, event, review>>

RowsStep ==
  \/ RowsQuiet
  \/ \E j \in Jobs : \/ RowSubmitted(j) \/ RowAsked(j) \/ RowWithdrawn(j)
                     \/ RowClaimed(j) \/ RowYielded(j) \/ RowCommitted(j)
                     \/ \E s \in Terminal : RowSettled(j, s)
  \/ \E S \in SUBSET Jobs : RowRequeued(S)
  \/ \E j \in Jobs, g \in Claims, s \in Terminal : PickEvent(j, g, s)
  \/ ReadSnapshot
  \/ StoreReview

(* The trigger's update, entry by entry.                                   *)
LEMMA CapturedEntries ==
  ASSUME RowsTyped, NEW j \in Jobs, NEW s \in Terminal, event' = Captured(j, s)
  PROVE  Recorded(j, s)
<1> SUFFICES ASSUME NEW k \in Jobs, NEW g \in Claims, NEW t \in Terminal
             PROVE  event'[k][g][t] =
                      IF k = j /\ g = gen[j] /\ t = s /\ event[k][g][t] = "none"
                        THEN "pending" ELSE event[k][g][t]
  BY DEF Recorded
<1> DEFINE e == event[j][gen[j]][s]
<1> DEFINE d == IF e = "none" THEN "pending" ELSE e
<1> DEFINE f == [event[j][gen[j]] EXCEPT ![s] = d]
<1> DEFINE h == [event[j] EXCEPT ![gen[j]] = f]
<1>1. event' = [event EXCEPT ![j] = h]
  BY DEF Captured
<1>2. /\ event \in [Jobs -> [Claims -> [Terminal -> Outbox]]]
      /\ gen[j] \in Claims
  BY DEF RowsTyped, Claims
<1>3. event[j] \in [Claims -> [Terminal -> Outbox]]
  BY <1>2
<1>4. event[j][gen[j]] \in [Terminal -> Outbox]
  BY <1>2, <1>3
<1>5. f[t] = IF t = s THEN d ELSE event[j][gen[j]][t]
  BY <1>4
<1>6. h[g] = IF g = gen[j] THEN f ELSE event[j][g]
  BY <1>3
<1>7. event'[k] = IF k = j THEN h ELSE event[k]
  BY <1>1, <1>2
<1> QED
  BY <1>5, <1>6, <1>7

(* The update of a retry, entry by entry.                                  *)
LEMMA ClosedEntries ==
  ASSUME NEW S, event' = ClosedBeforeRetry(S)
  PROVE  Closed(S)
  BY DEF ClosedBeforeRetry, Closed, Claims

(* A terminal transition of a running row that obeys the request to stop.  *)
LEMMA SettledRow ==
  ASSUME RowsTyped, NEW j \in Jobs, NEW s \in Terminal, SettleRow(j, s),
         status[j] = "in_progress",
         s = "completed" => ~cancelReq[j], s = "cancelled" => cancelReq[j],
         UNCHANGED <<gen, cancelReq, review, commits>>
  PROVE  RowsStep
<1>1. Recorded(j, s)
  BY CapturedEntries DEF SettleRow
<1>2. RowSettled(j, s)
  BY <1>1 DEF RowSettled, SettleRow
<1> QED
  BY <1>2 DEF RowsStep

(* Every step of the system is of one of these kinds.                      *)
LEMMA NextRows == Typed /\ Next => RowsStep
<1> SUFFICES ASSUME Typed, Next PROVE RowsStep
  OBVIOUS
<1>0. RowsTyped /\ TasksTyped
  BY DEF Typed
<1>1. ASSUME NEW j \in Jobs, Submit(j) PROVE RowsStep
  <2>1. RowSubmitted(j)
    BY <1>1 DEF Submit, RowSubmitted
  <2> QED
    BY <2>1 DEF RowsStep
<1>2. ASSUME NEW j \in Jobs, Cancel(j) PROVE RowsStep
  <2>1. CASE status[j] = "queued"
    <3>1. Recorded(j, "cancelled")
      BY <1>0, <1>2, <2>1, CapturedEntries DEF Cancel, SettleRow, Terminal
    <3>2. RowWithdrawn(j)
      BY <1>2, <2>1, <3>1 DEF Cancel, SettleRow, RowWithdrawn
    <3> QED
      BY <3>2 DEF RowsStep
  <2>2. CASE status[j] # "queued"
    <3>1. RowAsked(j)
      BY <1>2, <2>2 DEF Cancel, RowAsked, Active
    <3> QED
      BY <3>1 DEF RowsStep
  <2> QED
    BY <2>1, <2>2
<1>3. ASSUME NEW j \in Jobs, NEW kids \in SUBSET Children[j], Retry(j, kids) PROVE RowsStep
  <2> DEFINE S == {j} \cup kids
  <2>1. S \in SUBSET Jobs
    BY ChildrenAssumption
  <2>2. Closed(S)
    BY <1>3, ClosedEntries DEF Retry
  <2>3. RowRequeued(S)
    BY <1>3, <2>1, <2>2 DEF Retry, Requeue, RowRequeued
  <2> QED
    BY <2>1, <2>3 DEF RowsStep
<1>4. ASSUME NEW j \in Jobs, LegacyRetry(j) PROVE RowsStep
  <2>1. RowRequeued({j})
    BY <1>4 DEF LegacyRetry, Requeue, RowRequeued
  <2> QED
    BY <2>1 DEF RowsStep
<1>5. ASSUME NEW w \in Workers, NEW j \in Jobs, Claim(w, j) PROVE RowsStep
  <2>1. RowClaimed(j)
    BY <1>5 DEF Claim, RowClaimed
  <2> QED
    BY <2>1 DEF RowsStep
<1>6. ASSUME NEW w \in Workers, RejectMalformed(w) PROVE RowsStep
  <2>1. task[w].job \in Jobs
    BY <1>0, <1>6 DEF RejectMalformed, TasksTyped, Live
  <2>2. CASE HoldsRow(w) /\ ~cancelReq[task[w].job]
    <3>1. SettleRow(task[w].job, "failed")
      BY <1>6, <2>2 DEF RejectMalformed
    <3> QED
      BY <1>0, <1>6, <2>1, <2>2, <3>1, SettledRow DEF RejectMalformed, HoldsRow, Terminal
  <2>3. CASE ~(HoldsRow(w) /\ ~cancelReq[task[w].job])
    BY <1>6, <2>3 DEF RejectMalformed, RowUnchanged, RowsStep, RowsQuiet
  <2> QED
    BY <2>2, <2>3
<1>7. ASSUME NEW w \in Workers, CheckpointBeforeHandler(w) PROVE RowsStep
  <2>1. task[w].job \in Jobs
    BY <1>0, <1>7 DEF CheckpointBeforeHandler, TasksTyped, Live
  <2>2. CASE HoldsRow(w) /\ cancelReq[task[w].job]
    <3>1. SettleRow(task[w].job, "cancelled")
      BY <1>7, <2>2 DEF CheckpointBeforeHandler
    <3> QED
      BY <1>0, <1>7, <2>1, <2>2, <3>1, SettledRow DEF CheckpointBeforeHandler, HoldsRow, Terminal
  <2>3. CASE ~(HoldsRow(w) /\ cancelReq[task[w].job])
    BY <1>7, <2>3 DEF CheckpointBeforeHandler, RowUnchanged, RowsStep, RowsQuiet
  <2> QED
    BY <2>2, <2>3
<1>8. ASSUME NEW w \in Workers, DomainCommit(w) PROVE RowsStep
  <2>1. task[w].job \in Jobs
    BY <1>0, <1>8 DEF DomainCommit, TasksTyped, Live
  <2>2. CASE commits' = commits
    BY <1>8, <2>2 DEF DomainCommit, RowsStep, RowsQuiet
  <2>3. CASE /\ HoldsRow(w) /\ ~cancelReq[task[w].job]
             /\ commits' = commits \cup {<<task[w].job, task[w].gen>>}
    <3>1. RowCommitted(task[w].job)
      BY <1>8, <2>3 DEF DomainCommit, RowCommitted, HoldsRow
    <3> QED
      BY <2>1, <3>1 DEF RowsStep
  <2> QED
    BY <1>8, <2>2, <2>3 DEF DomainCommit
<1>9. ASSUME NEW w \in Workers, CheckpointInHandler(w) PROVE RowsStep
  <2>1. task[w].job \in Jobs
    BY <1>0, <1>9 DEF CheckpointInHandler, TasksTyped, Live
  <2> QED
    BY <1>0, <1>9, <2>1, SettledRow DEF CheckpointInHandler, HoldsRow, Terminal
<1>10. ASSUME NEW w \in Workers, Defer(w) PROVE RowsStep
  <2>1. task[w].job \in Jobs
    BY <1>0, <1>10 DEF Defer, TasksTyped, Live
  <2>2. RowYielded(task[w].job)
    BY <1>10 DEF Defer, RowYielded, HoldsRow
  <2> QED
    BY <2>1, <2>2 DEF RowsStep
<1>11. ASSUME NEW w \in Workers, Finalize(w) PROVE RowsStep
  <2> DEFINE j == task[w].job
  <2> DEFINE s == Resolution(w)
  <2>1. j \in Jobs
    BY <1>0, <1>11 DEF Finalize, TasksTyped, Live
  <2>2. UNCHANGED <<gen, cancelReq, review, commits>>
    BY <1>11 DEF Finalize
  <2>3. CASE HoldsRow(w) /\ s # "none"
    <3>1. s \in Terminal
      BY <1>0, <1>11, <2>3, ResolutionTyped DEF Finalize
    <3>2. SettleRow(j, s)
      BY <1>11, <2>3 DEF Finalize
    <3>3. /\ s = "completed" => ~cancelReq[j]
          /\ s = "cancelled" => cancelReq[j]
      BY <2>3 DEF Resolution
    <3>4. status[j] = "in_progress"
      BY <2>3 DEF HoldsRow
    <3> HIDE DEF s
    <3> QED
      BY <1>0, <2>1, <2>2, <3>1, <3>2, <3>3, <3>4, SettledRow
  <2>4. CASE ~(HoldsRow(w) /\ s # "none")
    BY <1>11, <2>2, <2>4 DEF Finalize, RowUnchanged, RowsStep, RowsQuiet
  <2> QED
    BY <2>3, <2>4
<1>12. ASSUME NEW j \in Jobs, Sweep(j) PROVE RowsStep
  BY <1>0, <1>12, SettledRow DEF Sweep, Terminal
<1>13. ASSUME NEW w \in Workers,
              \/ OwnershipGuard(w) \/ TouchBeforeHandler(w) \/ StartEvidence(w)
              \/ HandlerReturns(w) \/ HandlerRaises(w) \/ DropSuperseded(w)
              \/ Notify(w) \/ Heartbeat(w) \/ Crash(w)
       PROVE  RowsStep
  BY <1>13 DEF OwnershipGuard, TouchBeforeHandler, StartEvidence, HandlerReturns,
     HandlerRaises, DropSuperseded, Notify, Heartbeat, Crash, RowsStep, RowsQuiet
<1>14. ASSUME NEW j \in Jobs, GoStale(j) PROVE RowsStep
  BY <1>14 DEF GoStale, RowsStep, RowsQuiet
<1>15. ASSUME \/ \E j \in Jobs : \E g \in Claims : \E s \in Terminal : PickEvent(j, g, s)
              \/ ReadSnapshot \/ StoreReview
       PROVE  RowsStep
  BY <1>15 DEF RowsStep
<1> QED
  BY <1>1, <1>2, <1>3, <1>4, <1>5, <1>6, <1>7, <1>8, <1>9, <1>10, <1>11, <1>12, <1>13,
     <1>14, <1>15
  DEF Next, WorkerStep, Claims

-----------------------------------------------------------------------------
(* Outcomes.  What makes the properties inductive: an event is of a claim  *)
(* the row has reached, the running claim has none, and what is under      *)
(* review is in the outbox.                                                *)

EventsAreReached ==
  \A j \in Jobs, g \in Claims, s \in Terminal :
    event[j][g][s] # "none" => g <= gen[j]

RunningHasNoOutcome ==
  \A j \in Jobs : status[j] = "in_progress" =>
    \A s \in Terminal : event[j][gen[j]][s] = "none"

ReviewIsOfAnEvent ==
  review.job \in Jobs =>
    /\ review.status \in Terminal
    /\ event[review.job][review.gen][review.status] # "none"

EndedIsCaptured ==
  \A j \in Jobs : status[j] \in Terminal => event[j][gen[j]][status[j]] # "none"

OutboxInv ==
  /\ EventsAreReached /\ RunningHasNoOutcome /\ ReviewIsOfAnEvent
  /\ EndedIsCaptured /\ CompletedIsFinal /\ PendingEventsAreCurrent

(* The verdict is stored in one entry, which was pending.                  *)
LEMMA StoredEntries ==
  ASSUME Typed, StoreReview
  PROVE  \A k \in Jobs, g \in Claims, t \in Terminal :
           \/ event'[k][g][t] = event[k][g][t]
           \/ event[k][g][t] = "pending" /\ event'[k][g][t] \in {"classified", "rejected"}
<1> DEFINE j == review.job
<1> DEFINE c == review.gen
<1> DEFINE s == review.status
<1> DEFINE d == IF event[j][c][s] = "pending" THEN review.verdict ELSE event[j][c][s]
<1> DEFINE f == [event[j][c] EXCEPT ![s] = d]
<1> DEFINE h == [event[j] EXCEPT ![c] = f]
<1>1. /\ event \in [Jobs -> [Claims -> [Terminal -> Outbox]]]
      /\ j \in Jobs /\ c \in Claims /\ s \in Terminal
  BY DEF StoreReview, Typed, RowsTyped, ReviewTyped, Review, Claims
<1>2. event' = [event EXCEPT ![j] = h]
  BY DEF StoreReview
<1> SUFFICES ASSUME NEW k \in Jobs, NEW g \in Claims, NEW t \in Terminal
             PROVE  \/ event'[k][g][t] = event[k][g][t]
                    \/ /\ event[k][g][t] = "pending"
                       /\ event'[k][g][t] \in {"classified", "rejected"}
  OBVIOUS
<1>3. event[j] \in [Claims -> [Terminal -> Outbox]]
  BY <1>1
<1>4. event[j][c] \in [Terminal -> Outbox]
  BY <1>1, <1>3
<1>5. f[t] = IF t = s THEN d ELSE event[j][c][t]
  BY <1>4
<1>6. h[g] = IF g = c THEN f ELSE event[j][g]
  BY <1>3
<1>7. event'[k] = IF k = j THEN h ELSE event[k]
  BY <1>1, <1>2
<1>8. review.verdict \in {"classified", "rejected"}
  BY DEF StoreReview
<1> QED
  BY <1>5, <1>6, <1>7, <1>8

(* No event is ever lost.                                                  *)
LEMMA EventsStay ==
  ASSUME Typed, RowsStep
  PROVE  \A k \in Jobs, g \in Claims, t \in Terminal :
           event[k][g][t] # "none" => event'[k][g][t] # "none"
<1>1. CASE event' = event
  BY <1>1
<1>2. ASSUME NEW j \in Jobs, NEW s, Recorded(j, s)
      PROVE  \A k \in Jobs, g \in Claims, t \in Terminal :
               event[k][g][t] # "none" => event'[k][g][t] # "none"
  BY <1>2 DEF Recorded
<1>3. ASSUME NEW S, Closed(S)
      PROVE  \A k \in Jobs, g \in Claims, t \in Terminal :
               event[k][g][t] # "none" => event'[k][g][t] # "none"
  BY <1>3 DEF Closed
<1>4. CASE StoreReview
  BY <1>4, StoredEntries
<1>5. \/ event' = event
      \/ \E j \in Jobs : \E s : Recorded(j, s)
      \/ \E S : Closed(S)
      \/ StoreReview
  BY DEF RowsStep, RowsQuiet, RowSubmitted, RowAsked, RowWithdrawn, RowRequeued, RowClaimed,
     RowYielded, RowSettled, RowCommitted, PickEvent, ReadSnapshot
<1> QED
  BY <1>1, <1>2, <1>3, <1>4, <1>5

(* A terminal transition of an active row that has no pending event keeps  *)
(* what is known of the outbox.                                            *)
LEMMA RecordedOutbox ==
  ASSUME Typed, Typed', OutboxInv, NEW j \in Jobs, NEW s \in Terminal,
         status[j] \in Active, s = "completed" => status[j] = "in_progress",
         status' = [status EXCEPT ![j] = s], Recorded(j, s), UNCHANGED <<gen, review>>
  PROVE  OutboxInv'
<1> USE DEF OutboxInv, Recorded
<1>1. status \in [Jobs -> Status] /\ gen \in [Jobs -> Claims]
  BY DEF Typed, RowsTyped, Claims
<1>2. \A k \in Jobs : status'[k] = IF k = j THEN s ELSE status[k]
  BY <1>1
<1>3. EventsAreReached'
  BY <1>1, BoundAssumption DEF EventsAreReached, Claims
<1>4. RunningHasNoOutcome'
  BY <1>1, <1>2 DEF RunningHasNoOutcome, Terminal
<1>5. ReviewIsOfAnEvent'
  <2>1. review.gen \in Claims
    BY DEF Typed, ReviewTyped, Review, Claims
  <2> QED
    BY <2>1 DEF ReviewIsOfAnEvent
<1>6. EndedIsCaptured'
  BY <1>1, <1>2 DEF EndedIsCaptured
<1>7. CompletedIsFinal'
  BY <1>1, <1>2 DEF CompletedIsFinal, Claims, Active, Terminal
<1>8. PendingEventsAreCurrent'
  BY <1>1, <1>2 DEF PendingEventsAreCurrent, ReviewIsOfAnEvent, Claims, Active, Terminal
<1> QED
  BY <1>3, <1>4, <1>5, <1>6, <1>7, <1>8

(* The outbox invariant is inductive.                                      *)
LEMMA NextOutbox == Typed /\ Typed' /\ OutboxInv /\ [Next]_vars => OutboxInv'
<1> SUFFICES ASSUME Typed, Typed', OutboxInv, [Next]_vars PROVE OutboxInv'
  OBVIOUS
<1> USE DEF OutboxInv
<1>1. /\ status \in [Jobs -> Status] /\ gen \in [Jobs -> Claims]
      /\ review \in Review
  BY DEF Typed, RowsTyped, ReviewTyped, Claims
<1>2. ASSUME UNCHANGED <<status, gen, event, review>> PROVE OutboxInv'
  BY <1>2 DEF EventsAreReached, RunningHasNoOutcome, ReviewIsOfAnEvent, EndedIsCaptured,
     CompletedIsFinal, PendingEventsAreCurrent
<1>3. ASSUME NEW j \in Jobs, status[j] \notin Terminal, status[j] # "absent" => status[j] \in Active,
             status' = [status EXCEPT ![j] = "queued"], UNCHANGED <<gen, event, review>>
      PROVE  OutboxInv'
  <2>1. \A k \in Jobs : status'[k] = IF k = j THEN "queued" ELSE status[k]
    BY <1>1, <1>3
  <2>2. EventsAreReached' /\ ReviewIsOfAnEvent'
    BY <1>3 DEF EventsAreReached, ReviewIsOfAnEvent
  <2>3. RunningHasNoOutcome' /\ EndedIsCaptured'
    BY <1>3, <2>1 DEF RunningHasNoOutcome, EndedIsCaptured, Terminal
  <2>4. CompletedIsFinal'
    BY <1>3, <2>1 DEF CompletedIsFinal, Terminal
  <2>5. PendingEventsAreCurrent'
    BY <1>3, <2>1 DEF PendingEventsAreCurrent
  <2> QED
    BY <2>2, <2>3, <2>4, <2>5
<1>4. ASSUME NEW j \in Jobs, RowWithdrawn(j) PROVE OutboxInv'
  BY <1>4, RecordedOutbox DEF RowWithdrawn, Terminal, Active
<1>5. ASSUME NEW j \in Jobs, NEW s \in Terminal, RowSettled(j, s) PROVE OutboxInv'
  BY <1>5, RecordedOutbox DEF RowSettled, Active
<1>6. ASSUME NEW j \in Jobs, RowClaimed(j) PROVE OutboxInv'
  <2>1. /\ \A k \in Jobs : status'[k] = IF k = j THEN "in_progress" ELSE status[k]
        /\ \A k \in Jobs : gen'[k] = IF k = j THEN gen[k] + 1 ELSE gen[k]
        /\ status[j] = "queued" /\ event' = event /\ review' = review
    BY <1>1, <1>6 DEF RowClaimed
  <2>2. gen[j] \in Nat /\ \A k \in Jobs : gen[k] \in Claims
    BY <1>1, BoundAssumption DEF Claims
  <2>3. EventsAreReached'
    BY <2>1, <2>2, BoundAssumption DEF EventsAreReached, Claims
  <2>4. RunningHasNoOutcome'
    <3>1. gen'[j] \in Claims /\ ~(gen'[j] <= gen[j])
      BY <2>1, <2>2 DEF Typed, RowsTyped, Claims
    <3> QED
      BY <2>1, <2>2, <3>1 DEF RunningHasNoOutcome, EventsAreReached
  <2>5. EndedIsCaptured' /\ ReviewIsOfAnEvent'
    BY <2>1 DEF EndedIsCaptured, ReviewIsOfAnEvent, Terminal
  <2>6. CompletedIsFinal' /\ PendingEventsAreCurrent'
    BY <2>1 DEF CompletedIsFinal, PendingEventsAreCurrent, Terminal
  <2> QED
    BY <2>3, <2>4, <2>5, <2>6
<1>7. ASSUME NEW S \in SUBSET Jobs, RowRequeued(S) PROVE OutboxInv'
  <2>1. /\ \A k \in Jobs : status'[k] = IF k \in S THEN "queued" ELSE status[k]
        /\ \A k \in S : status[k] \in {"failed", "cancelled"}
        /\ gen' = gen /\ review' = review
    BY <1>1, <1>7 DEF RowRequeued
  <2>2. /\ \A k \in Jobs, g \in Claims, t \in Terminal :
             /\ event'[k][g][t] # "none" <=> event[k][g][t] # "none"
             /\ event'[k][g][t] = "pending" => event[k][g][t] = "pending"
        /\ \A k \in Jobs \ LegacyJobs, t \in Terminal :
             k \in S /\ event'[k][gen[k]][t] = "pending" => t # status[k]
    BY <1>1, <1>7 DEF RowRequeued, Closed
  <2>3. EventsAreReached' /\ RunningHasNoOutcome'
    BY <1>1, <2>1, <2>2 DEF EventsAreReached, RunningHasNoOutcome
  <2>4. ReviewIsOfAnEvent'
    <3>1. review.gen \in Claims
      BY <1>1 DEF Review, Claims
    <3> QED
      BY <2>1, <2>2, <3>1 DEF ReviewIsOfAnEvent
  <2>5. EndedIsCaptured'
    BY <1>1, <2>1, <2>2 DEF EndedIsCaptured, Terminal
  <2>6. CompletedIsFinal'
    BY <2>1, <2>2 DEF CompletedIsFinal, Claims, Terminal
  <2>7. PendingEventsAreCurrent'
    BY <1>1, <2>1, <2>2 DEF PendingEventsAreCurrent, Claims
  <2> QED
    BY <2>3, <2>4, <2>5, <2>6, <2>7
<1>8. ASSUME NEW j \in Jobs, NEW g \in Claims, NEW s \in Terminal, PickEvent(j, g, s)
      PROVE  OutboxInv'
  <2>1. /\ UNCHANGED <<status, gen, event>>
        /\ review' = [job |-> j, gen |-> g, status |-> s, verdict |-> "unread", evidence |-> g]
        /\ event[j][g][s] = "pending"
    BY <1>8 DEF PickEvent
  <2>2. EventsAreReached' /\ RunningHasNoOutcome' /\ EndedIsCaptured' /\ CompletedIsFinal'
    BY <2>1 DEF EventsAreReached, RunningHasNoOutcome, EndedIsCaptured, CompletedIsFinal
  <2>3. ReviewIsOfAnEvent'
    BY <2>1 DEF ReviewIsOfAnEvent
  <2>4. PendingEventsAreCurrent'
    BY <2>1 DEF PendingEventsAreCurrent
  <2> QED
    BY <2>2, <2>3, <2>4
<1>9. ASSUME ReadSnapshot PROVE OutboxInv'
  <2>1. UNCHANGED <<status, gen, event>>
    BY <1>9 DEF ReadSnapshot
  <2>2. EventsAreReached' /\ RunningHasNoOutcome' /\ EndedIsCaptured' /\ CompletedIsFinal'
    BY <2>1 DEF EventsAreReached, RunningHasNoOutcome, EndedIsCaptured, CompletedIsFinal
  <2>3. CASE review' = NoReview
    BY <2>1, <2>2, <2>3, JobsAssumption
       DEF NoReview, ReviewIsOfAnEvent, PendingEventsAreCurrent
  <2>4. CASE \E v \in {"classified", "rejected"} :
               /\ review' = [review EXCEPT !.verdict = v, !.evidence = gen[review.job]]
               /\ v = "rejected" => status[review.job] # review.status
    <3>1. PICK v \in {"classified", "rejected"} :
               /\ review' = [review EXCEPT !.verdict = v, !.evidence = gen[review.job]]
               /\ v = "rejected" => status[review.job] # review.status
      BY <2>4
    <3>2. /\ review'.job = review.job /\ review'.gen = review.gen
          /\ review'.status = review.status /\ review'.verdict = v
          /\ review'.evidence = gen[review.job]
      BY <1>1, <3>1 DEF Review
    <3> QED
      BY <2>1, <2>2, <3>1, <3>2 DEF ReviewIsOfAnEvent, PendingEventsAreCurrent
  <2> QED
    BY <1>9, <2>3, <2>4 DEF ReadSnapshot
<1>10. ASSUME StoreReview PROVE OutboxInv'
  <2>1. UNCHANGED <<status, gen>> /\ review' = NoReview
    BY <1>10 DEF StoreReview
  <2>2. \A k \in Jobs, g \in Claims, t \in Terminal :
             /\ event'[k][g][t] # "none" <=> event[k][g][t] # "none"
             /\ event'[k][g][t] = "pending" => event[k][g][t] = "pending"
    BY <1>10, StoredEntries
  <2>3. review'.job \notin Jobs
    BY <2>1, JobsAssumption DEF NoReview
  <2>4. EventsAreReached' /\ RunningHasNoOutcome'
    BY <1>1, <2>1, <2>2 DEF EventsAreReached, RunningHasNoOutcome
  <2>5. EndedIsCaptured' /\ CompletedIsFinal'
    BY <1>1, <2>1, <2>2 DEF EndedIsCaptured, CompletedIsFinal, Claims, Terminal
  <2>6. ReviewIsOfAnEvent' /\ PendingEventsAreCurrent'
    BY <2>1, <2>2, <2>3 DEF ReviewIsOfAnEvent, PendingEventsAreCurrent, Claims
  <2> QED
    BY <2>4, <2>5, <2>6
<1>11. CASE Next
  <2>1. RowsStep
    BY <1>11, NextRows
  <2>2. ASSUME NEW j \in Jobs, RowSubmitted(j) \/ RowYielded(j) PROVE OutboxInv'
    BY <1>3, <2>2 DEF RowSubmitted, RowYielded, Active, Terminal
  <2>3. ASSUME RowsQuiet \/ \E j \in Jobs : RowAsked(j) \/ RowCommitted(j) PROVE OutboxInv'
    BY <1>2, <2>3 DEF RowsQuiet, RowAsked, RowCommitted
  <2> QED
    BY <1>4, <1>5, <1>6, <1>7, <1>8, <1>9, <1>10, <2>1, <2>2, <2>3 DEF RowsStep
<1>12. CASE UNCHANGED vars
  BY <1>2, <1>12 DEF vars
<1> QED
  BY <1>11, <1>12

(* Nothing has happened in the initial state.                              *)
LEMMA InitOutbox == Init => OutboxInv
  BY BoundAssumption, JobsAssumption
  DEF Init, OutboxInv, EventsAreReached, RunningHasNoOutcome, ReviewIsOfAnEvent, EndedIsCaptured,
      CompletedIsFinal, PendingEventsAreCurrent, NoReview, Claims, Terminal

(* Every reachable state is typed, and its outbox is in order.             *)
LEMMA OutboxAlways == Spec => [](Typed /\ OutboxInv)
  BY InitTyped, InitOutbox, NextTyped, NextOutbox, PTL DEF Spec

(* Completion is final: CompletedIsFinal holds in every reachable state.   *)
THEOREM CompletionIsFinal == Spec => []CompletedIsFinal
  BY OutboxAlways, PTL DEF OutboxInv

(* What is pending describes the row as it is: PendingEventsAreCurrent     *)
(* holds in every reachable state.                                         *)
THEOREM PendingEventsStayCurrent == Spec => []PendingEventsAreCurrent
  BY OutboxAlways, PTL DEF OutboxInv

-----------------------------------------------------------------------------
(* Attempt evidence, diagnostics and notices.  A slot that runs its        *)
(* handler has open evidence, one that is to announce an outcome has it    *)
(* recorded, and nobody works any more under a claim that is reported.     *)

EvidenceIsOpen ==
  \A w \in Workers : task[w].pc \in {"handling", "finish", "drop"} =>
    attempt[task[w].job][task[w].gen] = "open"

EvidenceIsCaptured ==
  \A j \in Jobs, g \in Claims :
    attempt[j][g] \in Terminal => event[j][g][attempt[j][g]] # "none"

AnnouncedIsRecorded ==
  \A w \in Workers : task[w].pc = "notify" =>
    /\ attempt[task[w].job][task[w].gen] = task[w].target
    /\ event[task[w].job][task[w].gen][task[w].target] # "none"

(* Nobody works under claim g of j, and nobody will.                       *)
IsOver(j, g) ==
  g <= gen[j] /\ \A w \in Workers : Live(w) => <<task[w].job, task[w].gen>> # <<j, g>>

ReportedIsOver ==
  /\ \A n \in staleNoted : IsOver(n[1], n[2])
  /\ \A n \in notices : IsOver(n[1], n[2])

EvidenceInv ==
  /\ EvidenceIsOpen /\ EvidenceIsCaptured /\ AnnouncedIsRecorded
  /\ ReportedIsOver /\ ReportsAreTrue

(* What an action does that neither claims a row nor writes evidence or    *)
(* reports: a slot's evidence was open before it left its handler.         *)
EvidenceKept ==
  /\ UNCHANGED <<attempt, staleNoted, notices>>
  /\ SlotsKept
  /\ \A w \in Workers :
       /\ task'[w].pc \in {"handling", "finish", "drop"} =>
            task[w].pc \in {"handling", "finish", "drop"}
       /\ task'[w].pc = "notify" => task[w].pc = "notify" /\ task'[w].target = task[w].target

(* Moves of one slot that touch no evidence.                               *)
LEMMA MovesKeepEvidence ==
  ASSUME Typed, NEW w \in Workers, Live(w), UNCHANGED <<gen, attempt, staleNoted, notices>>,
         \/ task' = task \/ Leave(w)
         \/ \E x \in {"guard", "touch", "start"} : Goto(w, x)
         \/ task[w].pc = "handling" /\ Goto(w, "drop")
         \/ task[w].pc = "handling" /\ \E t : Finish(w, t)
  PROVE  EvidenceKept
<1>1. SlotsKept
  BY MovesKeepSlots
<1> QED
  BY <1>1 DEF EvidenceKept, Typed, TasksTyped, Task, Leave, Goto, Finish, Idle

(* Every other action is of this kind.                                     *)
LEMMA NextEvidence ==
  ASSUME Typed, Next
  PROVE  \/ EvidenceKept
         \/ \E w \in Workers : \/ \E j \in Jobs : Claim(w, j)
                               \/ StartEvidence(w) \/ Finalize(w)
                               \/ DropSuperseded(w) \/ Notify(w)
<1>1. ASSUME UNCHANGED <<gen, task, attempt, staleNoted, notices>> PROVE EvidenceKept
  BY <1>1 DEF EvidenceKept, SlotsKept, Live
<1>2. ASSUME \/ \E j \in Jobs : \/ Submit(j) \/ Cancel(j) \/ LegacyRetry(j)
                                \/ GoStale(j) \/ Sweep(j)
                                \/ \E kids \in SUBSET Children[j] : Retry(j, kids)
                                \/ \E g \in Claims, s \in Terminal : PickEvent(j, g, s)
             \/ \E w \in Workers : Heartbeat(w)
             \/ ReadSnapshot \/ StoreReview
      PROVE  EvidenceKept
  <2>1. CASE \E j \in Jobs : Submit(j) \/ Cancel(j) \/ GoStale(j) \/ Sweep(j)
    BY <1>1, <2>1 DEF Submit, Cancel, GoStale, Sweep
  <2>2. CASE \E j \in Jobs : LegacyRetry(j) \/ \E kids \in SUBSET Children[j] : Retry(j, kids)
    BY <1>1, <2>2 DEF LegacyRetry, Retry, Requeue
  <2>3. CASE \/ \E j \in Jobs, g \in Claims, s \in Terminal : PickEvent(j, g, s)
             \/ ReadSnapshot \/ StoreReview
    BY <1>1, <2>3 DEF PickEvent, ReadSnapshot, StoreReview
  <2>4. CASE \E w \in Workers : Heartbeat(w)
    BY <1>1, <2>4 DEF Heartbeat
  <2> QED
    BY <1>2, <2>1, <2>2, <2>3, <2>4
<1>3. ASSUME NEW w \in Workers,
             \/ RejectMalformed(w) \/ CheckpointBeforeHandler(w) \/ OwnershipGuard(w)
             \/ TouchBeforeHandler(w) \/ Crash(w)
      PROVE  EvidenceKept
  BY <1>3, MovesKeepEvidence DEF RejectMalformed, CheckpointBeforeHandler, OwnershipGuard,
     TouchBeforeHandler, Crash, Live
<1>4. ASSUME NEW w \in Workers,
             \/ DomainCommit(w) \/ CheckpointInHandler(w) \/ Defer(w)
             \/ HandlerReturns(w) \/ HandlerRaises(w)
      PROVE  EvidenceKept
  BY <1>4, MovesKeepEvidence DEF DomainCommit, CheckpointInHandler, Defer, HandlerReturns,
     HandlerRaises, Live
<1> QED
  BY <1>2, <1>3, <1>4 DEF Next, WorkerStep, Claims

(* What a finishing slot finds its row to be.                              *)
LEMMA ResolutionCases ==
  ASSUME TasksTyped, NEW w \in Workers, task[w].pc = "finish"
  PROVE  \/ Resolution(w) = "none"
         \/ HoldsRow(w) /\ Resolution(w) \in Terminal
         \/ /\ ~HoldsRow(w) /\ gen[task[w].job] = task[w].gen
            /\ status[task[w].job] \in Terminal
            /\ Resolution(w) = status[task[w].job]
<1>1. Resolution(w) \in Terminal \cup {"none"}
  BY ResolutionTyped
<1>2. CASE HoldsRow(w)
  BY <1>1, <1>2
<1>3. CASE ~HoldsRow(w) /\ gen[task[w].job] = task[w].gen /\ status[task[w].job] \in Terminal
  BY <1>3 DEF Resolution
<1>4. CASE ~HoldsRow(w) /\ ~(gen[task[w].job] = task[w].gen /\ status[task[w].job] \in Terminal)
  BY <1>4 DEF Resolution
<1> QED
  BY <1>2, <1>3, <1>4

(* The final transaction of a slot keeps evidence, outbox and reports in   *)
(* agreement.                                                              *)
LEMMA FinalizeEvidence ==
  ASSUME Typed, Typed', OneHolderPerGeneration, OutboxInv, EvidenceInv,
         NEW w \in Workers, Finalize(w), RowsStep
  PROVE  EvidenceInv'
<1> DEFINE j == task[w].job
<1> DEFINE c == task[w].gen
<1> DEFINE r == Resolution(w)
<1> USE DEF EvidenceInv
<1>1. /\ j \in Jobs /\ c \in Claims /\ Live(w) /\ task[w].pc = "finish"
      /\ task \in [Workers -> Task] /\ attempt \in [Jobs -> [Claims -> Evidence]]
      /\ staleNoted \subseteq Jobs \X Claims /\ notices \subseteq Jobs \X Claims \X Terminal
  BY DEF Finalize, Live, Typed, TasksTyped, HistoryTyped, Task, Claims
<1>2. UNCHANGED <<gen, staleNoted, notices>>
  BY DEF Finalize
<1>3. /\ \A k \in Jobs, g \in Claims :
           attempt'[k][g] = IF k = j /\ g = c /\ r # "none" THEN r ELSE attempt[k][g]
      /\ attempt[j][c] = "open"
  <2>1. attempt[j][c] = "open"
    BY <1>1 DEF EvidenceIsOpen
  <2>2. CASE r = "none"
    BY <2>1, <2>2 DEF Finalize
  <2>3. CASE r # "none"
    <3>1. attempt' = [attempt EXCEPT ![j][c] = r]
      BY <2>3 DEF Finalize
    <3> HIDE DEF r
    <3>2. attempt[j] \in [Claims -> Evidence]
      BY <1>1
    <3> QED
      BY <1>1, <2>1, <2>3, <3>1, <3>2
  <2> QED
    BY <2>2, <2>3
<1>4. /\ \A v \in Workers \ {w} : task'[v] = task[v]
      /\ \/ ~Live(w)'
         \/ /\ task'[w] = [task[w] EXCEPT !.pc = "notify"]
            /\ HoldsRow(w) /\ r \in Terminal /\ r = task[w].target /\ r # "cancelled"
  <2>1. CASE Leave(w)
    BY <1>1, <2>1 DEF Leave, Live, Idle
  <2>2. CASE ~Leave(w)
    <3>1. Goto(w, "notify") /\ HoldsRow(w) /\ r # "none" /\ r = task[w].target /\ r # "cancelled"
      BY <2>2 DEF Finalize
    <3>2. r \in Terminal
      BY <1>1, <3>1, ResolutionTyped DEF Typed
    <3> QED
      BY <1>1, <3>1, <3>2 DEF Goto
  <2> QED
    BY <2>1, <2>2
<1>5. r # "none" => r \in Terminal /\ event'[j][c][r] # "none"
  <2>1. CASE HoldsRow(w) /\ r \in Terminal
    <3>1. event' = Captured(j, r) /\ gen[j] = c
      BY <2>1 DEF Finalize, SettleRow, HoldsRow, Terminal
    <3>2. Recorded(j, r)
      BY <1>1, <2>1, <3>1, CapturedEntries DEF Typed
    <3> HIDE DEF r
    <3> QED
      BY <1>1, <2>1, <3>1, <3>2 DEF Recorded
  <2>2. CASE ~HoldsRow(w) /\ gen[j] = c /\ status[j] \in Terminal /\ r = status[j]
    <3>1. event' = event
      BY <2>2 DEF Finalize, RowUnchanged
    <3> QED
      BY <1>1, <2>2, <3>1 DEF OutboxInv, EndedIsCaptured
  <2> QED
    BY <1>1, <2>1, <2>2, ResolutionCases DEF Typed
<1>6. \A v \in Workers \ {w} : Live(v) => <<task[v].job, task[v].gen>> # <<j, c>>
  BY <1>1 DEF OneHolderPerGeneration
<1>7. \A v \in Workers : Live(v) => task[v].job \in Jobs /\ task[v].gen \in Claims
  BY DEF Typed, TasksTyped, Task, Claims
<1> HIDE DEF r
<1>8. EvidenceIsOpen'
  BY <1>1, <1>3, <1>4, <1>6, <1>7 DEF EvidenceIsOpen, Live, Task
<1>9. EvidenceIsCaptured'
  <2> SUFFICES ASSUME NEW k \in Jobs, NEW g \in Claims, attempt'[k][g] \in Terminal
               PROVE  event'[k][g][attempt'[k][g]] # "none"
    BY DEF EvidenceIsCaptured
  <2>1. CASE k = j /\ g = c /\ r # "none"
    BY <1>3, <1>5, <2>1
  <2>2. CASE ~(k = j /\ g = c /\ r # "none")
    <3>1. attempt'[k][g] = attempt[k][g]
      BY <1>3, <2>2
    <3> QED
      BY <3>1, EventsStay DEF EvidenceIsCaptured
  <2> QED
    BY <2>1, <2>2
<1>10. AnnouncedIsRecorded'
  <2> SUFFICES ASSUME NEW v \in Workers, task'[v].pc = "notify"
               PROVE  /\ attempt'[task'[v].job][task'[v].gen] = task'[v].target
                      /\ event'[task'[v].job][task'[v].gen][task'[v].target] # "none"
    BY DEF AnnouncedIsRecorded
  <2>1. CASE v = w
    <3>1. task'[w].job = j /\ task'[w].gen = c /\ task'[w].target = r /\ r # "none"
      BY <1>1, <1>4, <2>1 DEF Live, Task, Terminal
    <3> QED
      BY <1>1, <1>3, <1>5, <2>1, <3>1
  <2>2. CASE v # w
    <3>1. task'[v] = task[v] /\ Live(v) /\ task[v].pc = "notify" /\ task[v].target \in Terminal
      BY <1>4, <2>2 DEF Live, Typed, TasksTyped, Terminal
    <3> QED
      <4>1. /\ task[v].job \in Jobs /\ task[v].gen \in Claims
            /\ <<task[v].job, task[v].gen>> # <<j, c>>
        BY <1>6, <1>7, <2>2, <3>1
      <4>2. attempt'[task[v].job][task[v].gen] = attempt[task[v].job][task[v].gen]
        BY <1>3, <4>1
      <4>3. /\ attempt[task[v].job][task[v].gen] = task[v].target
            /\ event[task[v].job][task[v].gen][task[v].target] # "none"
        BY <3>1 DEF AnnouncedIsRecorded
      <4> QED
        BY <3>1, <4>1, <4>2, <4>3, EventsStay
  <2> QED
    BY <2>1, <2>2
<1>11. ReportedIsOver'
  <2>1. /\ \A v \in Workers : Live(v)' => Live(v)
        /\ \A v \in Workers : Live(v)' => task'[v].job = task[v].job /\ task'[v].gen = task[v].gen
    <3>1. Live(w)' => task'[w].job = task[w].job /\ task'[w].gen = task[w].gen
      BY <1>1, <1>4 DEF Task
    <3> QED
      BY <1>1, <1>4, <3>1 DEF Live
  <2>2. \A k, g : IsOver(k, g) => IsOver(k, g)'
    BY <1>2, <2>1 DEF IsOver
  <2> QED
    BY <1>2, <2>2 DEF ReportedIsOver
<1>12. <<j, c>> \notin staleNoted /\ \A n \in notices : <<n[1], n[2]>> # <<j, c>>
  BY <1>1 DEF ReportedIsOver, IsOver
<1>13. ReportsAreTrue'
  <2>1. StaleNotesAreSuperseded'
    BY <1>1, <1>2, <1>3, <1>12 DEF ReportsAreTrue, StaleNotesAreSuperseded, Claims
  <2>2. NoticesAreTrue'
    <3> SUFFICES ASSUME NEW n \in notices
                 PROVE  /\ attempt'[n[1]][n[2]] = n[3]
                        /\ event'[n[1]][n[2]][n[3]] # "none"
                        /\ n[3] # "cancelled"
      BY <1>2 DEF NoticesAreTrue
    <3>1. n[1] \in Jobs /\ n[2] \in Claims /\ n[3] \in Terminal
      BY <1>1
    <3> QED
      BY <1>3, <1>12, <3>1, EventsStay DEF ReportsAreTrue, NoticesAreTrue
  <2> QED
    BY <2>1, <2>2 DEF ReportsAreTrue
<1> QED
  BY <1>8, <1>9, <1>10, <1>11, <1>13

(* Evidence, diagnostics and notices stay true in every step.              *)
LEMMA NextEvidenceInv ==
  /\ Typed /\ Typed' /\ OneHolderPerGeneration /\ OneHolderPerGeneration'
  /\ OutboxInv /\ EvidenceInv /\ [Next]_vars
  => EvidenceInv'
<1> SUFFICES ASSUME Typed, Typed', OneHolderPerGeneration, OneHolderPerGeneration',
                    OutboxInv, EvidenceInv, [Next]_vars
             PROVE  EvidenceInv'
  OBVIOUS
<1> USE DEF EvidenceInv
<1>1. /\ task \in [Workers -> Task] /\ attempt \in [Jobs -> [Claims -> Evidence]]
      /\ staleNoted \subseteq Jobs \X Claims /\ notices \subseteq Jobs \X Claims \X Terminal
      /\ gen \in [Jobs -> Claims]
      /\ \A v \in Workers : Live(v) => task[v].job \in Jobs /\ task[v].gen \in Claims
      /\ \A v \in Workers : task[v].pc = "notify" => task[v].target \in {"completed", "failed"}
  BY DEF Typed, RowsTyped, TasksTyped, HistoryTyped, Task, Claims
<1>2. \A n \in notices : n[1] \in Jobs /\ n[2] \in Claims /\ n[3] \in Terminal
  BY <1>1
<1>3. \A n \in staleNoted : n[1] \in Jobs /\ n[2] \in Claims /\ n = <<n[1], n[2]>>
  BY <1>1
<1>4. \A g, h \in Claims : g \in Nat /\ h \in Nat
  BY BoundAssumption DEF Claims
<1>5. CASE UNCHANGED vars
  BY <1>5 DEF vars, EvidenceIsOpen, EvidenceIsCaptured, AnnouncedIsRecorded, ReportedIsOver,
     IsOver, ReportsAreTrue, StaleNotesAreSuperseded, NoticesAreTrue, Live
<1>6. CASE Next
  <2>1. RowsStep
    BY <1>6, NextRows
  <2>2. CASE EvidenceKept
    <3>1. /\ UNCHANGED <<attempt, staleNoted, notices, gen>>
          /\ \A v \in Workers : Live(v)' =>
               Live(v) /\ task'[v].job = task[v].job /\ task'[v].gen = task[v].gen
          /\ \A v \in Workers :
               /\ task'[v].pc \in {"handling", "finish", "drop"} =>
                    task[v].pc \in {"handling", "finish", "drop"}
               /\ task'[v].pc = "notify" =>
                    task[v].pc = "notify" /\ task'[v].target = task[v].target
      BY <2>2 DEF EvidenceKept, SlotsKept
    <3>2. EvidenceIsOpen'
      BY <3>1 DEF EvidenceIsOpen, Live
    <3>3. EvidenceIsCaptured'
      BY <2>1, <3>1, EventsStay DEF EvidenceIsCaptured
    <3>4. AnnouncedIsRecorded'
      BY <1>1, <2>1, <3>1, EventsStay DEF AnnouncedIsRecorded, Live, Terminal
    <3>5. ReportedIsOver'
      BY <3>1 DEF ReportedIsOver, IsOver
    <3>6. ReportsAreTrue'
      BY <1>2, <2>1, <3>1, EventsStay
         DEF ReportsAreTrue, StaleNotesAreSuperseded, NoticesAreTrue
    <3> QED
      BY <3>2, <3>3, <3>4, <3>5, <3>6
  <2>3. ASSUME NEW w \in Workers, NEW j \in Jobs, Claim(w, j) PROVE EvidenceInv'
    <3>1. /\ UNCHANGED <<attempt, staleNoted, notices, event>>
          /\ \A k \in Jobs : gen'[k] = IF k = j THEN gen[k] + 1 ELSE gen[k]
          /\ \A v \in Workers \ {w} : task'[v] = task[v]
          /\ task'[w] = [pc |-> "claimed", job |-> j, gen |-> gen[j] + 1, target |-> "none"]
      BY <1>1, <2>3 DEF Claim
    <3>2. EvidenceIsOpen' /\ AnnouncedIsRecorded' /\ EvidenceIsCaptured'
      BY <3>1 DEF EvidenceIsOpen, AnnouncedIsRecorded, EvidenceIsCaptured
    <3>3. ASSUME NEW k \in Jobs, NEW g \in Claims, IsOver(k, g) PROVE IsOver(k, g)'
      <4>1. gen[k] \in Nat /\ g \in Nat /\ g <= gen[k]
        BY <1>1, <1>4, <3>3 DEF IsOver
      <4> QED
        BY <3>1, <3>3, <4>1 DEF IsOver, Live
    <3>4. ReportedIsOver'
      BY <1>2, <1>3, <3>1, <3>3 DEF ReportedIsOver
    <3>5. ReportsAreTrue'
      BY <1>1, <1>2, <1>4, <3>1
         DEF ReportsAreTrue, StaleNotesAreSuperseded, NoticesAreTrue, Claims
    <3> QED
      BY <3>2, <3>4, <3>5
  <2>4. ASSUME NEW w \in Workers, Finalize(w) PROVE EvidenceInv'
    BY <2>1, <2>4, FinalizeEvidence
  <2>5. ASSUME NEW w \in Workers, Live(w) PROVE
          /\ \A v \in Workers \ {w} : Live(v) =>
               <<task[v].job, task[v].gen>> # <<task[w].job, task[w].gen>>
          /\ task[w].gen <= gen[task[w].job]
    BY <2>5 DEF OneHolderPerGeneration
  <2>6. ASSUME NEW w \in Workers, StartEvidence(w) PROVE EvidenceInv'
    <3> DEFINE j == task[w].job
    <3> DEFINE c == task[w].gen
    <3>1. /\ UNCHANGED <<gen, event, staleNoted, notices>>
          /\ Live(w) /\ j \in Jobs /\ c \in Claims /\ task[w].pc = "start"
      BY <1>1, <2>6 DEF StartEvidence, Live
    <3>2. /\ \A v \in Workers \ {w} : task'[v] = task[v]
          /\ ~Live(w)' \/ (task'[w].pc = "handling" /\ task'[w].job = j /\ task'[w].gen = c)
      BY <1>1, <2>6 DEF StartEvidence, Goto, Leave, Idle, Live, Task
    <3>3. /\ \A k \in Jobs, g \in Claims : <<k, g>> # <<j, c>> => attempt'[k][g] = attempt[k][g]
          /\ Live(w)' => attempt'[j][c] = "open"
          /\ attempt'[j][c] \in {attempt[j][c], "open"}
      <4>1. CASE HoldsRow(w)
        <5>1. attempt' = [attempt EXCEPT ![j][c] = "open"]
          BY <2>6, <4>1 DEF StartEvidence
        <5>2. attempt[j] \in [Claims -> Evidence]
          BY <1>1, <3>1
        <5> QED
          BY <1>1, <3>1, <5>1, <5>2
      <4>2. CASE ~HoldsRow(w)
        BY <1>1, <2>6, <4>2 DEF StartEvidence, Leave, Idle, Live
      <4> QED
        BY <4>1, <4>2
    <3>4. <<j, c>> \notin staleNoted /\ \A n \in notices : <<n[1], n[2]>> # <<j, c>>
      BY <1>1, <3>1 DEF ReportedIsOver, IsOver
    <3>5. EvidenceIsOpen'
      BY <1>1, <2>5, <3>1, <3>2, <3>3 DEF EvidenceIsOpen, Live
    <3>6. EvidenceIsCaptured'
      BY <1>1, <3>1, <3>3 DEF EvidenceIsCaptured, Terminal
    <3>7. AnnouncedIsRecorded'
      <4> SUFFICES ASSUME NEW v \in Workers, task'[v].pc = "notify"
                   PROVE  /\ attempt'[task'[v].job][task'[v].gen] = task'[v].target
                          /\ event'[task'[v].job][task'[v].gen][task'[v].target] # "none"
        BY DEF AnnouncedIsRecorded
      <4>1. v # w /\ task'[v] = task[v]
        BY <3>2 DEF Live
      <4>2. Live(v) /\ task[v].pc = "notify"
        BY <4>1 DEF Live
      <4>3. <<task[v].job, task[v].gen>> # <<j, c>>
        BY <2>5, <3>1, <4>1, <4>2
      <4>4. task[v].job \in Jobs /\ task[v].gen \in Claims
        BY <4>2 DEF Typed, TasksTyped, Task, Claims
      <4>5. attempt'[task[v].job][task[v].gen] = attempt[task[v].job][task[v].gen]
        BY <3>3, <4>3, <4>4
      <4> QED
        BY <3>1, <4>1, <4>2, <4>5 DEF AnnouncedIsRecorded
    <3>8. ReportedIsOver'
      BY <1>1, <3>1, <3>2 DEF ReportedIsOver, IsOver, Live
    <3>9. StaleNotesAreSuperseded'
      BY <3>1, <3>3, <3>4 DEF ReportsAreTrue, StaleNotesAreSuperseded, Claims
    <3>10. NoticesAreTrue'
      BY <1>2, <3>1, <3>3, <3>4 DEF ReportsAreTrue, NoticesAreTrue
    <3> QED
      BY <3>5, <3>6, <3>7, <3>8, <3>9, <3>10 DEF ReportsAreTrue
  <2>7. ASSUME NEW w \in Workers, DropSuperseded(w) PROVE EvidenceInv'
    <3>0. PICK j \in Jobs, c \in Claims : j = task[w].job /\ c = task[w].gen
      BY <1>1, <2>7 DEF DropSuperseded, Live
    <3>1. /\ UNCHANGED <<gen, event, attempt, notices>>
          /\ Live(w) /\ j \in Jobs /\ c \in Claims /\ attempt[j][c] = "open"
      BY <1>1, <2>7, <3>0 DEF DropSuperseded, EvidenceIsOpen, Live
    <3>2. /\ \A v \in Workers \ {w} : task'[v] = task[v]
          /\ ~Live(w)' /\ task'[w].pc = "idle"
      BY <1>1, <2>7 DEF DropSuperseded, Leave, Idle, Live
    <3>3. staleNoted' = staleNoted \/ (gen[j] > c /\ staleNoted' = staleNoted \cup {<<j, c>>})
      BY <2>7, <3>0 DEF DropSuperseded
    <3>4. c < gen[j] <=> gen[j] > c
      BY <1>1, <1>4, <3>1
    <3>5. IsOver(j, c)'
      BY <2>5, <3>0, <3>1, <3>2 DEF IsOver, Live
    <3>6. \A k \in Jobs, g \in Claims : IsOver(k, g) => IsOver(k, g)'
      BY <3>1, <3>2 DEF IsOver, Live
    <3>7. EvidenceIsOpen' /\ EvidenceIsCaptured' /\ AnnouncedIsRecorded'
      BY <3>1, <3>2 DEF EvidenceIsOpen, EvidenceIsCaptured, AnnouncedIsRecorded
    <3>8. ReportedIsOver'
      BY <1>2, <1>3, <3>1, <3>3, <3>5, <3>6 DEF ReportedIsOver, IsOver
    <3>9. StaleNotesAreSuperseded' /\ NoticesAreTrue'
      BY <3>1, <3>3, <3>4 DEF ReportsAreTrue, StaleNotesAreSuperseded, NoticesAreTrue
    <3> QED
      BY <3>7, <3>8, <3>9 DEF ReportsAreTrue
  <2>8. ASSUME NEW w \in Workers, Notify(w) PROVE EvidenceInv'
    <3>0. PICK j \in Jobs, c \in Claims : j = task[w].job /\ c = task[w].gen
      BY <1>1, <2>8 DEF Notify, Live
    <3>1. /\ UNCHANGED <<gen, event, attempt, staleNoted>>
          /\ Live(w) /\ j \in Jobs /\ c \in Claims
          /\ attempt[j][c] = task[w].target /\ event[j][c][task[w].target] # "none"
          /\ task[w].target # "cancelled"
          /\ notices' = notices \cup {<<j, c, task[w].target>>}
      BY <1>1, <2>8, <3>0 DEF Notify, AnnouncedIsRecorded, Live
    <3>2. /\ \A v \in Workers \ {w} : task'[v] = task[v]
          /\ ~Live(w)' /\ task'[w].pc = "idle"
      BY <1>1, <2>8 DEF Notify, Leave, Idle, Live
    <3>3. IsOver(j, c)'
      BY <2>5, <3>0, <3>1, <3>2 DEF IsOver, Live
    <3>4. \A k \in Jobs, g \in Claims : IsOver(k, g) => IsOver(k, g)'
      BY <3>1, <3>2 DEF IsOver, Live
    <3>5. EvidenceIsOpen' /\ EvidenceIsCaptured' /\ AnnouncedIsRecorded'
      BY <3>1, <3>2 DEF EvidenceIsOpen, EvidenceIsCaptured, AnnouncedIsRecorded
    <3>6. ReportedIsOver'
      BY <1>2, <1>3, <3>1, <3>3, <3>4 DEF ReportedIsOver, IsOver
    <3>7. StaleNotesAreSuperseded' /\ NoticesAreTrue'
      BY <3>1 DEF ReportsAreTrue, StaleNotesAreSuperseded, NoticesAreTrue
    <3> QED
      BY <3>5, <3>6, <3>7 DEF ReportsAreTrue
  <2> QED
    BY <1>6, <2>2, <2>3, <2>4, <2>6, <2>7, <2>8, NextEvidence
<1> QED
  BY <1>5, <1>6

(* Nothing has been reported in the initial state.                         *)
LEMMA InitEvidence == Init => EvidenceInv
  BY BoundAssumption
  DEF Init, EvidenceInv, EvidenceIsOpen, EvidenceIsCaptured, AnnouncedIsRecorded, ReportedIsOver,
      ReportsAreTrue, StaleNotesAreSuperseded, NoticesAreTrue, Idle, Claims, Terminal

(* Everything the properties rest on holds in every reachable state.       *)
LEMMA EvidenceAlways ==
  Spec => [](Typed /\ OneHolderPerGeneration /\ OutboxInv /\ EvidenceInv)
<1>1. Init => OneHolderPerGeneration
  BY DEF Init, OneHolderPerGeneration, Live, Idle
<1> QED
  BY <1>1, InitTyped, InitOutbox, InitEvidence, NextTyped, NextOneHolder, NextOutbox,
     NextEvidenceInv, PTL DEF Spec

(* Every outcome a reader can see is in the outbox: OutcomesAreCaptured    *)
(* holds in every reachable state.                                         *)
THEOREM OutcomesReachTheOutbox == Spec => []OutcomesAreCaptured
<1>1. OutboxInv /\ EvidenceInv => OutcomesAreCaptured
  BY DEF OutboxInv, EvidenceInv, EndedIsCaptured, EvidenceIsCaptured, OutcomesAreCaptured, Claims
<1> QED
  BY <1>1, EvidenceAlways, PTL

(* No diagnostic and no notice is false: ReportsAreTrue holds in every     *)
(* reachable state.                                                        *)
THEOREM ReportsStayTrue == Spec => []ReportsAreTrue
  BY EvidenceAlways, PTL DEF EvidenceInv

(* No domain write commits under a claim with an outcome on record: every  *)
(* step satisfies NoEffectAfterOutcome.                                    *)
THEOREM EffectsPrecedeOutcomes == Spec => NoEffectAfterOutcome
<1> DEFINE Step == \A j \in Jobs : \A g \in 0..MaxClaims :
                     <<j, g>> \in commits' \ commits =>
                       \A s \in Terminal : event[j][g][s] = "none"
<1>1. Typed /\ OutboxInv /\ [Next]_vars => [Step]_vars
  <2> SUFFICES ASSUME Typed, OutboxInv, Next PROVE Step
    OBVIOUS
  <2>1. RowsStep
    BY NextRows
  <2>2. CASE commits' = commits
    BY <2>2
  <2>3. ASSUME NEW j \in Jobs, RowCommitted(j) PROVE Step
    BY <2>3 DEF RowCommitted, OutboxInv, RunningHasNoOutcome
  <2> QED
    BY <2>1, <2>2, <2>3
       DEF RowsStep, RowsQuiet, RowSubmitted, RowAsked, RowWithdrawn, RowRequeued, RowClaimed,
           RowYielded, RowSettled, PickEvent, ReadSnapshot, StoreReview
<1> QED
  BY <1>1, OutboxAlways, PTL DEF Spec, NoEffectAfterOutcome

-----------------------------------------------------------------------------
(* The queue implements OperationLifecycle.  The abstract outcomes are the *)
(* events the outbox holds, pending or not.                                *)

LEMMA OutcomeEntries ==
  \A j, g, s : <<j, g, s>> \in Outcomes <=>
    j \in Jobs /\ g \in Claims /\ s \in Terminal /\ event[j][g][s] # "none"
  BY DEF Outcomes, Claims

(* Recording an outcome adds it, and nothing else adds or removes one.     *)
LEMMA RecordedOutcomes ==
  ASSUME Typed, NEW j \in Jobs, NEW s \in Terminal, Recorded(j, s)
  PROVE  Outcomes' = Outcomes \cup {<<j, gen[j], s>>}
<1>1. gen[j] \in Claims
  BY DEF Typed, RowsTyped, Claims
<1>2. \A k \in Jobs, g \in Claims, t \in Terminal :
        event'[k][g][t] # "none" <=>
          event[k][g][t] # "none" \/ (k = j /\ g = gen[j] /\ t = s)
  BY DEF Recorded
<1> QED
  BY <1>1, <1>2 DEF Outcomes, Claims

(* A change of what is recorded already leaves the outcomes as they are.   *)
LEMMA SameOutcomes ==
  ASSUME \A k \in Jobs, g \in Claims, t \in Terminal :
           event'[k][g][t] # "none" <=> event[k][g][t] # "none"
  PROVE  Outcomes' = Outcomes
  BY DEF Outcomes, Claims

(* Every step of the queue is a step of the lifecycle, or no step of it.   *)
LEMMA NextLifecycle ==
  Typed /\ OutboxInv /\ [Next]_vars => [Lifecycle!ANext]_(Lifecycle!avars)
<1> SUFFICES ASSUME Typed, OutboxInv, [Next]_vars
             PROVE  [Lifecycle!ANext]_(Lifecycle!avars)
  OBVIOUS
<1>1. /\ status \in [Jobs -> Status] /\ gen \in [Jobs -> Claims]
      /\ cancelReq \in [Jobs -> BOOLEAN]
  BY DEF Typed, RowsTyped, Claims
<1>2. Lifecycle!Ended = Terminal
  BY DEF Lifecycle!Ended, Terminal
<1>3. ASSUME UNCHANGED <<status, gen, cancelReq, commits>>, Outcomes' = Outcomes
      PROVE  UNCHANGED Lifecycle!avars
  BY <1>3 DEF Lifecycle!avars
<1>4. event' = event => Outcomes' = Outcomes
  BY DEF Outcomes
<1>5. ASSUME NEW j \in Jobs, RowSubmitted(j) PROVE Lifecycle!ANext
  BY <1>4, <1>5 DEF RowSubmitted, Lifecycle!Submitted, Lifecycle!ANext
<1>6. ASSUME NEW j \in Jobs, RowAsked(j) PROVE Lifecycle!ANext
  BY <1>4, <1>6 DEF RowAsked, Lifecycle!Asked, Lifecycle!ANext
<1>7. ASSUME NEW j \in Jobs, RowWithdrawn(j) PROVE Lifecycle!ANext
  <2>1. Outcomes' = Outcomes \cup {<<j, gen[j], "cancelled">>}
    BY <1>7, RecordedOutcomes DEF RowWithdrawn, Terminal
  <2> QED
    BY <1>7, <2>1 DEF RowWithdrawn, Lifecycle!Asked, Lifecycle!ANext
<1>8. ASSUME NEW j \in Jobs, RowClaimed(j) PROVE Lifecycle!ANext
  BY <1>4, <1>8 DEF RowClaimed, Lifecycle!Begun, Lifecycle!ANext
<1>9. ASSUME NEW j \in Jobs, RowYielded(j) PROVE Lifecycle!ANext
  BY <1>4, <1>9 DEF RowYielded, Lifecycle!Yielded, Lifecycle!ANext
<1>10. ASSUME NEW j \in Jobs, NEW s \in Terminal, RowSettled(j, s) PROVE Lifecycle!ANext
  <2>1. Outcomes' = Outcomes \cup {<<j, gen[j], s>>}
    BY <1>10, RecordedOutcomes DEF RowSettled
  <2>2. Lifecycle!Ends(j, s)
    BY <1>10, <2>1 DEF RowSettled, Lifecycle!Ends
  <2> QED
    BY <1>2, <2>2 DEF Lifecycle!ANext
<1>11. ASSUME NEW j \in Jobs, RowCommitted(j) PROVE Lifecycle!ANext
  <2>1. \A s \in Terminal : <<j, gen[j], s>> \notin Outcomes
    BY <1>11, OutcomeEntries DEF RowCommitted, OutboxInv, RunningHasNoOutcome
  <2>2. Lifecycle!Effect(j)
    BY <1>2, <1>4, <1>11, <2>1 DEF RowCommitted, Lifecycle!Effect
  <2> QED
    BY <2>2 DEF Lifecycle!ANext
<1>12. ASSUME NEW S \in SUBSET Jobs, RowRequeued(S) PROVE Lifecycle!ANext
  <2>1. Outcomes' = Outcomes
    <3>1. CASE Closed(S)
      BY <3>1, SameOutcomes DEF Closed
    <3> QED
      BY <1>4, <1>12, <3>1 DEF RowRequeued
  <2>2. \A j \in S : /\ status[j] \in {"failed", "cancelled"}
                     /\ <<j, gen[j], status[j]>> \in Outcomes
    BY <1>1, <1>12, OutcomeEntries DEF RowRequeued, OutboxInv, EndedIsCaptured, Terminal
  <2>3. Lifecycle!Requeued(S)
    BY <1>12, <2>1, <2>2 DEF RowRequeued, Lifecycle!Requeued
  <2> QED
    BY <2>3 DEF Lifecycle!ANext
<1>13. ASSUME NEW j \in Jobs, NEW g \in Claims, NEW s \in Terminal, PickEvent(j, g, s)
       PROVE  UNCHANGED Lifecycle!avars
  BY <1>3, <1>4, <1>13 DEF PickEvent
<1>14. ASSUME RowsQuiet \/ ReadSnapshot PROVE UNCHANGED Lifecycle!avars
  BY <1>3, <1>4, <1>14 DEF RowsQuiet, ReadSnapshot
<1>15. ASSUME StoreReview PROVE UNCHANGED Lifecycle!avars
  <2>1. Outcomes' = Outcomes
    BY <1>15, StoredEntries, SameOutcomes
  <2> QED
    BY <1>3, <1>15, <2>1 DEF StoreReview
<1>16. CASE Next
  <2>1. RowsStep
    BY <1>16, NextRows
  <2> QED
    BY <1>5, <1>6, <1>7, <1>8, <1>9, <1>10, <1>11, <1>12, <1>13, <1>14, <1>15, <2>1
       DEF RowsStep
<1>17. CASE UNCHANGED vars
  BY <1>3, <1>4, <1>17 DEF vars
<1> QED
  BY <1>16, <1>17

(* The queue, whatever its slots, sweeps, retries and crashes do, is an    *)
(* implementation of the operation's lifecycle: ImplementsLifecycle.       *)
THEOREM QueueImplementsLifecycle == Spec => ImplementsLifecycle
<1>1. Init => Lifecycle!AInit
  <2> SUFFICES ASSUME Init PROVE Lifecycle!AInit
    OBVIOUS
  <2>1. Outcomes = {}
    BY DEF Init, Outcomes
  <2> QED
    BY <2>1 DEF Init, Lifecycle!AInit
<1> QED
  BY <1>1, OutboxAlways, NextLifecycle, PTL DEF Spec, ImplementsLifecycle, Lifecycle!ASpec

=============================================================================
