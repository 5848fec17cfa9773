------------------------ MODULE OperationQueueProofs ------------------------
(***************************************************************************)
(* Proofs about OperationQueue, for every set of jobs and worker slots and *)
(* every bound.                                                            *)
(***************************************************************************)
EXTENDS OperationQueue, TLAPS

-----------------------------------------------------------------------------
(* Types.  The type invariant is proved in four parts, strengthened with   *)
(* what the type of task and review leaves open: a live slot works on a    *)
(* job, finishes with a terminal status and announces only a completion or *)
(* a failure, and an event under review is an event of a job.              *)

RowsTyped ==
  /\ status \in [Jobs -> Status]
  /\ gen \in [Jobs -> 0..MaxClaims]
  /\ cancelReq \in [Jobs -> BOOLEAN]
  /\ fresh \in [Jobs -> BOOLEAN]
  /\ event \in [Jobs -> [0..MaxClaims -> [Terminal -> Outbox]]]

TasksTyped ==
  /\ task \in [Workers -> Task]
  /\ \A w \in Workers :
       /\ Live(w) => task[w].job \in Jobs
       /\ task[w].pc = "finish" => task[w].target \in Terminal
       /\ task[w].pc = "notify" => task[w].target \in {"completed", "failed"}

HistoryTyped ==
  /\ attempt \in [Jobs -> [0..MaxClaims -> Evidence]]
  /\ staleNoted \subseteq Jobs \X (0..MaxClaims)
  /\ commits \subseteq Jobs \X (0..MaxClaims)
  /\ notices \subseteq Jobs \X (0..MaxClaims) \X Terminal
  /\ crashes \in 0..MaxCrashes

ReviewTyped ==
  /\ review \in Review
  /\ review.verdict # "none" => review.job \in Jobs /\ review.status \in Terminal

Typed == RowsTyped /\ TasksTyped /\ HistoryTyped /\ ReviewTyped

(* The strengthened parts give the type invariant.                         *)
LEMMA TypedImpliesTypeOK == Typed => TypeOK
  BY DEF Typed, TypeOK, RowsTyped, TasksTyped, HistoryTyped, ReviewTyped

(* The initial state is typed.                                             *)
LEMMA InitTyped == Init => Typed
<1> SUFFICES ASSUME Init PROVE Typed
  OBVIOUS
<1> USE BoundAssumption DEF Init
<1>1. RowsTyped
  BY DEF RowsTyped, Status, Active, Terminal, Outbox
<1>2. TasksTyped
  BY DEF TasksTyped, Live, Idle, Task, Stage, Terminal
<1>3. HistoryTyped
  BY DEF HistoryTyped, Evidence
<1>4. ReviewTyped
  BY DEF ReviewTyped, NoReview, Review
<1> QED
  BY <1>1, <1>2, <1>3, <1>4 DEF Typed

(* A transition into a terminal status keeps the rows typed.               *)
LEMMA SettleRowTyped ==
  ASSUME RowsTyped, NEW j \in Jobs, NEW s \in Terminal, SettleRow(j, s),
         gen' = gen, cancelReq' \in [Jobs -> BOOLEAN]
  PROVE  RowsTyped'
<1>1. s \in Status
  BY DEF Status
<1>2. status' \in [Jobs -> Status] /\ fresh' \in [Jobs -> BOOLEAN]
  BY <1>1 DEF RowsTyped, SettleRow
<1>3. gen[j] \in 0..MaxClaims
  BY DEF RowsTyped
<1>4. event' \in [Jobs -> [0..MaxClaims -> [Terminal -> Outbox]]]
  <2> DEFINE e == event[j][gen[j]][s]
  <2> DEFINE f == [event[j][gen[j]] EXCEPT ![s] = IF e = "none" THEN "pending" ELSE e]
  <2>1. f \in [Terminal -> Outbox]
    <3>1. event[j][gen[j]] \in [Terminal -> Outbox]
      <4>1. event[j] \in [0..MaxClaims -> [Terminal -> Outbox]]
        BY DEF RowsTyped
      <4> QED
        BY <1>3, <4>1
    <3>2. e \in Outbox /\ "pending" \in Outbox
      BY <3>1 DEF Outbox
    <3> QED
      BY <3>1, <3>2
  <2>2. [event[j] EXCEPT ![gen[j]] = f] \in [0..MaxClaims -> [Terminal -> Outbox]]
    BY <1>3, <2>1 DEF RowsTyped
  <2>3. event' = [event EXCEPT ![j][gen[j]][s] = IF @ = "none" THEN "pending" ELSE @]
    BY DEF SettleRow, Captured
  <2>4. event' = [event EXCEPT ![j] = [event[j] EXCEPT ![gen[j]] = f]]
    BY <2>3
  <2> QED
    BY <2>2, <2>4 DEF RowsTyped
<1> QED
  BY <1>2, <1>4 DEF RowsTyped

(* What a slot does to its own place in the protocol keeps slots typed.    *)
LEMMA GotoTyped ==
  ASSUME TasksTyped, NEW w \in Workers, Live(w),
         NEW pc \in Stage \ {"idle", "finish", "notify"}, Goto(w, pc)
  PROVE  TasksTyped'
  BY DEF TasksTyped, Live, Goto, Task

(* So does finishing: the slot keeps its job and carries its outcome.      *)
LEMMA FinishTyped ==
  ASSUME TasksTyped, NEW w \in Workers, Live(w), NEW t \in Terminal, Finish(w, t)
  PROVE  TasksTyped'
<1>1. PICK x \in Task : x.job = task[w].job /\ x.pc = "finish" /\ x.target = t
                        /\ task' = [task EXCEPT ![w] = x]
  <2> DEFINE x == [task[w] EXCEPT !.pc = "finish", !.target = t]
  <2>1. task' = [task EXCEPT ![w] = x] /\ task[w] \in Task
    BY DEF Finish, TasksTyped
  <2>2. x \in Task /\ x.job = task[w].job /\ x.pc = "finish" /\ x.target = t
    BY <2>1 DEF Task, Stage
  <2> HIDE DEF x
  <2> QED
    BY <2>1, <2>2
<1>2. \A v \in Workers : task'[v] = IF v = w THEN x ELSE task[v]
  BY <1>1 DEF TasksTyped
<1>3. task' \in [Workers -> Task]
  BY <1>1 DEF TasksTyped
<1>4. x.pc # "notify"
  BY <1>1
<1> QED
  BY <1>1, <1>2, <1>3, <1>4 DEF TasksTyped, Live

(* And so does leaving, which makes the slot an idle one.                  *)
LEMMA LeaveTyped ==
  ASSUME TasksTyped, NEW w \in Workers, Leave(w)
  PROVE  TasksTyped'
  BY BoundAssumption DEF TasksTyped, Live, Leave, Idle, Task, Stage

(* What a slot can resolve its row to.                                     *)
LEMMA ResolutionTyped ==
  ASSUME TasksTyped, NEW w \in Workers, task[w].pc = "finish"
  PROVE  Resolution(w) \in Terminal \cup {"none"}
  BY DEF TasksTyped, Resolution, Terminal

(* Updating one entry of a function of functions keeps its type.           *)
LEMMA UpdateTyped2 ==
  ASSUME NEW X, NEW Y, NEW Z, NEW f \in [X -> [Y -> Z]],
         NEW x \in X, NEW y \in Y, NEW z \in Z
  PROVE  [f EXCEPT ![x][y] = z] \in [X -> [Y -> Z]]
<1>1. [f[x] EXCEPT ![y] = z] \in [Y -> Z]
  OBVIOUS
<1> QED
  BY <1>1

(* And one entry of a function of functions of functions.                  *)
LEMMA UpdateTyped3 ==
  ASSUME NEW A, NEW B, NEW C, NEW D, NEW f \in [A -> [B -> [C -> D]]],
         NEW a \in A, NEW b \in B, NEW c \in C, NEW d \in D
  PROVE  [f EXCEPT ![a][b][c] = d] \in [A -> [B -> [C -> D]]]
<1>1. f[a] \in [B -> [C -> D]]
  OBVIOUS
<1>2. [f[a] EXCEPT ![b][c] = d] \in [B -> [C -> D]]
  BY <1>1, UpdateTyped2
<1> QED
  BY <1>2

(* An entry of the outbox.                                                 *)
LEMMA EventTyped ==
  ASSUME RowsTyped, NEW j \in Jobs, NEW g \in 0..MaxClaims, NEW s \in Terminal
  PROVE  event[j][g][s] \in Outbox
<1>1. event[j] \in [0..MaxClaims -> [Terminal -> Outbox]]
  BY DEF RowsTyped
<1> QED
  BY <1>1

(* Closing the attempts of a retry keeps the outbox typed.                 *)
LEMMA ClosedTyped ==
  ASSUME RowsTyped, NEW S
  PROVE  ClosedBeforeRetry(S) \in [Jobs -> [0..MaxClaims -> [Terminal -> Outbox]]]
<1>1. ASSUME NEW j \in Jobs, NEW g \in 0..MaxClaims, NEW s \in Terminal
      PROVE  event[j][g][s] \in Outbox
  <2>1. event[j] \in [0..MaxClaims -> [Terminal -> Outbox]]
    BY DEF RowsTyped
  <2> QED
    BY <2>1
<1>2. "classified" \in Outbox
  BY DEF Outbox
<1> QED
  BY <1>1, <1>2 DEF ClosedBeforeRetry

(* Every step of the system keeps the state typed.                         *)
LEMMA NextTyped == Typed /\ [Next]_vars => Typed'
<1> SUFFICES ASSUME Typed, [Next]_vars PROVE Typed'
  OBVIOUS
<1>1. ASSUME NEW j \in Jobs, Submit(j) PROVE Typed'
  <2>1. RowsTyped'
    BY <1>1, BoundAssumption DEF Typed, Submit, RowsTyped, Status, Active
  <2>2. TasksTyped'
    BY <1>1 DEF Submit, Typed, TasksTyped, Live
  <2>3. HistoryTyped'
    BY <1>1 DEF Submit, Typed, HistoryTyped
  <2>4. ReviewTyped'
    BY <1>1 DEF Submit, Typed, ReviewTyped
  <2> QED
    BY <2>1, <2>2, <2>3, <2>4 DEF Typed
<1>2. ASSUME NEW j \in Jobs, Cancel(j) PROVE Typed'
  <2>1. RowsTyped'
    <3>1. cancelReq' \in [Jobs -> BOOLEAN] /\ gen' = gen
      BY <1>2 DEF Cancel, Typed, RowsTyped
    <3>2. CASE status[j] = "queued"
      <4>1. SettleRow(j, "cancelled")
        BY <1>2, <3>2 DEF Cancel
      <4> QED
        BY <3>1, <4>1, SettleRowTyped DEF Typed, Terminal
    <3>3. CASE status[j] # "queued"
      BY <1>2, <3>1, <3>3 DEF Cancel, Typed, RowsTyped
    <3> QED
      BY <3>2, <3>3
  <2>2. TasksTyped'
    BY <1>2 DEF Cancel, Typed, TasksTyped, Live
  <2>3. HistoryTyped'
    BY <1>2 DEF Cancel, Typed, HistoryTyped
  <2>4. ReviewTyped'
    BY <1>2 DEF Cancel, Typed, ReviewTyped
  <2> QED
    BY <2>1, <2>2, <2>3, <2>4 DEF Typed
<1>3. ASSUME NEW j \in Jobs, NEW kids \in SUBSET Children[j], Retry(j, kids) PROVE Typed'
  <2>1. RowsTyped'
    <3>1. event' = ClosedBeforeRetry({j} \cup kids)
      BY <1>3 DEF Retry
    <3>2. event' \in [Jobs -> [0..MaxClaims -> [Terminal -> Outbox]]]
      BY <3>1, ClosedTyped DEF Typed
    <3> QED
      BY <1>3, <3>2 DEF Retry, Requeue, Typed, RowsTyped, Status, Active
  <2>2. TasksTyped'
    BY <1>3 DEF Retry, Requeue, Typed, TasksTyped, Live
  <2>3. HistoryTyped'
    BY <1>3 DEF Retry, Requeue, Typed, HistoryTyped
  <2>4. ReviewTyped'
    BY <1>3 DEF Retry, Requeue, Typed, ReviewTyped
  <2> QED
    BY <2>1, <2>2, <2>3, <2>4 DEF Typed
<1>4. ASSUME NEW j \in Jobs, LegacyRetry(j) PROVE Typed'
  <2>1. RowsTyped'
    BY <1>4, BoundAssumption DEF Typed, LegacyRetry, Requeue, RowsTyped, Status, Active
  <2>2. TasksTyped'
    BY <1>4 DEF LegacyRetry, Requeue, Typed, TasksTyped, Live
  <2>3. HistoryTyped'
    BY <1>4 DEF LegacyRetry, Requeue, Typed, HistoryTyped
  <2>4. ReviewTyped'
    BY <1>4 DEF LegacyRetry, Requeue, Typed, ReviewTyped
  <2> QED
    BY <2>1, <2>2, <2>3, <2>4 DEF Typed
<1>5. ASSUME NEW w \in Workers, NEW j \in Jobs, Claim(w, j) PROVE Typed'
  <2>1. RowsTyped'
    BY <1>5, BoundAssumption DEF Typed, Claim, RowsTyped, Status, Active
  <2>2. TasksTyped'
    <3>1. gen[j] + 1 \in 0..MaxClaims
      BY <1>5, BoundAssumption DEF Claim, Typed, RowsTyped
    <3>2. task' = [task EXCEPT ![w] = [pc |-> "claimed", job |-> j,
                                       gen |-> gen[j] + 1, target |-> "none"]]
      BY <1>5 DEF Claim
    <3> QED
      BY <3>1, <3>2 DEF Typed, TasksTyped, Live, Task, Stage
  <2>3. HistoryTyped'
    BY <1>5 DEF Claim, Typed, HistoryTyped
  <2>4. ReviewTyped'
    BY <1>5 DEF Claim, Typed, ReviewTyped
  <2> QED
    BY <2>1, <2>2, <2>3, <2>4 DEF Typed
<1>6. ASSUME NEW w \in Workers, RejectMalformed(w) PROVE Typed'
  <2>1. RowsTyped'
    <3>1. task[w].job \in Jobs
      BY <1>6 DEF RejectMalformed, Typed, TasksTyped, Live
    <3>2. CASE SettleRow(task[w].job, "failed")
      BY <1>6, <3>1, <3>2, SettleRowTyped DEF RejectMalformed, Typed, RowsTyped, Terminal
    <3>3. CASE RowUnchanged
      BY <1>6, <3>3 DEF RejectMalformed, RowUnchanged, Typed, RowsTyped
    <3> QED
      BY <1>6, <3>2, <3>3 DEF RejectMalformed
  <2>2. TasksTyped'
    BY <1>6, LeaveTyped DEF RejectMalformed, Typed
  <2>3. HistoryTyped'
    BY <1>6 DEF RejectMalformed, Typed, HistoryTyped
  <2>4. ReviewTyped'
    BY <1>6 DEF RejectMalformed, Typed, ReviewTyped
  <2> QED
    BY <2>1, <2>2, <2>3, <2>4 DEF Typed
<1>7. ASSUME NEW w \in Workers, CheckpointBeforeHandler(w) PROVE Typed'
  <2>1. RowsTyped'
    <3>1. task[w].job \in Jobs
      BY <1>7 DEF CheckpointBeforeHandler, Typed, TasksTyped, Live
    <3>2. CASE SettleRow(task[w].job, "cancelled")
      BY <1>7, <3>1, <3>2, SettleRowTyped DEF CheckpointBeforeHandler, Typed, RowsTyped, Terminal
    <3>3. CASE RowUnchanged
      BY <1>7, <3>3 DEF CheckpointBeforeHandler, RowUnchanged, Typed, RowsTyped
    <3> QED
      BY <1>7, <3>2, <3>3 DEF CheckpointBeforeHandler
  <2>2. TasksTyped'
    <3>1. CASE Leave(w)
      BY <3>1, LeaveTyped DEF Typed
    <3>2. CASE Goto(w, IF Authority = {} THEN "touch" ELSE "guard")
      BY <1>7, <3>2, GotoTyped DEF CheckpointBeforeHandler, Typed, Live, Stage
    <3> QED
      BY <1>7, <3>1, <3>2 DEF CheckpointBeforeHandler
  <2>3. HistoryTyped'
    BY <1>7 DEF CheckpointBeforeHandler, Typed, HistoryTyped
  <2>4. ReviewTyped'
    BY <1>7 DEF CheckpointBeforeHandler, Typed, ReviewTyped
  <2> QED
    BY <2>1, <2>2, <2>3, <2>4 DEF Typed
<1>8. ASSUME NEW w \in Workers, OwnershipGuard(w) PROVE Typed'
  <2>1. RowsTyped'
    BY <1>8 DEF OwnershipGuard, Typed, RowsTyped
  <2>2. TasksTyped'
    <3>1. CASE Leave(w)
      BY <3>1, LeaveTyped DEF Typed
    <3>2. CASE Goto(w, "touch")
      BY <1>8, <3>2, GotoTyped DEF OwnershipGuard, Typed, Live, Stage
    <3> QED
      BY <1>8, <3>1, <3>2 DEF OwnershipGuard
  <2>3. HistoryTyped'
    BY <1>8 DEF OwnershipGuard, Typed, HistoryTyped
  <2>4. ReviewTyped'
    BY <1>8 DEF OwnershipGuard, Typed, ReviewTyped
  <2> QED
    BY <2>1, <2>2, <2>3, <2>4 DEF Typed
<1>9. ASSUME NEW w \in Workers, TouchBeforeHandler(w) PROVE Typed'
  <2>1. RowsTyped'
    BY <1>9, BoundAssumption DEF Typed, TouchBeforeHandler, RowsTyped
  <2>2. TasksTyped'
    <3>1. CASE Leave(w)
      BY <3>1, LeaveTyped DEF Typed
    <3>2. CASE Goto(w, "start")
      BY <1>9, <3>2, GotoTyped DEF TouchBeforeHandler, Typed, Live, Stage
    <3> QED
      BY <1>9, <3>1, <3>2 DEF TouchBeforeHandler
  <2>3. HistoryTyped'
    BY <1>9 DEF TouchBeforeHandler, Typed, HistoryTyped
  <2>4. ReviewTyped'
    BY <1>9 DEF TouchBeforeHandler, Typed, ReviewTyped
  <2> QED
    BY <2>1, <2>2, <2>3, <2>4 DEF Typed
<1>10. ASSUME NEW w \in Workers, StartEvidence(w) PROVE Typed'
  <2>1. RowsTyped'
    BY <1>10 DEF StartEvidence, Typed, RowsTyped
  <2>2. TasksTyped'
    <3>1. CASE Leave(w)
      BY <3>1, LeaveTyped DEF Typed
    <3>2. CASE Goto(w, "handling")
      BY <1>10, <3>2, GotoTyped DEF StartEvidence, Typed, Live, Stage
    <3> QED
      BY <1>10, <3>1, <3>2 DEF StartEvidence
  <2>3. HistoryTyped'
    <3>1. task[w].job \in Jobs /\ task[w].gen \in 0..MaxClaims
      BY <1>10 DEF StartEvidence, Typed, TasksTyped, Live, Task
    <3>2. attempt' \in [Jobs -> [0..MaxClaims -> Evidence]]
      <4>1. "open" \in Evidence /\ attempt \in [Jobs -> [0..MaxClaims -> Evidence]]
        BY DEF Evidence, Typed, HistoryTyped
      <4>2. [attempt EXCEPT ![task[w].job][task[w].gen] = "open"]
              \in [Jobs -> [0..MaxClaims -> Evidence]]
        BY <3>1, <4>1, UpdateTyped2
      <4> QED
        BY <1>10, <4>1, <4>2 DEF StartEvidence
    <3> QED
      BY <1>10, <3>2 DEF StartEvidence, Typed, HistoryTyped
  <2>4. ReviewTyped'
    BY <1>10 DEF StartEvidence, Typed, ReviewTyped
  <2> QED
    BY <2>1, <2>2, <2>3, <2>4 DEF Typed
<1>11. ASSUME NEW w \in Workers, Heartbeat(w) PROVE Typed'
  <2>1. RowsTyped'
    BY <1>11, BoundAssumption DEF Typed, Heartbeat, RowsTyped
  <2>2. TasksTyped'
    BY <1>11 DEF Heartbeat, Typed, TasksTyped, Live
  <2>3. HistoryTyped'
    BY <1>11 DEF Heartbeat, Typed, HistoryTyped
  <2>4. ReviewTyped'
    BY <1>11 DEF Heartbeat, Typed, ReviewTyped
  <2> QED
    BY <2>1, <2>2, <2>3, <2>4 DEF Typed
<1>12. ASSUME NEW w \in Workers, DomainCommit(w) PROVE Typed'
  <2>1. RowsTyped'
    BY <1>12 DEF DomainCommit, Typed, RowsTyped
  <2>2. TasksTyped'
    <3>1. CASE Goto(w, "drop")
      BY <1>12, <3>1, GotoTyped DEF DomainCommit, Typed, Live, Stage
    <3>2. CASE Finish(w, "cancelled")
      BY <1>12, <3>2, FinishTyped DEF DomainCommit, Typed, Live, Terminal
    <3>3. CASE task' = task
      BY <3>3 DEF Typed, TasksTyped, Live
    <3> QED
      BY <1>12, <3>1, <3>2, <3>3 DEF DomainCommit
  <2>3. HistoryTyped'
    <3>1. <<task[w].job, task[w].gen>> \in Jobs \X (0..MaxClaims)
      BY <1>12 DEF DomainCommit, Typed, TasksTyped, Live, Task
    <3>2. commits' \subseteq Jobs \X (0..MaxClaims)
      BY <1>12, <3>1 DEF DomainCommit, Typed, HistoryTyped
    <3> QED
      BY <1>12, <3>2 DEF DomainCommit, Typed, HistoryTyped
  <2>4. ReviewTyped'
    BY <1>12 DEF DomainCommit, Typed, ReviewTyped
  <2> QED
    BY <2>1, <2>2, <2>3, <2>4 DEF Typed
<1>13. ASSUME NEW w \in Workers, CheckpointInHandler(w) PROVE Typed'
  <2>1. RowsTyped'
    <3>1. task[w].job \in Jobs
      BY <1>13 DEF CheckpointInHandler, Typed, TasksTyped, Live
    <3> QED
      BY <1>13, <3>1, SettleRowTyped
      DEF CheckpointInHandler, Typed, RowsTyped, Terminal
  <2>2. TasksTyped'
    BY <1>13, FinishTyped DEF CheckpointInHandler, Typed, Live, Terminal
  <2>3. HistoryTyped'
    BY <1>13 DEF CheckpointInHandler, Typed, HistoryTyped
  <2>4. ReviewTyped'
    BY <1>13 DEF CheckpointInHandler, Typed, ReviewTyped
  <2> QED
    BY <2>1, <2>2, <2>3, <2>4 DEF Typed
<1>14. ASSUME NEW w \in Workers, Defer(w) PROVE Typed'
  <2>1. RowsTyped'
    BY <1>14, BoundAssumption DEF Typed, Defer, RowsTyped, Status, Active
  <2>2. TasksTyped'
    BY <1>14, FinishTyped DEF Defer, Typed, Live, Terminal
  <2>3. HistoryTyped'
    BY <1>14 DEF Defer, Typed, HistoryTyped
  <2>4. ReviewTyped'
    BY <1>14 DEF Defer, Typed, ReviewTyped
  <2> QED
    BY <2>1, <2>2, <2>3, <2>4 DEF Typed
<1>15. ASSUME NEW w \in Workers, HandlerReturns(w) PROVE Typed'
  <2>1. RowsTyped'
    BY <1>15 DEF HandlerReturns, Typed, RowsTyped
  <2>2. TasksTyped'
    BY <1>15, FinishTyped DEF HandlerReturns, Typed, Live, Terminal
  <2>3. HistoryTyped'
    BY <1>15 DEF HandlerReturns, Typed, HistoryTyped
  <2>4. ReviewTyped'
    BY <1>15 DEF HandlerReturns, Typed, ReviewTyped
  <2> QED
    BY <2>1, <2>2, <2>3, <2>4 DEF Typed
<1>16. ASSUME NEW w \in Workers, HandlerRaises(w) PROVE Typed'
  <2>1. RowsTyped'
    BY <1>16 DEF HandlerRaises, Typed, RowsTyped
  <2>2. TasksTyped'
    BY <1>16, FinishTyped DEF HandlerRaises, Typed, Live, Terminal
  <2>3. HistoryTyped'
    BY <1>16 DEF HandlerRaises, Typed, HistoryTyped
  <2>4. ReviewTyped'
    BY <1>16 DEF HandlerRaises, Typed, ReviewTyped
  <2> QED
    BY <2>1, <2>2, <2>3, <2>4 DEF Typed
<1>17. ASSUME NEW w \in Workers, Finalize(w) PROVE Typed'
  <2>1. RowsTyped'
    <3>1. task[w].job \in Jobs
      BY <1>17 DEF Finalize, Typed, TasksTyped, Live
    <3>2. CASE HoldsRow(w) /\ Resolution(w) # "none"
      <4>1. Resolution(w) \in Terminal
        BY <1>17, <3>2, ResolutionTyped DEF Finalize, Typed
      <4>2. SettleRow(task[w].job, Resolution(w))
        BY <1>17, <3>2 DEF Finalize
      <4> QED
        BY <1>17, <3>1, <4>1, <4>2, SettleRowTyped DEF Finalize, Typed, RowsTyped
    <3>3. CASE ~(HoldsRow(w) /\ Resolution(w) # "none")
      BY <1>17, <3>3 DEF Finalize, RowUnchanged, Typed, RowsTyped
    <3> QED
      BY <3>2, <3>3
  <2>2. TasksTyped'
    <3>1. CASE Leave(w)
      BY <3>1, LeaveTyped DEF Typed
    <3>2. CASE Goto(w, "notify") /\ task[w].target # "cancelled"
      <4>1. task[w].target \in {"completed", "failed"}
        BY <1>17, <3>2 DEF Finalize, Typed, TasksTyped, Terminal
      <4> QED
        BY <1>17, <3>2, <4>1 DEF Finalize, Typed, TasksTyped, Live, Goto, Task, Stage
    <3> QED
      BY <1>17, <3>1, <3>2 DEF Finalize
  <2>3. HistoryTyped'
    <3>1. task[w].job \in Jobs /\ task[w].gen \in 0..MaxClaims
      BY <1>17 DEF Finalize, Typed, TasksTyped, Live, Task
    <3>2. Resolution(w) \in Evidence
      BY <1>17, ResolutionTyped DEF Finalize, Typed, Evidence
    <3>3. attempt' \in [Jobs -> [0..MaxClaims -> Evidence]]
      BY <1>17, <3>1, <3>2, UpdateTyped2 DEF Finalize, Typed, HistoryTyped
    <3> QED
      BY <1>17, <3>3 DEF Finalize, Typed, HistoryTyped
  <2>4. ReviewTyped'
    BY <1>17 DEF Finalize, Typed, ReviewTyped
  <2> QED
    BY <2>1, <2>2, <2>3, <2>4 DEF Typed
<1>18. ASSUME NEW w \in Workers, DropSuperseded(w) PROVE Typed'
  <2>1. RowsTyped'
    BY <1>18 DEF DropSuperseded, Typed, RowsTyped
  <2>2. TasksTyped'
    BY <1>18, LeaveTyped DEF DropSuperseded, Typed
  <2>3. HistoryTyped'
    <3>1. <<task[w].job, task[w].gen>> \in Jobs \X (0..MaxClaims)
      BY <1>18 DEF DropSuperseded, Typed, TasksTyped, Live, Task
    <3>2. staleNoted' \subseteq Jobs \X (0..MaxClaims)
      BY <1>18, <3>1 DEF DropSuperseded, Typed, HistoryTyped
    <3> QED
      BY <1>18, <3>2 DEF DropSuperseded, Typed, HistoryTyped
  <2>4. ReviewTyped'
    BY <1>18 DEF DropSuperseded, Typed, ReviewTyped
  <2> QED
    BY <2>1, <2>2, <2>3, <2>4 DEF Typed
<1>19. ASSUME NEW w \in Workers, Notify(w) PROVE Typed'
  <2>1. RowsTyped'
    BY <1>19 DEF Notify, Typed, RowsTyped
  <2>2. TasksTyped'
    BY <1>19, LeaveTyped DEF Notify, Typed
  <2>3. HistoryTyped'
    <3>1. <<task[w].job, task[w].gen, task[w].target>>
            \in Jobs \X (0..MaxClaims) \X Terminal
      BY <1>19 DEF Notify, Typed, TasksTyped, Live, Task, Terminal
    <3>2. notices' \subseteq Jobs \X (0..MaxClaims) \X Terminal
      BY <1>19, <3>1 DEF Notify, Typed, HistoryTyped
    <3> QED
      BY <1>19, <3>2 DEF Notify, Typed, HistoryTyped
  <2>4. ReviewTyped'
    BY <1>19 DEF Notify, Typed, ReviewTyped
  <2> QED
    BY <2>1, <2>2, <2>3, <2>4 DEF Typed
<1>20. ASSUME NEW w \in Workers, Crash(w) PROVE Typed'
  <2>1. RowsTyped'
    BY <1>20 DEF Crash, Typed, RowsTyped
  <2>2. TasksTyped'
    BY <1>20, LeaveTyped DEF Crash, Typed
  <2>3. HistoryTyped'
    BY <1>20, BoundAssumption DEF Crash, Typed, HistoryTyped
  <2>4. ReviewTyped'
    BY <1>20 DEF Crash, Typed, ReviewTyped
  <2> QED
    BY <2>1, <2>2, <2>3, <2>4 DEF Typed
<1>21. ASSUME NEW j \in Jobs, GoStale(j) PROVE Typed'
  <2>1. RowsTyped'
    BY <1>21, BoundAssumption DEF Typed, GoStale, RowsTyped
  <2>2. TasksTyped'
    BY <1>21 DEF GoStale, Typed, TasksTyped, Live
  <2>3. HistoryTyped'
    BY <1>21 DEF GoStale, Typed, HistoryTyped
  <2>4. ReviewTyped'
    BY <1>21 DEF GoStale, Typed, ReviewTyped
  <2> QED
    BY <2>1, <2>2, <2>3, <2>4 DEF Typed
<1>22. ASSUME NEW j \in Jobs, Sweep(j) PROVE Typed'
  <2>1. RowsTyped'
    BY <1>22, SettleRowTyped DEF Sweep, Typed, RowsTyped, Terminal
  <2>2. TasksTyped'
    BY <1>22 DEF Sweep, Typed, TasksTyped, Live
  <2>3. HistoryTyped'
    BY <1>22 DEF Sweep, Typed, HistoryTyped
  <2>4. ReviewTyped'
    BY <1>22 DEF Sweep, Typed, ReviewTyped
  <2> QED
    BY <2>1, <2>2, <2>3, <2>4 DEF Typed
<1>23. ASSUME NEW j \in Jobs, NEW g \in 0..MaxClaims, NEW s \in Terminal, PickEvent(j, g, s) PROVE Typed'
  <2>1. RowsTyped'
    BY <1>23 DEF PickEvent, Typed, RowsTyped
  <2>2. TasksTyped'
    BY <1>23 DEF PickEvent, Typed, TasksTyped, Live
  <2>3. HistoryTyped'
    BY <1>23 DEF PickEvent, Typed, HistoryTyped
  <2>4. ReviewTyped'
    BY <1>23, BoundAssumption DEF Typed, PickEvent, ReviewTyped, Review
  <2> QED
    BY <2>1, <2>2, <2>3, <2>4 DEF Typed
<1>24. ASSUME ReadSnapshot PROVE Typed'
  <2>1. RowsTyped'
    BY <1>24 DEF ReadSnapshot, Typed, RowsTyped
  <2>2. TasksTyped'
    BY <1>24 DEF ReadSnapshot, Typed, TasksTyped, Live
  <2>3. HistoryTyped'
    BY <1>24 DEF ReadSnapshot, Typed, HistoryTyped
  <2>4. ReviewTyped'
    <3>1. review.job \in Jobs /\ review.status \in Terminal
      BY <1>24 DEF ReadSnapshot, Typed, ReviewTyped
    <3>2. gen[review.job] \in 0..MaxClaims
      BY <3>1 DEF Typed, RowsTyped
    <3>3. NoReview \in Review /\ NoReview.verdict = "none"
      BY BoundAssumption DEF NoReview, Review
    <3>4. \A v \in {"classified", "rejected"} :
            [review EXCEPT !.verdict = v, !.evidence = gen[review.job]] \in Review
      BY <3>1, <3>2 DEF Typed, ReviewTyped, Review
    <3>5. CASE review' = NoReview
      BY <3>3, <3>5 DEF ReviewTyped
    <3>6. CASE \E v \in {"classified", "rejected"} :
                 review' = [review EXCEPT !.verdict = v, !.evidence = gen[review.job]]
      BY <3>1, <3>4, <3>6 DEF Typed, ReviewTyped, Review
    <3> QED
      BY <1>24, <3>5, <3>6 DEF ReadSnapshot
  <2> QED
    BY <2>1, <2>2, <2>3, <2>4 DEF Typed
<1>25. ASSUME StoreReview PROVE Typed'
  <2>1. RowsTyped'
    <3>1. review.job \in Jobs /\ review.status \in Terminal /\ review.gen \in 0..MaxClaims
      BY <1>25 DEF StoreReview, Typed, ReviewTyped, Review
    <3>2. review.verdict \in Outbox
      BY <1>25 DEF StoreReview, Outbox
    <3>3. event' \in [Jobs -> [0..MaxClaims -> [Terminal -> Outbox]]]
      <4> DEFINE e == event[review.job][review.gen][review.status]
      <4> DEFINE d == IF e = "pending" THEN review.verdict ELSE e
      <4>1. d \in Outbox
        BY <3>1, <3>2, EventTyped DEF Typed
      <4>2. event \in [Jobs -> [0..MaxClaims -> [Terminal -> Outbox]]]
        BY DEF Typed, RowsTyped
      <4>3. event' = [event EXCEPT ![review.job][review.gen][review.status] = d]
        BY <1>25 DEF StoreReview
      <4> HIDE DEF d
      <4>4. PICK j \in Jobs, g \in 0..MaxClaims, s \in Terminal, o \in Outbox :
              event' = [event EXCEPT ![j][g][s] = o]
        BY <3>1, <4>1, <4>3
      <4> QED
        BY <4>2, <4>4, UpdateTyped3
    <3> QED
      BY <1>25, <3>3 DEF StoreReview, Typed, RowsTyped
  <2>2. TasksTyped'
    BY <1>25 DEF StoreReview, Typed, TasksTyped, Live
  <2>3. HistoryTyped'
    BY <1>25 DEF StoreReview, Typed, HistoryTyped
  <2>4. ReviewTyped'
    <3>1. NoReview \in Review /\ NoReview.verdict = "none"
      BY BoundAssumption DEF NoReview, Review
    <3> QED
      BY <1>25, <3>1 DEF StoreReview, ReviewTyped
  <2> QED
    BY <2>1, <2>2, <2>3, <2>4 DEF Typed
<1>26. CASE UNCHANGED vars
  BY <1>26 DEF vars, Typed, RowsTyped, TasksTyped, HistoryTyped, ReviewTyped, Live
<1> QED
  BY <1>1, <1>2, <1>3, <1>4, <1>5, <1>6, <1>7, <1>8, <1>9, <1>10, <1>11, <1>12, <1>13,
     <1>14, <1>15, <1>16, <1>17, <1>18, <1>19, <1>20, <1>21, <1>22, <1>23, <1>24, <1>25, <1>26
  DEF Next, WorkerStep

(* Rows, slots, evidence, outbox and history are typed in every reachable  *)
(* state: in particular no step, late or not, settles a slot's job when it *)
(* has none or to an outcome it has not got.                               *)
THEOREM TypeCorrectness == Spec => []TypeOK
<1>1. Spec => []Typed
  BY InitTyped, NextTyped, PTL DEF Spec
<1> QED
  BY <1>1, TypedImpliesTypeOK, PTL

-----------------------------------------------------------------------------
(* Generations.  A step either is a claim or leaves every live slot with   *)
(* the job and generation it had, so a generation is never shared.         *)

SlotsKept ==
  /\ gen' = gen
  /\ \A w \in Workers :
       Live(w)' => /\ Live(w)
                   /\ task'[w].job = task[w].job
                   /\ task'[w].gen = task[w].gen

(* Moving on, finishing and leaving keep the other slots as they were.     *)
LEMMA MovesKeepSlots ==
  ASSUME Typed, gen' = gen, NEW w \in Workers, Live(w), NEW x,
         Goto(w, x) \/ Finish(w, x) \/ Leave(w) \/ task' = task
  PROVE  SlotsKept
<1> USE DEF SlotsKept, Typed, TasksTyped, Task, Live
<1>1. CASE Goto(w, x)
  BY <1>1 DEF Goto
<1>2. CASE Finish(w, x)
  BY <1>2 DEF Finish
<1>3. CASE Leave(w)
  BY <1>3 DEF Leave, Idle
<1> QED
  BY <1>1, <1>2, <1>3

(* Only a claim gives a slot a job and a generation.                       *)
LEMMA SlotsKeptUnlessClaimed ==
  ASSUME Typed, Next, \A w \in Workers : \A j \in Jobs : ~Claim(w, j)
  PROVE  SlotsKept
<1> USE DEF Typed
<1>1. ASSUME NEW j \in Jobs, Submit(j) PROVE SlotsKept
  BY <1>1 DEF Submit, SlotsKept, Live
<1>2. ASSUME NEW j \in Jobs, Cancel(j) PROVE SlotsKept
  BY <1>2 DEF Cancel, SlotsKept, Live
<1>3. ASSUME NEW j \in Jobs, NEW kids \in SUBSET Children[j], Retry(j, kids) PROVE SlotsKept
  BY <1>3 DEF Retry, Requeue, SlotsKept, Live
<1>4. ASSUME NEW j \in Jobs, LegacyRetry(j) PROVE SlotsKept
  BY <1>4 DEF LegacyRetry, Requeue, SlotsKept, Live
<1>5. ASSUME NEW w \in Workers, RejectMalformed(w) PROVE SlotsKept
  BY <1>5, MovesKeepSlots DEF RejectMalformed, Live
<1>6. ASSUME NEW w \in Workers, CheckpointBeforeHandler(w) PROVE SlotsKept
  BY <1>6, MovesKeepSlots DEF CheckpointBeforeHandler, Live
<1>7. ASSUME NEW w \in Workers, OwnershipGuard(w) PROVE SlotsKept
  BY <1>7, MovesKeepSlots DEF OwnershipGuard, Live
<1>8. ASSUME NEW w \in Workers, TouchBeforeHandler(w) PROVE SlotsKept
  BY <1>8, MovesKeepSlots DEF TouchBeforeHandler, Live
<1>9. ASSUME NEW w \in Workers, StartEvidence(w) PROVE SlotsKept
  BY <1>9, MovesKeepSlots DEF StartEvidence, Live
<1>10. ASSUME NEW w \in Workers, Heartbeat(w) PROVE SlotsKept
  BY <1>10 DEF Heartbeat, SlotsKept, Live
<1>11. ASSUME NEW w \in Workers, DomainCommit(w) PROVE SlotsKept
  BY <1>11, MovesKeepSlots DEF DomainCommit, Live
<1>12. ASSUME NEW w \in Workers, CheckpointInHandler(w) PROVE SlotsKept
  BY <1>12, MovesKeepSlots DEF CheckpointInHandler, Live
<1>13. ASSUME NEW w \in Workers, Defer(w) PROVE SlotsKept
  BY <1>13, MovesKeepSlots DEF Defer, Live
<1>14. ASSUME NEW w \in Workers, HandlerReturns(w) PROVE SlotsKept
  BY <1>14, MovesKeepSlots DEF HandlerReturns, Live
<1>15. ASSUME NEW w \in Workers, HandlerRaises(w) PROVE SlotsKept
  BY <1>15, MovesKeepSlots DEF HandlerRaises, Live
<1>16. ASSUME NEW w \in Workers, Finalize(w) PROVE SlotsKept
  BY <1>16, MovesKeepSlots DEF Finalize, Live
<1>17. ASSUME NEW w \in Workers, DropSuperseded(w) PROVE SlotsKept
  BY <1>17, MovesKeepSlots DEF DropSuperseded, Live
<1>18. ASSUME NEW w \in Workers, Notify(w) PROVE SlotsKept
  BY <1>18, MovesKeepSlots DEF Notify, Live
<1>19. ASSUME NEW w \in Workers, Crash(w) PROVE SlotsKept
  BY <1>19, MovesKeepSlots DEF Crash, Live
<1>20. ASSUME NEW j \in Jobs, GoStale(j) PROVE SlotsKept
  BY <1>20 DEF GoStale, SlotsKept, Live
<1>21. ASSUME NEW j \in Jobs, Sweep(j) PROVE SlotsKept
  BY <1>21 DEF Sweep, SlotsKept, Live
<1>22. ASSUME NEW j \in Jobs, NEW g \in 0..MaxClaims, NEW s \in Terminal, PickEvent(j, g, s) PROVE SlotsKept
  BY <1>22 DEF PickEvent, SlotsKept, Live
<1>23. ASSUME ReadSnapshot PROVE SlotsKept
  BY <1>23 DEF ReadSnapshot, SlotsKept, Live
<1>24. ASSUME StoreReview PROVE SlotsKept
  BY <1>24 DEF StoreReview, SlotsKept, Live
<1> QED
  BY <1>1, <1>2, <1>3, <1>4, <1>5, <1>6, <1>7, <1>8, <1>9, <1>10, <1>11, <1>12, <1>13,
     <1>14, <1>15, <1>16, <1>17, <1>18, <1>19, <1>20, <1>21, <1>22, <1>23, <1>24
  DEF Next, WorkerStep

(* The fencing invariant: two slots never hold the same generation of a    *)
(* job, for any number of slots, claims, sweeps, retries and crashes.      *)
LEMMA NextOneHolder ==
  Typed /\ Typed' /\ OneHolderPerGeneration /\ [Next]_vars
    => OneHolderPerGeneration'
<1> SUFFICES ASSUME Typed, Typed', OneHolderPerGeneration, [Next]_vars
             PROVE  OneHolderPerGeneration'
  OBVIOUS
<1>1. CASE SlotsKept
  BY <1>1 DEF SlotsKept, OneHolderPerGeneration
<1>2. ASSUME NEW w \in Workers, NEW j \in Jobs, Claim(w, j)
      PROVE  OneHolderPerGeneration'
  <2>1. /\ gen[j] \in Nat /\ gen' = [gen EXCEPT ![j] = @ + 1]
        /\ task' = [task EXCEPT ![w] = [pc |-> "claimed", job |-> j,
                                       gen |-> gen[j] + 1, target |-> "none"]]
    BY <1>2, BoundAssumption DEF Claim, Typed, RowsTyped
  <2>2. /\ task'[w].job = j /\ task'[w].gen = gen[j] + 1
        /\ \A v \in Workers \ {w} : task'[v] = task[v]
    BY <2>1 DEF Typed, TasksTyped
  <2>3. \A v \in Workers : Live(v) => /\ task[v].gen \in Nat
                                      /\ task[v].job \in Jobs
                                      /\ gen[task[v].job] \in Nat
                                      /\ task[v].gen <= gen[task[v].job]
    BY BoundAssumption DEF Typed, RowsTyped, TasksTyped, Task, OneHolderPerGeneration
  <2>4. ASSUME NEW v \in Workers, Live(v)' PROVE (task[v].gen <= gen[task[v].job])'
    <3>1. CASE v = w
      BY <2>1, <2>2, <3>1 DEF Typed, RowsTyped
    <3>2. CASE v # w
      BY <2>1, <2>2, <2>3, <2>4, <3>2 DEF Typed, RowsTyped, Live
    <3> QED
      BY <3>1, <3>2
  <2>5. ASSUME NEW u \in Workers, NEW v \in Workers, u # v, Live(u)', Live(v)',
               (task[u].job = task[v].job)'
        PROVE  (task[u].gen # task[v].gen)'
    <3>1. CASE u # w /\ v # w
      BY <2>2, <2>5, <3>1 DEF OneHolderPerGeneration, Live
    <3>2. CASE u = w
      BY <2>1, <2>2, <2>3, <2>5, <3>2 DEF Live
    <3>3. CASE v = w
      BY <2>1, <2>2, <2>3, <2>5, <3>3 DEF Live
    <3> QED
      BY <3>1, <3>2, <3>3
  <2> QED
    BY <2>4, <2>5 DEF OneHolderPerGeneration
<1>3. CASE UNCHANGED vars
  BY <1>3 DEF vars, OneHolderPerGeneration, Live
<1> QED
  BY <1>1, <1>2, <1>3, SlotsKeptUnlessClaimed

(* A claim generation identifies one attempt: OneHolderPerGeneration holds *)
(* in every reachable state.                                               *)
THEOREM GenerationsAreFenced == Spec => []OneHolderPerGeneration
<1>1. Init => OneHolderPerGeneration
  BY DEF Init, OneHolderPerGeneration, Live, Idle
<1>2. Spec => [](Typed /\ OneHolderPerGeneration)
  BY <1>1, InitTyped, NextTyped, NextOneHolder, PTL DEF Spec
<1> QED
  BY <1>2, PTL

=============================================================================
