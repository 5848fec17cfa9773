---------------------------- MODULE OperationGraph ----------------------------
(***************************************************************************)
(* Operations with children: a summarization batch and its items.  A batch *)
(* is a legacy row (summarize_batch), which no worker ever claims and the  *)
(* items' handlers complete by an aggregate they compute, or a canonical   *)
(* run (summarization.run), whose attempt dispatches the items, defers     *)
(* until they have ended and is put back into the queue by the last of     *)
(* them.  Retention removes graphs that ended long ago, while clients      *)
(* retry and stalled attempts dispatch.                                    *)
(*                                                                         *)
(* Claim generations are compared for equality only, so a number nobody    *)
(* remembers any more is used again.                                       *)
(***************************************************************************)
EXTENDS Naturals, FiniteSets

CONSTANTS
  Roots,      \* batches
  Kids,       \* [Roots -> SUBSET items]: the items of a batch
  Workers,    \* worker slots: one claimed job each
  Readers,    \* clients that read or stream the state of a batch
  Zombies,    \* TRUE: a slot may stall until its row has been swept
  MaxFaults,  \* bound: retries that clients ask for, and slots that die
  MaxGen,     \* bound: generations anybody remembers at a time
  None

Items == UNION {Kids[r] : r \in Roots}
Jobs  == Roots \cup Items

ASSUME GraphAssumption ==
  /\ \A r \in Roots : IsFiniteSet(Kids[r]) /\ Kids[r] \cap Roots = {}
  /\ \A r, q \in Roots : r # q => Kids[r] \cap Kids[q] = {}
  /\ None \notin Jobs
ASSUME GraphBounds ==
  MaxFaults \in Nat /\ MaxGen \in Nat /\ Zombies \in BOOLEAN

VARIABLES
  kind,       \* [Roots -> {"none", "legacy", "canonical"}]
  status,     \* [Jobs -> Status]: pgqueuer_jobs.status
  gen,        \* [Jobs -> 0..MaxGen]: claim_generation
  checkpoint, \* runs whose stored result names their items
  attached,   \* runs whose final result and resource are stored
  deferred,   \* runs whose priority a deferral has lowered
  old,        \* rows whose completed_at lies before their retention cutoff
  run,        \* [Workers -> Attempt]: where the handler of a slot is
  reader,     \* [Readers -> Aggregate]: a status read under way
  chosen,     \* roots the retention cycle has selected
  ended,      \* items that have ended, or were summarized, since the attempt
              \* that holds their batch, or the client, asked for them (history)
  faults      \* retries and deaths so far

rows  == <<kind, status, gen, checkpoint, attached, deferred, old>>
vars  == <<rows, run, reader, chosen, ended, faults>>

Active   == {"queued", "in_progress"}
Terminal == {"completed", "failed", "cancelled"}
Status   == {"absent"} \cup Active \cup Terminal

Parent(c)  == CHOOSE r \in Roots : c \in Kids[r]
Present(r) == {c \in Kids[r] : status[c] # "absent"}

(* missing: items the aggregate does not count as processed; token: the    *)
(* generation of the parent the aggregate was computed for.                *)
NoAggregate == [root |-> None, token |-> 0, missing |-> 0]
Places == {"idle", "work", "count", "own", "write", "commit",
           "load", "dispatch", "lookup", "defer", "check", "attach", "finish"}
(* left: items still to dispatch or to look at; found: the item another    *)
(* active row stands for; busy: one was active.                            *)
Attempt == [job: Jobs \cup {None}, gen: 0..MaxGen, at: Places, left: SUBSET Items,
            found: Items \cup {None}, busy: BOOLEAN, token: 0..MaxGen, missing: Nat]
Idle == [job |-> None, gen |-> 0, at |-> "idle", left |-> {}, found |-> None,
         busy |-> FALSE, token |-> 0, missing |-> 0]

TypeOK ==
  /\ kind \in [Roots -> {"none", "legacy", "canonical"}]
  /\ status \in [Jobs -> Status]
  /\ gen \in [Jobs -> 0..MaxGen]
  /\ checkpoint \subseteq Roots /\ attached \subseteq Roots /\ deferred \subseteq Roots
  /\ old \subseteq Jobs
  /\ run \in [Workers -> Attempt]
  /\ reader \in [Readers -> [root: Roots \cup {None}, token: 0..MaxGen, missing: Nat]]
  /\ chosen \subseteq Roots
  /\ ended \subseteq Items
  /\ faults \in 0..MaxFaults

Init ==
  /\ kind = [r \in Roots |-> "none"]
  /\ status = [j \in Jobs |-> "absent"]
  /\ gen = [j \in Jobs |-> 0]
  /\ checkpoint = {} /\ attached = {} /\ deferred = {} /\ old = {}
  /\ run = [w \in Workers |-> Idle]
  /\ reader = [v \in Readers |-> NoAggregate]
  /\ chosen = {} /\ ended = {}
  /\ faults = 0

-----------------------------------------------------------------------------
(* Row updates.                                                            *)

(* A slot's row is still in progress under the slot's generation.          *)
HoldsRow(w) ==
  /\ status[run[w].job] = "in_progress"
  /\ gen[run[w].job] = run[w].gen

Remembered(j) ==
  {run[w].gen : w \in {v \in Workers : run[v].job = j}}
    \cup {run[w].token : w \in {v \in Workers : run[v].job \in Items}}
    \cup {reader[v].token : v \in {u \in Readers : reader[u].root = j}}
IsNewGen(j, g) ==
  /\ g \in 0..MaxGen
  /\ g # gen[j] /\ g \notin Remembered(j)
  /\ \A h \in 0..MaxGen : h < g => h = gen[j] \/ h \in Remembered(j)

SetStatus(j, s) == status' = [status EXCEPT ![j] = s]

(* A terminal transition of one row.                                       *)
End(j, s) ==
  /\ SetStatus(j, s)
  /\ ended' = IF j \in Items THEN ended \cup {j} ELSE ended

(* The identity of a removed row stands for a new one when nobody refers   *)
(* to it any more.                                                         *)
IsUnused(r) ==
  /\ status[r] = "absent"
  /\ \A w \in Workers : run[w].job \notin {r} \cup Kids[r]
  /\ \A v \in Readers : reader[v].root # r

Leave(w) == run' = [run EXCEPT ![w] = Idle]
Goto(w, at) == run' = [run EXCEPT ![w].at = at]

-----------------------------------------------------------------------------
(* Clients.                                                                *)

(* enqueue_summarization_batch: the parent and the items that are not      *)
(* already active elsewhere, in one transaction.                           *)
SubmitBatch(r, kids) ==
  /\ IsUnused(r) /\ kids \subseteq Kids[r]
  /\ kind' = [kind EXCEPT ![r] = "legacy"]
  /\ status' = [j \in Jobs |-> IF j = r THEN IF kids = {} THEN "completed" ELSE "in_progress"
                               ELSE IF j \in kids THEN "queued" ELSE status[j]]
  /\ UNCHANGED <<gen, checkpoint, attached, deferred, old, run, reader, chosen,
                 ended, faults>>

(* POST /summarization-runs.                                               *)
SubmitRun(r) ==
  /\ IsUnused(r)
  /\ kind' = [kind EXCEPT ![r] = "canonical"]
  /\ SetStatus(r, "queued")
  /\ UNCHANGED <<gen, checkpoint, attached, deferred, old, run, reader, chosen,
                 ended, faults>>

(* Cancellation of a queued row; of a running one OperationQueue tells.    *)
Cancel(j) ==
  /\ status[j] = "queued"
  /\ End(j, "cancelled")
  /\ UNCHANGED <<kind, gen, checkpoint, attached, deferred, old, run, reader,
                 chosen, faults>>

(* OperationService.retry: under the graph lock a failed row goes back to  *)
(* the queue, with its result and its resource forgotten.                  *)
Retry(j) ==
  /\ status[j] = "failed"
  /\ faults < MaxFaults
  /\ faults' = faults + 1
  /\ SetStatus(j, "queued")
  /\ checkpoint' = checkpoint \ {j}
  /\ attached' = attached \ {j}
  /\ old' = old \ {j}
  /\ UNCHANGED <<kind, gen, deferred, run, reader, chosen, ended>>

-----------------------------------------------------------------------------
(* Claims, and the ends of attempts.                                       *)

(* _claim_jobs, by priority: deferred runs after everything else.          *)
Claim(w, j) ==
  /\ run[w] = Idle
  /\ status[j] = "queued"
  /\ j \in deferred => \A k \in Jobs \ deferred : status[k] # "queued"
  /\ SetStatus(j, "in_progress")
  /\ \E g \in 0..MaxGen :
       /\ IsNewGen(j, g)
       /\ gen' = [gen EXCEPT ![j] = g]
       /\ run' = [run EXCEPT ![w] = [Idle EXCEPT !.job = j, !.gen = g,
                    !.at = IF j \in Items THEN "work" ELSE "load"]]
  /\ UNCHANGED <<kind, checkpoint, attached, deferred, old, reader, chosen, ended,
                 faults>>

(* The handler raises, or there is none: a legacy batch that was retried   *)
(* has no handler.  The failure is written if the row is held*)
Raise(w) ==
  /\ \/ run[w].at \in {"work", "load", "dispatch", "lookup"}
     \/ run[w].at \in {"defer", "attach"} /\ ~HoldsRow(w)
  /\ IF HoldsRow(w) THEN End(run[w].job, "failed") ELSE UNCHANGED <<status, ended>>
  /\ Leave(w)
  /\ UNCHANGED <<kind, gen, checkpoint, attached, deferred, old, reader, chosen,
                 faults>>

(* _complete_job, after the handler has returned.                          *)
Complete(w) ==
  /\ run[w].at \in {"commit", "finish"}
  /\ IF HoldsRow(w) THEN End(run[w].job, "completed") ELSE UNCHANGED <<status, ended>>
  /\ Leave(w)
  /\ UNCHANGED <<kind, gen, checkpoint, attached, deferred, old, reader, chosen,
                 faults>>

Crash(w) ==
  /\ run[w] # Idle
  /\ faults < MaxFaults
  /\ faults' = faults + 1
  /\ Leave(w)
  /\ UNCHANGED <<rows, reader, chosen, ended>>

(* mark_stale_jobs_failed.  A claimed row loses its heartbeat with its     *)
(* slot; a legacy batch has none but what its items' aggregates write.     *)
Sweep(j) ==
  /\ status[j] = "in_progress"
  /\ \/ Zombies
     \/ j \in Roots /\ kind[j] = "legacy"
     \/ \A w \in Workers : ~(run[w].job = j /\ run[w].gen = gen[j])
  /\ End(j, "failed")
  /\ UNCHANGED <<kind, gen, checkpoint, attached, deferred, old, run, reader,
                 chosen, faults>>

-----------------------------------------------------------------------------
(* An item's handler: the summary is committed, then the parent's aggregate*)
(* is brought up to date, and only then the item's row is completed.       *)

Summarize(w) ==
  /\ run[w].at = "work"
  /\ run[w].job \in Items
  /\ ended' = ended \cup {run[w].job}
  /\ Goto(w, "count")
  /\ UNCHANGED <<rows, reader, chosen, faults>>

(* Mutation: only items that completed are processed.                      *)
MissingUnlessCompleted(r) == Cardinality({c \in Present(r) : status[c] # "completed"})

(* The items of a batch that are not terminal.                             *)
Missing(r) == Cardinality({c \in Present(r) : status[c] \notin Terminal})

(* _reconcile_batch_parent_status, first statement: the counts and the     *)
(* parent's generation.  There is nothing to do unless it is in progress.  *)
Count(w) ==
  LET r == Parent(run[w].job) IN
  /\ run[w].at = "count"
  /\ run' = [run EXCEPT ![w] =
       IF status[r] = "in_progress"
         THEN [@ EXCEPT !.at = "own", !.token = gen[r], !.missing = Missing(r)]
         ELSE [@ EXCEPT !.at = "commit"]]
  /\ UNCHANGED <<rows, reader, chosen, ended, faults>>

(* Second statement: the caller's own item counts as completed, though its *)
(* row is still in progress.                                               *)
CountOwn(w) ==
  /\ run[w].at = "own"
  /\ run' = [run EXCEPT ![w].at = "write",
       ![w].missing = IF status[run[w].job] = "in_progress" /\ @ > 0 THEN @ - 1 ELSE @]
  /\ UNCHANGED <<rows, reader, chosen, ended, faults>>

(* Mutation: a canonical run is completed like a legacy batch.             *)
AggregatedAlike(r, missing) ==
  IF missing > 0 THEN "in_progress" ELSE "completed"

(* Mutation: the status pgqueuer itself writes for completed work.         *)
AggregatedSuccessful(r, missing) ==
  IF missing > 0 THEN "in_progress"
  ELSE IF kind[r] = "legacy" THEN "successful"
  ELSE IF r \in checkpoint THEN "queued"
  ELSE "in_progress"

(* What the third statement makes of a parent that is in progress.         *)
Aggregated(r, missing) ==
  IF missing > 0 THEN "in_progress"
  ELSE IF kind[r] = "legacy" THEN "completed"
  ELSE IF r \in checkpoint THEN "queued"
  ELSE "in_progress"

WriteAggregate(r, token, missing) ==
  IF status[r] = "in_progress" /\ gen[r] = token
    THEN SetStatus(r, Aggregated(r, missing))
    ELSE UNCHANGED status

Write(w) ==
  /\ run[w].at = "write"
  /\ WriteAggregate(Parent(run[w].job), run[w].token, run[w].missing)
  /\ run' = [run EXCEPT ![w].at = "commit", ![w].token = 0, ![w].missing = 0]
  /\ UNCHANGED <<kind, gen, checkpoint, attached, deferred, old, reader, chosen,
                 ended, faults>>

(* get_job_status reconciles a legacy batch it finds in progress.          *)
Read(v, r) ==
  /\ reader[v] = NoAggregate
  /\ kind[r] = "legacy" /\ status[r] = "in_progress"
  /\ reader' = [reader EXCEPT ![v] = [root |-> r, token |-> gen[r], missing |-> Missing(r)]]
  /\ UNCHANGED <<rows, run, chosen, ended, faults>>

WriteRead(v) ==
  /\ reader[v] # NoAggregate
  /\ WriteAggregate(reader[v].root, reader[v].token, reader[v].missing)
  /\ reader' = [reader EXCEPT ![v] = NoAggregate]
  /\ UNCHANGED <<kind, gen, checkpoint, attached, deferred, old, run, chosen,
                 ended, faults>>

-----------------------------------------------------------------------------
(* A canonical run's handler.                                              *)

(* SummarizationWorkflow.execute: a stored final result is attached again, *)
(* items named by a checkpoint are looked at, else they are dispatched.    *)
Load(w) ==
  LET r == run[w].job IN
  /\ run[w].at = "load" /\ kind[r] = "canonical"
  /\ run' = [run EXCEPT ![w].at = IF r \in attached THEN "attach"
                                  ELSE IF r \in checkpoint THEN "check"
                                  ELSE "dispatch",
                        ![w].left = IF r \in attached THEN {} ELSE Kids[r]]
  /\ UNCHANGED <<rows, reader, chosen, ended, faults>>

(* Mutation: nobody looks whether the parent's row still exists.           *)
DispatchUnrooted(w, c) ==
  /\ run[w].at = "dispatch" /\ c \in run[w].left
  /\ status[c] \notin Active
  /\ SetStatus(c, "queued")
  /\ ended' = IF HoldsRow(w) THEN ended \ {c} ELSE ended
  /\ old' = old \ {c}
  /\ run' = [run EXCEPT ![w].left = @ \ {c}]
  /\ UNCHANGED <<kind, gen, checkpoint, attached, deferred, reader, chosen, faults>>

(* enqueue_queue_job, under the graph lock: a new row, unless an active one*)
(* of the same key stands in its way.  The parent's row need only exist.   *)
Dispatch(w, c) ==
  /\ run[w].at = "dispatch" /\ c \in run[w].left
  /\ status[run[w].job] # "absent"
  /\ IF status[c] \in Active
       THEN /\ run' = [run EXCEPT ![w].at = "lookup", ![w].left = @ \ {c},
                                  ![w].found = c]
            /\ UNCHANGED <<rows, ended>>
       ELSE /\ SetStatus(c, "queued")
            /\ ended' = IF HoldsRow(w) THEN ended \ {c} ELSE ended
            /\ old' = old \ {c}
            /\ run' = [run EXCEPT ![w].left = @ \ {c}]
            /\ UNCHANGED <<kind, gen, checkpoint, attached, deferred>>
  /\ UNCHANGED <<reader, chosen, faults>>

(* The second statement finds the row still active.  If it has ended       *)
(* meanwhile the handler raises.                                           *)
Lookup(w) ==
  /\ run[w].at = "lookup"
  /\ status[run[w].found] \in Active
  /\ run' = [run EXCEPT ![w].at = "dispatch", ![w].found = None]
  /\ UNCHANGED <<rows, reader, chosen, ended, faults>>

Dispatched(w) ==
  /\ run[w].at = "dispatch" /\ run[w].left = {}
  /\ Goto(w, "defer")
  /\ UNCHANGED <<rows, reader, chosen, ended, faults>>

(* The items are read one after the other.                                 *)
Check(w, c) ==
  /\ run[w].at = "check" /\ c \in run[w].left
  /\ run' = [run EXCEPT ![w].left = @ \ {c}, ![w].busy = @ \/ status[c] \in Active]
  /\ UNCHANGED <<rows, reader, chosen, ended, faults>>

Checked(w) ==
  /\ run[w].at = "check" /\ run[w].left = {}
  /\ run' = [run EXCEPT ![w].at = IF run[w].busy THEN "defer" ELSE "attach",
                        ![w].busy = FALSE]
  /\ UNCHANGED <<rows, reader, chosen, ended, faults>>

(* dispatch reads the row before it defers it; defer writes if it is held. *)
Defer(w) ==
  LET r == run[w].job IN
  /\ run[w].at = "defer" /\ HoldsRow(w)
  /\ SetStatus(r, "queued")
  /\ checkpoint' = checkpoint \cup {r}
  /\ deferred' = deferred \cup {r}
  /\ Leave(w)
  /\ UNCHANGED <<kind, gen, attached, old, reader, chosen, ended, faults>>

(* attach_completion; the row is completed in a transaction of its own.    *)
Attach(w) ==
  /\ run[w].at = "attach" /\ HoldsRow(w)
  /\ attached' = attached \cup {run[w].job}
  /\ Goto(w, "finish")
  /\ UNCHANGED <<kind, status, gen, checkpoint, deferred, old, reader, chosen,
                 ended, faults>>

-----------------------------------------------------------------------------
(* Retention.                                                              *)

GraphOf(r) == {r} \cup Present(r)
Eligible(r) ==
  /\ status[r] # "absent"
  /\ \A j \in GraphOf(r) : status[j] \in Terminal /\ j \in old

(* The cutoffs of the rows of an ended graph pass.  One row may be old     *)
(* before another ends; that alone makes nothing eligible.                 *)
Age(r) ==
  /\ status[r] # "absent"
  /\ \A j \in GraphOf(r) : status[j] \in Terminal
  /\ ~(GraphOf(r) \subseteq old)
  /\ old' = old \cup GraphOf(r)
  /\ UNCHANGED <<kind, status, gen, checkpoint, attached, deferred, run, reader,
                 chosen, ended, faults>>

(* cleanup_old_jobs, first statement.                                      *)
Select ==
  /\ chosen = {}
  /\ \E r \in Roots : Eligible(r)
  /\ chosen' = {r \in Roots : Eligible(r)}
  /\ UNCHANGED <<rows, run, reader, ended, faults>>

Remove(gone) ==
  /\ status' = [j \in Jobs |-> IF \E r \in gone : j \in GraphOf(r) THEN "absent"
                               ELSE status[j]]
  /\ kind' = [r \in Roots |-> IF r \in gone THEN "none" ELSE kind[r]]
  /\ gen' = [j \in Jobs |-> IF \E r \in gone : j \in {r} \cup Kids[r] THEN 0 ELSE gen[j]]
  /\ old' = old \ UNION {GraphOf(r) : r \in gone}
  /\ checkpoint' = checkpoint \ gone
  /\ attached' = attached \ gone
  /\ deferred' = deferred \ gone
  /\ ended' = ended \ UNION {Kids[r] : r \in gone}

(* Mutation: what was selected is removed as selected.                     *)
RemoveSelected ==
  /\ chosen # {}
  /\ Remove(chosen)
  /\ chosen' = {}
  /\ UNCHANGED <<run, reader, faults>>

(* The rest of its transaction: under the graph and row locks the selected *)
(* graphs are read again, and those still eligible are removed.            *)
RemoveEligible ==
  /\ chosen # {}
  /\ Remove({r \in chosen : Eligible(r)})
  /\ chosen' = {}
  /\ UNCHANGED <<run, reader, faults>>

-----------------------------------------------------------------------------
ItemStep(w) == Summarize(w) \/ Count(w) \/ CountOwn(w) \/ Write(w)
RunStep(w) ==
  \/ Load(w) \/ Dispatched(w) \/ Lookup(w) \/ Checked(w) \/ Defer(w) \/ Attach(w)
  \/ \E c \in Items : Dispatch(w, c) \/ Check(w, c)
Step(w) == ItemStep(w) \/ RunStep(w) \/ Raise(w) \/ Complete(w)

Next ==
  \/ \E r \in Roots : SubmitRun(r) \/ Age(r) \/ \E kids \in SUBSET Kids[r] : SubmitBatch(r, kids)
  \/ \E j \in Jobs : Cancel(j) \/ Retry(j) \/ Sweep(j)
  \/ \E w \in Workers : Step(w) \/ Crash(w) \/ \E j \in Jobs : Claim(w, j)
  \/ \E v \in Readers : WriteRead(v) \/ \E r \in Roots : Read(v, r)
  \/ Select \/ RemoveEligible

Spec == Init /\ [][Next]_vars

(* Live slots go on, free slots claim, and rows whose slot died are swept  *)
(* by the periodic tick.  Somebody watches a legacy batch.  Clients        *)
(* otherwise, crashes, long silences and retention owe nothing.            *)
Fairness ==
  /\ \A w \in Workers : WF_vars(Step(w))
  /\ WF_vars(\E w \in Workers, j \in Jobs : Claim(w, j))
  /\ \A c \in Items : WF_vars(Sweep(c))
  /\ \A r \in Roots : WF_vars(kind[r] = "canonical" /\ Sweep(r))
  /\ \A v \in Readers : WF_vars(WriteRead(v) \/ \E r \in Roots : Read(v, r))

FairSpec == Spec /\ Fairness

-----------------------------------------------------------------------------
(* Properties.                                                             *)

(* A batch is completed, by its items, by a reader or by its own attempt,  *)
(* only when each of its items has ended or been summarized once.          *)
NoItemIsForgotten ==
  [][\A r \in Roots :
       status[r] # "completed" /\ status'[r] = "completed"
         => \A c \in Kids[r] : status'[c] # "absent" => c \in ended']_vars

(* Retention removes whole graphs, none of whose rows is active, however   *)
(* clients retry and items are added after it has chosen them.             *)
OnlyEndedGraphsAreRemoved ==
  [][\A r \in Roots :
       status[r] # "absent" /\ status'[r] = "absent"
         => /\ \A j \in GraphOf(r) : status[j] \in Terminal
            /\ \A c \in Kids[r] : status'[c] = "absent"]_vars

(* A row whose batch is gone is nobody's: there is none.                   *)
ItemsHaveBatches ==
  \A r \in Roots : status[r] = "absent" => Present(r) = {}

(* Every batch ends, whatever its items do and whichever slots die.        *)
EveryBatchEnds ==
  \A r \in Roots : status[r] \in Active ~> status[r] \notin Active

-----------------------------------------------------------------------------
(* What the documents say and the code does otherwise.                     *)

(* A batch whose items have all completed is completed, without anybody    *)
(* reading its state.                                                      *)
CompletesWithoutReaders ==
  \A r \in Roots :
    (/\ kind[r] = "legacy" /\ status[r] = "in_progress"
     /\ \A c \in Present(r) : status[c] = "completed")
      ~> status[r] = "completed"

=============================================================================
