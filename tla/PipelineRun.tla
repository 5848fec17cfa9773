----------------------------- MODULE PipelineRun -----------------------------
(***************************************************************************)
(* The pipeline workflow: a run ingests its sources, summarizes what they  *)
(* brought in and has a digest made of the summaries.  Each of these is a  *)
(* child operation.  An attempt advances the run until it has to wait for  *)
(* a child, stores a checkpoint that names the children, and puts the run  *)
(* back into the queue.  Attempts die, stall past the stale sweep, are     *)
(* repeated by a client's retry, and submit children whether or not they   *)
(* still hold the run: only the checkpoint is fenced by the claim.         *)
(*                                                                         *)
(* Claim generations are compared for equality only, so a number nobody    *)
(* remembers any more is used again.                                       *)
(***************************************************************************)
EXTENDS Naturals, FiniteSets

CONSTANTS
  N,           \* number of sources the plan has
  Workers,     \* worker slots: one claimed job each
  Ends,        \* bound: [child -> statuses in which it may end]
  MaxFaults,   \* bound: slots that die, or stall until their row is swept
  MaxRequests, \* bound: retries and cancellations that clients ask for
  MaxGen       \* bound: generations anybody remembers at a time

ASSUME PlanAssumption == N \in Nat \ {0} /\ IsFiniteSet(Workers)
ASSUME BoundsAssumption ==
  MaxFaults \in Nat /\ MaxRequests \in Nat /\ MaxGen \in Nat

Sources  == 1..N
Summary  == N + 1
Digest   == N + 2
Children == 1..(N + 2)

(* Rows of one child key, in the order of their ids.                       *)
Rows == 1..Cardinality(Workers)

Bad  == {"failed", "cancelled"}
Good == {"completed", "partial", "empty"}
ChildStatus == {"absent", "active"} \cup Good \cup Bad

(* Only a source may bring in a part of what there was, or nothing.        *)
ASSUME EndsAssumption ==
  /\ Ends \in [Children -> SUBSET (Good \cup Bad)]
  /\ \A k \in {Summary, Digest} : Ends[k] \subseteq {"completed"} \cup Bad

VARIABLES
  tolerant,  \* request.continue_on_source_error
  status,    \* the run's pgqueuer_jobs.status
  gen,       \* its claim_generation
  asked,     \* its payload.cancel_requested
  resource,  \* its payload.resource is set
  stored,    \* its payload.result: the checkpoint
  child,     \* [Children -> [Rows -> ChildStatus]]: the rows of each key
  run,       \* [Workers -> Attempt]: where a slot is in execute
  stalled,   \* an attempt has outlived its claim (history)
  faults,    \* slots lost or stalled so far
  requests   \* retries and cancellations so far

vars == <<tolerant, status, gen, asked, resource, stored, child, run, stalled,
          faults, requests>>

(* named: the row of each child the checkpoint has an id of, 0 if none;    *)
(* retry: retry_child_operation_ids; skipped: there was nothing to         *)
(* summarize; resolved: resolved_set.                                      *)
Checkpoint == [stage: {"none", "ingestion", "summarization", "digest", "failed",
                       "completed"},
               named: [Children -> {0} \cup Rows], retry: SUBSET Children,
               skipped: BOOLEAN, resolved: BOOLEAN]
NoCheckpoint == [stage |-> "none", named |-> [k \in Children |-> 0],
                 retry |-> {}, skipped |-> FALSE, resolved |-> FALSE]

(* kid: the child in hand, or the last source read; found: its row; seen:  *)
(* the statuses of the sources read so far.                                *)
Places == {"idle", "begin", "load", "start", "lookup", "insert", "locate",
           "record", "read", "judge", "summary", "resolve", "digest", "repair",
           "fail", "finish"}
Unread == [k \in Sources |-> "absent"]
Attempt == [at: Places, gen: 0..MaxGen, ck: Checkpoint, kid: {0} \cup Children,
            found: {0} \cup Rows, seen: [Sources -> ChildStatus]]
Idle == [at |-> "idle", gen |-> 0, ck |-> NoCheckpoint, kid |-> 0, found |-> 0,
         seen |-> Unread]

TypeOK ==
  /\ tolerant \in BOOLEAN /\ asked \in BOOLEAN
  /\ resource \in BOOLEAN /\ stalled \in BOOLEAN
  /\ status \in {"queued", "in_progress", "completed"} \cup Bad
  /\ gen \in 0..MaxGen
  /\ stored \in Checkpoint
  /\ child \in [Children -> [Rows -> ChildStatus]]
  /\ run \in [Workers -> Attempt]
  /\ faults \in 0..MaxFaults /\ requests \in 0..MaxRequests

Init ==
  /\ tolerant \in BOOLEAN
  /\ status = "queued" /\ gen = 0 /\ asked = FALSE /\ resource = FALSE
  /\ stored = NoCheckpoint
  /\ child = [k \in Children |-> [n \in Rows |-> "absent"]]
  /\ run = [w \in Workers |-> Idle]
  /\ stalled = FALSE /\ faults = 0 /\ requests = 0

-----------------------------------------------------------------------------
(* Writes to the run's row.                                                *)

HoldsRow(w) == status = "in_progress" /\ gen = run[w].gen

Leave(w) == run' = [run EXCEPT ![w] = Idle]
Goto(w, ck, at, kid) ==
  run' = [run EXCEPT ![w] = [Idle EXCEPT !.gen = run[w].gen, !.ck = ck, !.at = at,
                                         !.kid = kid]]

(* Mutation: the result is attached under whatever claim the row has.      *)
AttachUnfenced(w, ck, at, kid) ==
  IF status = "in_progress" THEN stored' = ck /\ Goto(w, ck, at, kid)
                            ELSE UNCHANGED stored /\ Leave(w)

(* attach_result, fenced by the claim.  A refusal raises, and the failure  *)
(* that follows is refused as well.                                        *)
Attach(w, ck, at, kid) ==
  IF HoldsRow(w) THEN stored' = ck /\ Goto(w, ck, at, kid)
                 ELSE UNCHANGED stored /\ Leave(w)

(* OperationService.defer: checkpoint and release in one statement.  What  *)
(* the attempt still writes afterwards is refused.                         *)
Defer(w, ck) ==
  /\ IF HoldsRow(w) THEN status' = "queued" /\ stored' = ck
                    ELSE UNCHANGED <<status, stored>>
  /\ Leave(w)

(* The final transition: a request to stop that raced it wins.             *)
End(w, s) ==
  /\ status' = IF ~HoldsRow(w) THEN status ELSE IF asked THEN "cancelled" ELSE s
  /\ Leave(w)

Active(k) == {n \in Rows : child[k][n] = "active"}
Present(k) == {n \in Rows : child[k][n] # "absent"}

-----------------------------------------------------------------------------
(* Clients, children, and the stale sweep.                                 *)

(* OperationService.cancel.                                                *)
Cancel ==
  /\ status \in {"queued", "in_progress"} /\ ~asked
  /\ requests < MaxRequests
  /\ requests' = requests + 1
  /\ asked' = TRUE
  /\ status' = IF status = "queued" THEN "cancelled" ELSE status
  /\ UNCHANGED <<tolerant, gen, resource, stored, child, run, stalled, faults>>

(* OperationService.retry of the run: its checkpoint stays, and the failed *)
(* children it names for retry are queued again in the same transaction,   *)
(* unless another row has taken the key of one.                            *)
Retry ==
  LET again == {k \in stored.retry : stored.named[k] # 0
                                     /\ child[k][stored.named[k]] \in Bad} IN
  /\ status = "failed" /\ requests < MaxRequests
  /\ \A k \in again : Active(k) = {}
  /\ requests' = requests + 1
  /\ status' = "queued" /\ asked' = FALSE /\ resource' = FALSE
  /\ child' = [k \in Children |->
       IF k \in again THEN [child[k] EXCEPT ![stored.named[k]] = "active"] ELSE child[k]]
  /\ UNCHANGED <<tolerant, gen, stored, run, stalled, faults>>

(* OperationService.retry of a child.                                      *)
RetryChild(k, n) ==
  /\ child[k][n] = "failed" /\ requests < MaxRequests
  /\ Active(k) = {}
  /\ requests' = requests + 1
  /\ child' = [child EXCEPT ![k][n] = "active"]
  /\ UNCHANGED <<tolerant, status, gen, asked, resource, stored, run, stalled,
                 faults>>

(* A child ends.  A source may have brought in everything, a part of it or *)
(* nothing.                                                                *)
ChildEnds(k, n, s) ==
  /\ child[k][n] = "active"
  /\ s \in Ends[k]
  /\ child' = [child EXCEPT ![k][n] = s]
  /\ UNCHANGED <<tolerant, status, gen, asked, resource, stored, run, stalled,
                 faults, requests>>

(* mark_stale_jobs_failed: the slot is gone, or has stalled.               *)
Sweep ==
  LET attended == \E w \in Workers : run[w] # Idle /\ HoldsRow(w) IN
  /\ status = "in_progress"
  /\ attended => faults < MaxFaults
  /\ faults' = IF attended THEN faults + 1 ELSE faults
  /\ stalled' = (stalled \/ attended)
  /\ status' = "failed"
  /\ UNCHANGED <<tolerant, gen, asked, resource, stored, child, run, requests>>

Crash(w) ==
  /\ run[w] # Idle /\ faults < MaxFaults
  /\ faults' = faults + 1
  /\ Leave(w)
  /\ UNCHANGED <<tolerant, status, gen, asked, resource, stored, child, stalled,
                 requests>>

-----------------------------------------------------------------------------
(* One attempt: dispatch, then execute.                                    *)

IsNewGen(g) ==
  LET known == {gen} \cup {run[v].gen : v \in Workers} IN
  g \notin known /\ \A h \in 0..MaxGen : h < g => h \in known

(* Slots are alike: which of the idle ones claims the run does not matter. *)
Claim(w) ==
  /\ status = "queued"
  /\ run[w] = Idle /\ w = CHOOSE v \in Workers : run[v] = Idle
  /\ status' = "in_progress"
  /\ \E g \in 0..MaxGen :
       /\ IsNewGen(g)
       /\ gen' = g
       /\ run' = [run EXCEPT ![w] = [Idle EXCEPT !.at = "begin", !.gen = g]]
  /\ UNCHANGED <<tolerant, asked, resource, stored, child, stalled, faults, requests>>

(* checkpoint_cancellation in dispatch.                                    *)
Begin(w) ==
  /\ run[w].at = "begin"
  /\ IF HoldsRow(w) /\ asked THEN End(w, "cancelled")
                            ELSE Goto(w, NoCheckpoint, "load", 0) /\ UNCHANGED status
  /\ UNCHANGED <<tolerant, gen, asked, resource, stored, child, stalled, faults,
                 requests>>

(* _ensure_ingestion_children: the first source without a child, if any.   *)
NextSource(ck) ==
  LET missing == {k \in Sources : ck.named[k] = 0}
  IN  IF missing = {} THEN 0 ELSE CHOOSE k \in missing : \A m \in missing : k <= m
Ingest(ck) == IF NextSource(ck) = 0 THEN "read" ELSE "lookup"

(* The checkpoint says where to go on.                                     *)
Load(w) ==
  /\ run[w].at = "load"
  /\ \/ stored.stage = "completed" /\ Goto(w, stored, "repair", 0)
     \/ stored.stage = "none" /\ ~resource /\ Goto(w, stored, "start", 0)
     \/ /\ stored.stage \notin {"none", "completed"} /\ ~resource
        /\ Goto(w, stored, Ingest(stored), NextSource(stored))
  /\ UNCHANGED <<tolerant, status, gen, asked, resource, stored, child, stalled,
                 faults, requests>>

(* _start_ingestion stores the plan.                                       *)
Start(w) ==
  /\ run[w].at = "start"
  /\ Attach(w, [NoCheckpoint EXCEPT !.stage = "ingestion"], "lookup", 1)
  /\ UNCHANGED <<tolerant, status, gen, asked, resource, child, stalled, faults,
                 requests>>

(* Mutation: a child that has ended is not found.                          *)
LookupActive(w) ==
  /\ run[w].at = "lookup"
  /\ run' = [run EXCEPT ![w].found = IF Active(run[w].kid) # {} THEN 1 ELSE 0,
                        ![w].at = IF Active(run[w].kid) # {} THEN "record" ELSE "insert"]
  /\ UNCHANGED <<tolerant, status, gen, asked, resource, stored, child, stalled,
                 faults, requests>>

(* submit_child, its first statement: the first row of the key, whatever   *)
(* has become of it.                                                       *)
Lookup(w) ==
  /\ run[w].at = "lookup"
  /\ run' = [run EXCEPT ![w].found = IF Present(run[w].kid) # {} THEN 1 ELSE 0,
                        ![w].at = IF Present(run[w].kid) # {} THEN "record" ELSE "insert"]
  /\ UNCHANGED <<tolerant, status, gen, asked, resource, stored, child, stalled,
                 faults, requests>>

(* ... its second one, which looks at active rows only.                    *)
Insert(w) ==
  LET k == run[w].kid
      n == Cardinality(Present(k)) + 1
  IN
  /\ run[w].at = "insert"
  /\ IF Active(k) = {}
       THEN /\ child' = [child EXCEPT ![k][n] = "active"]
            /\ run' = [run EXCEPT ![w].found = n, ![w].at = "record"]
       ELSE Goto(w, run[w].ck, "locate", k) /\ UNCHANGED child
  /\ UNCHANGED <<tolerant, status, gen, asked, resource, stored, stalled, faults,
                 requests>>

(* ... and after a conflict the active row, which may have ended by then.  *)
Locate(w) ==
  /\ run[w].at = "locate"
  /\ \E n \in Active(run[w].kid) :
       run' = [run EXCEPT ![w].found = n, ![w].at = "record"]
  /\ UNCHANGED <<tolerant, status, gen, asked, resource, stored, child, stalled,
                 faults, requests>>

(* The child's id goes into the checkpoint; after the submission of the    *)
(* summary or the digest the run is deferred.                              *)
Record(w) ==
  LET k == run[w].kid
      ck == [run[w].ck EXCEPT !.named[k] = run[w].found] IN
  /\ run[w].at = "record"
  /\ CASE k \in Sources -> Attach(w, ck, Ingest(ck), NextSource(ck)) /\ UNCHANGED status
       [] k = Summary   -> Defer(w, [ck EXCEPT !.stage = "summarization"])
       [] k = Digest    -> Defer(w, [ck EXCEPT !.stage = "digest"])
  /\ UNCHANGED <<tolerant, gen, asked, resource, child, stalled, faults, requests>>

(* The sources are read one by one.                                        *)
ReadSource(w) ==
  LET k == run[w].kid + 1 IN
  /\ run[w].at = "read"
  /\ run' = [run EXCEPT ![w].seen[k] = child[k][run[w].ck.named[k]],
                        ![w].kid = IF k < N THEN k ELSE 0,
                        ![w].at = IF k < N THEN "read" ELSE "judge"]
  /\ UNCHANGED <<tolerant, status, gen, asked, resource, stored, child, stalled,
                 faults, requests>>

(* Mutation: a cancelled child has not ended.                              *)
HasActiveUnlessFailed(seen) ==
  \E k \in Sources : seen[k] \in {"active", "cancelled"}

(* _has_active.                                                            *)
HasActive(seen) == \E k \in Sources : seen[k] = "active"

(* Mutation: the stage gets a name of its own.                             *)
FailedError(ck, causes) == [ck EXCEPT !.stage = "error", !.retry = causes]

(* The checkpoint of a failed run names the children to retry.             *)
Failed(ck, causes) == [ck EXCEPT !.stage = "failed", !.retry = causes]

(* The outcome of the ingestion decides whether to wait, to fail or to go  *)
(* on to the summaries.                                                    *)
Judge(w) ==
  LET seen == run[w].seen
      bad == {k \in Sources : seen[k] \in Bad}
      isPartial == \E k \in Sources : seen[k] \in Bad \cup {"partial"}
      hasContent == \E k \in Sources : seen[k] \in {"completed", "partial"}
      ck == [run[w].ck EXCEPT !.retry = {}]
      Proceed(at, kid) == Goto(w, ck, at, kid) /\ UNCHANGED <<status, stored>>
  IN
  /\ run[w].at = "judge"
  /\ IF HasActive(seen) THEN Defer(w, run[w].ck)
     ELSE IF bad = Sources \/ (isPartial /\ ~tolerant)
       THEN Attach(w, Failed(run[w].ck, bad), "fail", 0) /\ UNCHANGED status
     ELSE IF ck.named[Summary] # 0 THEN Proceed("summary", 0)
     ELSE IF ck.skipped THEN Proceed("resolve", 0)
     ELSE IF hasContent THEN Proceed("lookup", Summary)
     ELSE Attach(w, [ck EXCEPT !.skipped = TRUE], "resolve", 0) /\ UNCHANGED status
  /\ UNCHANGED <<tolerant, gen, asked, resource, child, stalled, faults, requests>>

(* Mutation: any terminal status of the summarization will do.             *)
ReadSummaryEnded(w) ==
  LET s == child[Summary][run[w].ck.named[Summary]] IN
  /\ run[w].at = "summary"
  /\ IF s = "active"
       THEN Defer(w, [run[w].ck EXCEPT !.stage = "summarization"])
       ELSE Goto(w, run[w].ck, "resolve", 0) /\ UNCHANGED <<status, stored>>
  /\ UNCHANGED <<tolerant, gen, asked, resource, child, stalled, faults, requests>>

ReadSummary(w) ==
  LET s == child[Summary][run[w].ck.named[Summary]] IN
  /\ run[w].at = "summary"
  /\ CASE s = "active" -> Defer(w, [run[w].ck EXCEPT !.stage = "summarization"])
       [] s \in Bad    -> Attach(w, Failed(run[w].ck, {Summary}), "fail", 0) /\ UNCHANGED status
       [] OTHER        -> Goto(w, run[w].ck, "resolve", 0) /\ UNCHANGED <<status, stored>>
  /\ UNCHANGED <<tolerant, gen, asked, resource, child, stalled, faults, requests>>

(* The content set is resolved once, and stored before the digest that is  *)
(* made of it is submitted under its fingerprint.                          *)
Resolve(w) ==
  LET ck == run[w].ck IN
  /\ run[w].at = "resolve"
  /\ IF ~ck.resolved THEN Attach(w, [ck EXCEPT !.resolved = TRUE], "resolve", 0)
     ELSE /\ IF ck.named[Digest] = 0 THEN Goto(w, ck, "lookup", Digest)
                                     ELSE Goto(w, ck, "digest", 0)
          /\ UNCHANGED stored
  /\ UNCHANGED <<tolerant, status, gen, asked, resource, child, stalled, faults,
                 requests>>

(* attach_completion: result and resource in one statement.                *)
AttachCompletion(w, ck) ==
  /\ Attach(w, [ck EXCEPT !.stage = "completed", !.retry = {}], "finish", 0)
  /\ resource' = (resource \/ HoldsRow(w))
  /\ UNCHANGED status

(* Mutation: the digest need only have ended.                              *)
ReadDigestEnded(w) ==
  LET s == child[Digest][run[w].ck.named[Digest]] IN
  /\ run[w].at = "digest"
  /\ IF s = "active" THEN Defer(w, [run[w].ck EXCEPT !.stage = "digest"]) /\ UNCHANGED resource
     ELSE AttachCompletion(w, run[w].ck)
  /\ UNCHANGED <<tolerant, gen, asked, child, stalled, faults, requests>>

ReadDigest(w) ==
  LET s == child[Digest][run[w].ck.named[Digest]] IN
  /\ run[w].at = "digest"
  /\ CASE s = "active" -> Defer(w, [run[w].ck EXCEPT !.stage = "digest"]) /\ UNCHANGED resource
       [] s \in Bad    -> /\ Attach(w, Failed(run[w].ck, {Digest}), "fail", 0)
                          /\ UNCHANGED <<status, resource>>
       [] OTHER        -> AttachCompletion(w, run[w].ck)
  /\ UNCHANGED <<tolerant, gen, asked, child, stalled, faults, requests>>

(* _repair_completion: the digest is looked at again.                      *)
Repair(w) ==
  LET k == run[w].ck.named[Digest] IN
  /\ run[w].at = "repair"
  /\ k # 0 /\ child[Digest][k] = "completed"
  /\ AttachCompletion(w, run[w].ck)
  /\ UNCHANGED <<tolerant, gen, asked, child, stalled, faults, requests>>

(* An error anywhere, the ones of Load, Locate and Repair included, and    *)
(* the failure that execute itself raises.                                 *)
Raise(w) ==
  /\ run[w] # Idle
  /\ End(w, "failed")
  /\ UNCHANGED <<tolerant, gen, asked, resource, stored, child, stalled, faults,
                 requests>>

(* execute has returned: dispatch looks for a request to stop, and the row *)
(* is completed.                                                           *)
Complete(w) ==
  /\ run[w].at = "finish"
  /\ End(w, "completed")
  /\ UNCHANGED <<tolerant, gen, asked, resource, stored, child, stalled, faults,
                 requests>>

-----------------------------------------------------------------------------
Step(w) ==
  \/ Begin(w) \/ Load(w) \/ Start(w)
  \/ Lookup(w) \/ Insert(w) \/ Locate(w) \/ Record(w)
  \/ ReadSource(w) \/ Judge(w) \/ ReadSummary(w) \/ Resolve(w) \/ ReadDigest(w)
  \/ Repair(w) \/ Raise(w) \/ Complete(w)

Next ==
  \/ Cancel \/ Retry \/ Sweep
  \/ \E k \in Children, n \in Rows : RetryChild(k, n)
  \/ \E k \in Children, n \in Rows, s \in Good \cup Bad : ChildEnds(k, n, s)
  \/ \E w \in Workers : Claim(w)
  \/ \E w \in Workers : Crash(w)
  \/ \E w \in Workers : Step(w)

(* As long as the workers have anything to do, one of them does it: a slot *)
(* steps, the run is claimed, or a run without a slot is swept; and as     *)
(* long as children are active, one ends.  No slot, and no child, is       *)
(* promised a turn of its own; clients and crashes owe nothing.            *)
Fairness ==
  /\ WF_vars(Sweep \/ \E w \in Workers : Claim(w) \/ Step(w))
  /\ WF_vars(\E k \in Children, n \in Rows, s \in Good \cup Bad : ChildEnds(k, n, s))

Spec == Init /\ [][Next]_vars
FairSpec == Spec /\ Fairness

-----------------------------------------------------------------------------
(* Properties.                                                             *)

(* However often attempts die, fail and are retried between a submission   *)
(* and the checkpoint that names it, no stage is started twice: there is   *)
(* one row per child, unless an attempt outlived its claim.                *)
EachStageOnce == ~stalled => \A k \in Children : Cardinality(Present(k)) <= 1

(* The checkpoint never loses a child, not even to an attempt that comes   *)
(* back after the run was swept, retried and moved on, and a stored        *)
(* completion stays.                                                       *)
CheckpointKeepsChildren ==
  [][/\ \A k \in Children :
          stored.named[k] # 0 => stored'.named[k] = stored.named[k]
     /\ stored.stage = "completed" => stored'.stage = "completed"]_vars

(* A digest is made only of what was summarized: when one exists, in any   *)
(* row, a summarization of the run has completed or there was nothing to   *)
(* summarize.                                                              *)
DigestFollowsSummary ==
  Present(Digest) # {} =>
    \/ stored.skipped
    \/ \E n \in Rows : child[Summary][n] = "completed"

(* A run completes with a digest, and what is left behind between storing  *)
(* the completion and ending the row can be completed by a retry.          *)
CompletionIsConsistent ==
  /\ status = "completed" => resource
  /\ resource => stored.stage = "completed"
  /\ stored.stage = "completed" =>
       /\ stored.named[Digest] # 0
       /\ child[Digest][stored.named[Digest]] = "completed"

(* A run that is queued or claimed ends, however its children do.          *)
EveryRunEnds ==
  status \in {"queued", "in_progress"} ~> status \in {"completed"} \cup Bad

=============================================================================
