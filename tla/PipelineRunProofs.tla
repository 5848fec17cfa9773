-------------------------- MODULE PipelineRunProofs --------------------------
(***************************************************************************)
(* Proofs about PipelineRun, for every number of sources, set of worker    *)
(* slots, way children may end, number of faults and of client requests.   *)
(***************************************************************************)
EXTENDS PipelineRun, FiniteSetTheorems, WellFoundedInduction, TLAPS

-----------------------------------------------------------------------------
(* Facts about the constants.                                              *)

LEMMA ChildrenFacts ==
  /\ Sources \subseteq Children /\ 1 \in Sources
  /\ Summary \in Children \ Sources /\ Digest \in Children \ Sources /\ Summary # Digest
  /\ Children = Sources \cup {Summary, Digest} /\ 0 \notin Children
BY PlanAssumption DEF Sources, Children, Summary, Digest

LEMMA RowsFacts ==
  /\ Cardinality(Workers) \in Nat /\ 0 \notin Rows
  /\ \A w \in Workers : 1 \in Rows
<1>1. Cardinality(Workers) \in Nat
  BY PlanAssumption, FS_CardinalityType
<1>2. \A w \in Workers : Cardinality(Workers) # 0
  BY PlanAssumption, FS_EmptySet
<1> QED
  BY <1>1, <1>2 DEF Rows

(* A set of sources that is not empty has a first one, so NextSource finds *)
(* a source without a child whenever there is one.                         *)
LEMMA HasFirst ==
  ASSUME NEW S \in SUBSET Nat, S # {}
  PROVE  \E k \in S : \A m \in S : k <= m
<1>1. PICK k \in S : \A m \in S : ~(<<m, k>> \in OpToRel(<, Nat))
  BY NatLessThanWellFounded, WFMin
<1>2. \A m \in S : m < k => <<m, k>> \in OpToRel(<, Nat)
  BY DEF OpToRel
<1>3. \A m \in S : ~(m < k)
  BY <1>1, <1>2
<1>4. \A m \in S : k <= m
  BY <1>3
<1> QED
  BY <1>4

LEMMA NextSourceIsMissing ==
  ASSUME NEW ck \in Checkpoint
  PROVE  \/ NextSource(ck) = 0 /\ (\A k \in Sources : ck.named[k] # 0) /\ Ingest(ck) = "read"
         \/ NextSource(ck) \in Sources /\ ck.named[NextSource(ck)] = 0 /\ Ingest(ck) = "lookup"
<1> DEFINE missing == {k \in Sources : ck.named[k] = 0}
<1>1. CASE missing = {}
  BY <1>1 DEF NextSource, Ingest
<1>2. CASE missing # {}
  <2>1. missing \in SUBSET Nat
    BY DEF Sources
  <2>2. \E k \in missing : \A m \in missing : k <= m
    BY <1>2, <2>1, HasFirst
  <2>3. NextSource(ck) = CHOOSE k \in missing : \A m \in missing : k <= m
    BY <1>2 DEF NextSource
  <2>4. NextSource(ck) \in missing
    BY <2>2, <2>3
  <2>5. NextSource(ck) # 0
    BY <2>4 DEF Sources
  <2> QED
    BY <2>4, <2>5 DEF Ingest
<1> QED
  BY <1>1, <1>2

-----------------------------------------------------------------------------
(* The inductive invariant: what each slot knows.                          *)

Busy(w) == run[w].at # "idle"
Holder(w) == Busy(w) /\ HoldsRow(w)
Submits == {"lookup", "insert", "locate", "record"}
Works == Submits \cup {"read", "judge", "summary", "resolve", "digest", "fail"}
Knows(w, k) == run[w].ck.named[k] # 0

(* The child in hand is one the slot's checkpoint has no id of yet, and a  *)
(* stage is read only when its child is named.                             *)
IsPlaced(w) ==
  /\ run[w].at = "idle" => run[w] = Idle
  /\ run[w].at \in Submits => run[w].kid \in Children /\ ~Knows(w, run[w].kid)
  /\ run[w].at = "record" => run[w].found \in Rows /\ child[run[w].kid][run[w].found] # "absent"
  /\ run[w].at = "read" => run[w].kid < N
  /\ run[w].at \in {"read", "judge", "summary", "resolve", "digest"} =>
       \A k \in Sources : Knows(w, k)
  /\ run[w].at = "summary" => Knows(w, Summary)
  /\ run[w].at = "digest" => Knows(w, Digest)

(* What a slot goes by is true, even of one that has lost the run.         *)
CopyIsTrue(w) ==
  /\ \A k \in Children : Knows(w, k) => child[k][run[w].ck.named[k]] # "absent"
  /\ run[w].ck.skipped => stored.skipped
  /\ run[w].at \in Works => run[w].ck.stage \notin {"none", "completed"}

(* Whoever is about to have a digest made knows of summaries to make it of.*)
Summarized == stored.skipped \/ \E n \in Rows : child[Summary][n] = "completed"
IsInOrder(w) ==
  run[w].at \in {"resolve", "digest"} \/ (run[w].at \in Submits /\ run[w].kid = Digest)
    => Summarized

(* Nobody but the slot that holds the run writes the checkpoint, so that   *)
(* slot knows what is stored, and more.                                    *)
CopyIsCurrent(w) ==
  Holder(w) =>
    /\ run[w].at \in Works \cup {"repair", "finish"} =>
         /\ \A k \in Children : stored.named[k] # 0 => run[w].ck.named[k] = stored.named[k]
         /\ stored.skipped => run[w].ck.skipped
    /\ run[w].at = "start" => stored.stage = "none"
    /\ run[w].at \in Works => stored.stage # "completed"
    /\ run[w].at \in {"repair", "finish"} => stored.stage = "completed"
    /\ run[w].at = "finish" => resource

(* Unless a claim was outlived, whoever is busy holds the run, and what he *)
(* has looked for in vain is still not there.                              *)
IsAlone(w) ==
  ~stalled /\ Busy(w) => HoldsRow(w) /\ (run[w].at = "insert" => Present(run[w].kid) = {})

IsKnown(w) == IsPlaced(w) /\ CopyIsTrue(w) /\ IsInOrder(w) /\ CopyIsCurrent(w) /\ IsAlone(w)
SlotsAreKnown == \A w \in Workers : IsKnown(w)
GensDiffer ==
  \A v, w \in Workers : Busy(v) /\ Busy(w) /\ run[v].gen = run[w].gen => v = w

StoredIsTrue ==
  /\ stored.stage = "none" => stored = NoCheckpoint
  /\ \A k \in Children : stored.named[k] # 0 => child[k][stored.named[k]] # "absent"

(* Rows of a key are used in order, and there is one for every slot that   *)
(* is about to insert one: each inserts at most one row of a key.          *)
Inserting(k) == {w \in Workers : run[w].at = "insert" /\ run[w].kid = k}
RowsAreInOrder ==
  \A k \in Children :
    /\ Present(k) = 1..Cardinality(Present(k))
    /\ Present(k) # {} =>
         Cardinality(Present(k)) + Cardinality(Inserting(k)) <= Cardinality(Workers)
    /\ k \notin Sources => \A n \in Rows : child[k][n] \notin {"partial", "empty"}

PipelineInv ==
  /\ TypeOK /\ SlotsAreKnown /\ GensDiffer /\ StoredIsTrue /\ RowsAreInOrder
  /\ EachStageOnce /\ DigestFollowsSummary /\ CompletionIsConsistent

(* What a step may do to the checkpoint.                                   *)
Keeps ==
  /\ \A k \in Children : stored.named[k] # 0 => stored'.named[k] = stored.named[k]
  /\ stored.stage = "completed" => stored'.stage = "completed"

-----------------------------------------------------------------------------
LEMMA PresentFinite ==
  ASSUME NEW k
  PROVE  IsFiniteSet(Present(k)) /\ Cardinality(Present(k)) \in Nat
<1>1. IsFiniteSet(Rows)
  BY RowsFacts, FS_Interval DEF Rows
<1>2. Present(k) \in SUBSET Rows
  BY DEF Present
<1>3. IsFiniteSet(Present(k))
  BY <1>1, <1>2, FS_Subset
<1> QED
  BY <1>3, FS_CardinalityType

LEMMA IdleTyped ==
  /\ NoCheckpoint \in Checkpoint /\ Idle \in Attempt
  /\ Idle.at = "idle" /\ Idle.ck = NoCheckpoint
  /\ NoCheckpoint.stage = "none" /\ NoCheckpoint.skipped = FALSE
  /\ \A k \in Children : NoCheckpoint.named[k] = 0
<1>1. NoCheckpoint \in Checkpoint
  BY DEF NoCheckpoint, Checkpoint
<1>2. Unread \in [Sources -> ChildStatus]
  BY DEF Unread, ChildStatus
<1>3. Idle \in Attempt
  BY <1>1, <1>2, BoundsAssumption DEF Idle, Attempt, Places
<1>4. Idle.at = "idle" /\ Idle.ck = NoCheckpoint
  BY DEF Idle
<1>5. NoCheckpoint.stage = "none" /\ NoCheckpoint.skipped = FALSE
      /\ \A k \in Children : NoCheckpoint.named[k] = 0
  BY DEF NoCheckpoint
<1> QED
  BY <1>1, <1>3, <1>4, <1>5

LEMMA InitPipeline == Init => PipelineInv
<1> SUFFICES ASSUME Init PROVE PipelineInv
  OBVIOUS
<1> USE DEF Init
<1>1. TypeOK
  <2>1. child \in [Children -> [Rows -> ChildStatus]]
    BY DEF ChildStatus
  <2>2. run \in [Workers -> Attempt] /\ stored \in Checkpoint
    BY IdleTyped
  <2>3. gen \in 0..MaxGen /\ faults \in 0..MaxFaults /\ requests \in 0..MaxRequests
    BY BoundsAssumption
  <2> QED
    BY <2>1, <2>2, <2>3 DEF TypeOK
<1>2. \A k \in Children : Present(k) = {}
  BY DEF Present
<1>3. SlotsAreKnown /\ GensDiffer
  BY IdleTyped DEF SlotsAreKnown, GensDiffer, IsKnown, IsPlaced, CopyIsTrue, IsInOrder,
     CopyIsCurrent, IsAlone, Holder, Busy, Knows, Submits, Works
<1>4. StoredIsTrue /\ CompletionIsConsistent
  BY IdleTyped DEF StoredIsTrue, CompletionIsConsistent
<1>5. RowsAreInOrder /\ EachStageOnce
  <2>1. Cardinality({}) = 0
    BY FS_EmptySet
  <2>2. 1..0 = {}
    OBVIOUS
  <2>3. \A k \in Children : Cardinality(Present(k)) = 0 /\ Present(k) = 1..Cardinality(Present(k))
    BY <1>2, <2>1, <2>2
  <2>4. \A k \in Children, n \in Rows : child[k][n] \notin {"partial", "empty"}
    OBVIOUS
  <2>5. RowsAreInOrder
    BY <1>2, <2>3, <2>4 DEF RowsAreInOrder
  <2>6. EachStageOnce
    BY <2>3 DEF EachStageOnce
  <2> QED
    BY <2>5, <2>6
<1>6. DigestFollowsSummary
  BY <1>2, ChildrenFacts DEF DigestFollowsSummary
<1> QED
  BY <1>1, <1>3, <1>4, <1>5, <1>6 DEF PipelineInv

-----------------------------------------------------------------------------
(* What one step leaves of what the slots know.                            *)

(* Rows of children do not vanish, and an ended one that succeeded stays.  *)
ChildrenStay ==
  \A k \in Children, n \in Rows :
    /\ child[k][n] # "absent" => child'[k][n] # "absent"
    /\ child[k][n] = "completed" => child'[k][n] = "completed"

LEMMA KnownIsKept ==
  ASSUME TypeOK, NEW v \in Workers, IsKnown(v), run'[v] = run[v], ChildrenStay,
         stored.skipped => stored'.skipped,
         Holder(v)' => Holder(v) /\ stored' = stored /\ (resource => resource'),
         ~stalled' /\ Busy(v) => HoldsRow(v)' /\ (run[v].at = "insert" => Present(run[v].kid)' = {})
  PROVE  IsKnown(v)'
<1>1. run[v].ck.named \in [Children -> {0} \cup Rows]
  BY DEF TypeOK, Attempt, Checkpoint
<1>2. IsPlaced(v)'
  BY DEF IsKnown, IsPlaced, Knows, ChildrenStay, Submits
<1>3. CopyIsTrue(v)'
  BY <1>1 DEF IsKnown, CopyIsTrue, Knows, ChildrenStay
<1>4. Summarized => Summarized'
  BY ChildrenFacts DEF Summarized, ChildrenStay
<1>5. IsInOrder(v)'
  BY <1>4 DEF IsKnown, IsInOrder
<1>6. CopyIsCurrent(v)'
  BY DEF IsKnown, CopyIsCurrent
<1>7. IsAlone(v)'
  BY DEF IsAlone, Busy
<1> QED
  BY <1>2, <1>3, <1>5, <1>6, <1>7 DEF IsKnown

(* A step of a slot: the others need not be looked at, because they do not *)
(* hold the run if it writes to it.                                        *)
LEMMA SlotStep ==
  ASSUME PipelineInv, NEW w \in Workers, Busy(w), NEW a \in Attempt,
         run' = [run EXCEPT ![w] = a], a = Idle \/ a.gen = run[w].gen,
         gen' = gen, stalled' = stalled, status' = "in_progress" => status = "in_progress",
         stored' = stored \/ HoldsRow(w), resource => resource',
         stored.skipped => stored'.skipped, ChildrenStay, IsKnown(w)'
  PROVE  run' \in [Workers -> Attempt] /\ SlotsAreKnown' /\ GensDiffer'
<1> USE DEF PipelineInv
<1>1. run' \in [Workers -> Attempt] /\ run'[w] = a /\ \A v \in Workers \ {w} : run'[v] = run[v]
  BY DEF TypeOK
<1>2. GensDiffer'
  BY <1>1, IdleTyped DEF GensDiffer, Busy
<1>3. ASSUME NEW v \in Workers \ {w} PROVE IsKnown(v)'
  <2>1. IsKnown(v) /\ run'[v] = run[v] /\ IsKnown(w)
    BY <1>1 DEF SlotsAreKnown
  <2>2. Busy(v) => run[v].gen # run[w].gen
    BY DEF GensDiffer
  <2>3. Holder(v)' => Holder(v)
    BY <2>1 DEF Holder, Busy, HoldsRow
  <2>4. Holder(v) => ~HoldsRow(w)
    BY <2>2 DEF Holder, HoldsRow
  <2>5. ~stalled => ~Busy(v)
    BY <2>1, <2>2 DEF IsKnown, IsAlone, HoldsRow
  <2> QED
    BY <2>1, <2>3, <2>4, <2>5, KnownIsKept
<1> QED
  BY <1>1, <1>2, <1>3 DEF SlotsAreKnown

(* A step of a slot that leaves the children alone.                        *)
LEMMA MoveStep ==
  ASSUME PipelineInv, NEW w \in Workers, Busy(w), NEW a \in Attempt,
         run' = [run EXCEPT ![w] = a], a = Idle \/ a.gen = run[w].gen,
         status' \in {status, "queued", "completed"} \cup Bad, resource' \in BOOLEAN,
         stored' = stored \/ (HoldsRow(w) /\ stored' \in Checkpoint /\ StoredIsTrue'),
         resource => resource', stored.skipped => stored'.skipped, IsKnown(w)',
         a.at = "insert" => Present(a.kid) = {},
         UNCHANGED <<tolerant, gen, asked, child, stalled, faults, requests>>,
         Keeps, CompletionIsConsistent'
  PROVE  PipelineInv' /\ Keeps
<1> USE DEF PipelineInv
<1>1. ChildrenStay
  BY DEF ChildrenStay
<1>2. status' = "in_progress" => status = "in_progress"
  BY DEF Bad
<1>3. run' \in [Workers -> Attempt] /\ SlotsAreKnown' /\ GensDiffer'
  BY <1>1, <1>2, SlotStep
<1>4. TypeOK'
  BY <1>3 DEF TypeOK
<1>5. StoredIsTrue'
  BY DEF StoredIsTrue
<1>6. \A k \in Children : Present(k)' = Present(k)
  BY DEF Present
<1>7. RowsAreInOrder'
  <2> SUFFICES ASSUME NEW k \in Children, Present(k) # {}
               PROVE  Cardinality(Present(k)) + Cardinality(Inserting(k)') <= Cardinality(Workers)
    BY <1>6 DEF RowsAreInOrder
  <2>1. run'[w] = a /\ \A v \in Workers \ {w} : run'[v] = run[v]
    BY DEF TypeOK
  <2>2. Inserting(k)' \subseteq Inserting(k) /\ Inserting(k) \subseteq Workers
    BY <2>1 DEF Inserting
  <2>3. /\ IsFiniteSet(Inserting(k)) /\ IsFiniteSet(Inserting(k)')
        /\ Cardinality(Inserting(k)') <= Cardinality(Inserting(k))
    BY <2>2, PlanAssumption, FS_Subset
  <2>4. Cardinality(Inserting(k)) \in Nat /\ Cardinality(Inserting(k)') \in Nat
    BY <2>3, FS_CardinalityType
  <2>5. Cardinality(Present(k)) \in Nat
    BY PresentFinite
  <2>6. Cardinality(Present(k)) + Cardinality(Inserting(k)) <= Cardinality(Workers)
    BY DEF RowsAreInOrder
  <2> QED
    BY <2>3, <2>4, <2>5, <2>6, RowsFacts
<1>8. EachStageOnce'
  BY <1>6 DEF EachStageOnce
<1>9. DigestFollowsSummary'
  BY <1>6, ChildrenFacts DEF DigestFollowsSummary
<1> QED
  BY <1>3, <1>4, <1>5, <1>7, <1>8, <1>9

-----------------------------------------------------------------------------
(* The ways a step of a slot ends.                                         *)

(* What a slot has in hand after it has gone somewhere.                    *)
LEMMA GotoGives ==
  ASSUME TypeOK, NEW w \in Workers, NEW ck \in Checkpoint, NEW at \in Places,
         NEW kid \in {0} \cup Children, Goto(w, ck, at, kid)
  PROVE  \E a \in Attempt :
           /\ run' = [run EXCEPT ![w] = a] /\ run'[w] = a /\ a.gen = run[w].gen
           /\ a.at = at /\ a.ck = ck /\ a.kid = kid
<1> DEFINE a == [Idle EXCEPT !.gen = run[w].gen, !.ck = ck, !.at = at, !.kid = kid]
<1>1. run[w].gen \in 0..MaxGen
  BY DEF TypeOK, Attempt
<1>2. a \in Attempt /\ a.gen = run[w].gen /\ a.at = at /\ a.ck = ck /\ a.kid = kid
  BY <1>1, IdleTyped DEF Attempt
<1>3. run' = [run EXCEPT ![w] = a] /\ run'[w] = a
  BY DEF Goto, TypeOK
<1> HIDE DEF a
<1> QED
  BY <1>2, <1>3

(* Nothing is asked of a slot that has left.                               *)
LEMMA LeaveGives ==
  ASSUME TypeOK, NEW w \in Workers, Leave(w)
  PROVE  run' = [run EXCEPT ![w] = Idle] /\ run'[w] = Idle /\ IsKnown(w)'
<1>1. run' = [run EXCEPT ![w] = Idle] /\ run'[w] = Idle
  BY DEF Leave, TypeOK
<1> QED
  BY <1>1, IdleTyped DEF IsKnown, IsPlaced, CopyIsTrue, IsInOrder, CopyIsCurrent, IsAlone,
     Holder, Busy, Knows, Submits, Works

(* A slot goes on without writing anything.                                *)
LEMMA GotoStep ==
  ASSUME PipelineInv, NEW w \in Workers, Busy(w), NEW ck \in Checkpoint, NEW at \in Places,
         NEW kid \in {0} \cup Children, Goto(w, ck, at, kid), at # "insert", IsKnown(w)',
         UNCHANGED <<tolerant, status, gen, asked, resource, stored, child, stalled, faults, requests>>
  PROVE  PipelineInv' /\ Keeps
<1> USE DEF PipelineInv
<1>1. PICK a \in Attempt : run' = [run EXCEPT ![w] = a] /\ a.gen = run[w].gen /\ a.at = at
  BY GotoGives
<1>2. Keeps /\ CompletionIsConsistent' /\ resource' \in BOOLEAN
  BY DEF Keeps, CompletionIsConsistent, TypeOK
<1> QED
  BY <1>1, <1>2, MoveStep

(* A slot ends the run, if it holds it, or is gone.                        *)
LEMMA EndStep ==
  ASSUME PipelineInv, NEW w \in Workers, Busy(w), Leave(w),
         \/ status' = status
         \/ status' \in Bad
         \/ status' = "completed" /\ HoldsRow(w) /\ run[w].at = "finish",
         UNCHANGED <<tolerant, gen, asked, resource, stored, child, stalled, requests>>,
         faults' = faults
  PROVE  PipelineInv' /\ Keeps
<1> USE DEF PipelineInv
<1>1. run' = [run EXCEPT ![w] = Idle] /\ IsKnown(w)'
  BY LeaveGives
<1>2. run[w].at = "finish" /\ HoldsRow(w) => resource
  BY DEF SlotsAreKnown, IsKnown, CopyIsCurrent, Holder
<1>3. CompletionIsConsistent'
  BY <1>2 DEF CompletionIsConsistent, Bad
<1>4. Keeps /\ resource' \in BOOLEAN
  BY DEF Keeps, TypeOK
<1> QED
  BY <1>1, <1>3, <1>4, IdleTyped, MoveStep

(* A checkpoint a slot may store, if it holds the run.                     *)
IsNext(w, ck) ==
  /\ \A k \in Children : ck.named[k] # 0 => child[k][ck.named[k]] # "absent"
  /\ ck.stage # "none"
  /\ HoldsRow(w) =>
       /\ \A k \in Children : stored.named[k] # 0 => ck.named[k] = stored.named[k]
       /\ stored.skipped => ck.skipped

LEMMA DeferStep ==
  ASSUME PipelineInv, NEW w \in Workers, run[w].at \in Works, NEW ck \in Checkpoint,
         IsNext(w, ck), ck.stage # "completed", Defer(w, ck),
         UNCHANGED <<tolerant, gen, asked, resource, child, stalled, faults, requests>>
  PROVE  PipelineInv' /\ Keeps
<1> USE DEF PipelineInv
<1>1. Busy(w)
  BY DEF Busy, Works, Submits
<1>2. run' = [run EXCEPT ![w] = Idle] /\ IsKnown(w)'
  BY LeaveGives DEF Defer
<1>3. HoldsRow(w) => stored.stage # "completed" /\ ~resource
  BY <1>1 DEF SlotsAreKnown, IsKnown, CopyIsCurrent, Holder, CompletionIsConsistent
<1>4. CASE ~HoldsRow(w)
  <2>1. UNCHANGED <<status, stored>>
    BY <1>4 DEF Defer
  <2>2. Keeps /\ CompletionIsConsistent' /\ resource' \in BOOLEAN
    BY <2>1 DEF Keeps, CompletionIsConsistent, TypeOK
  <2> QED
    BY <1>1, <1>2, <2>1, <2>2, IdleTyped, MoveStep
<1>5. CASE HoldsRow(w)
  <2>1. status' = "queued" /\ stored' = ck
    BY <1>5 DEF Defer
  <2>2. StoredIsTrue' /\ Keeps /\ CompletionIsConsistent'
    BY <1>3, <1>5, <2>1 DEF IsNext, StoredIsTrue, Keeps, CompletionIsConsistent
  <2>3. stored.skipped => stored'.skipped
    BY <1>5, <2>1 DEF IsNext
  <2>4. resource' \in BOOLEAN
    BY DEF TypeOK
  <2> QED
    BY <1>1, <1>2, <1>5, <2>1, <2>2, <2>3, <2>4, IdleTyped, MoveStep
<1> QED
  BY <1>4, <1>5

(* A completion is attached when the digest it names is completed.         *)
IsCompletion(ck) == ck.named[Digest] # 0 /\ child[Digest][ck.named[Digest]] = "completed"

LEMMA AttachStep ==
  ASSUME PipelineInv, NEW w \in Workers, NEW ck \in Checkpoint,
         NEW at \in Works \cup {"finish"}, NEW kid \in {0} \cup Children,
         at \notin {"insert", "record"}, IsNext(w, ck), Attach(w, ck, at, kid),
         ck.stage = "completed" <=> at = "finish",
         \/ at # "finish" /\ run[w].at \in Works \cup {"start"}
         \/ at = "finish" /\ IsCompletion(ck) /\ Busy(w),
         HoldsRow(w) => IsPlaced(w)' /\ IsInOrder(w)',
         resource' = (resource \/ (at = "finish" /\ HoldsRow(w))),
         UNCHANGED <<tolerant, status, gen, asked, child, stalled, faults, requests>>
  PROVE  PipelineInv' /\ Keeps
<1> USE DEF PipelineInv
<1>1. Busy(w) /\ at \in Places
  BY DEF Busy, Works, Submits, Places
<1>2. resource' \in BOOLEAN
  BY DEF TypeOK
<1>3. CASE ~HoldsRow(w)
  <2>1. Leave(w) /\ stored' = stored
    BY <1>3 DEF Attach
  <2>2. resource' = resource
    BY <1>3 DEF TypeOK
  <2> QED
    BY <1>1, <2>1, <2>2, EndStep
<1>4. CASE HoldsRow(w)
  <2>1. stored' = ck /\ Goto(w, ck, at, kid)
    BY <1>4 DEF Attach
  <2>2. PICK a \in Attempt :
          /\ run' = [run EXCEPT ![w] = a] /\ run'[w] = a /\ a.gen = run[w].gen
          /\ a.at = at /\ a.ck = ck /\ a.kid = kid
    <3>1. kid \in {0} \cup Children /\ Goto(w, ck, at, kid) /\ at \in Places /\ ck \in Checkpoint
      BY <1>1, <2>1 DEF IsNext
    <3>2. TypeOK
      OBVIOUS
    <3> HIDE DEF PipelineInv
    <3>3. \E a \in Attempt :
            /\ run' = [run EXCEPT ![w] = a] /\ run'[w] = a /\ a.gen = run[w].gen
            /\ a.at = at /\ a.ck = ck /\ a.kid = kid
      BY ONLY <3>1, <3>2, GotoGives
    <3> QED
      BY ONLY <3>3
  <2>3. at # "finish" => stored.stage # "completed" /\ ~resource
    BY <1>1, <1>4 DEF SlotsAreKnown, IsKnown, CopyIsCurrent, Holder, CompletionIsConsistent
  <2>4. StoredIsTrue' /\ Keeps /\ (stored.skipped => stored'.skipped)
    BY <1>4, <2>1, <2>3 DEF IsNext, StoredIsTrue, Keeps
  <2>5. CompletionIsConsistent'
    BY <1>4, <2>1, <2>3 DEF CompletionIsConsistent, IsCompletion, HoldsRow
  <2>6. CopyIsTrue(w)'
    BY <2>1, <2>2 DEF IsNext, CopyIsTrue, Knows, Works, Submits
  <2>7. CopyIsCurrent(w)'
    BY <1>4, <2>1, <2>2 DEF CopyIsCurrent, Works, Submits
  <2>8. IsAlone(w)'
    BY <1>4, <2>2 DEF IsAlone, HoldsRow
  <2> QED
    BY <1>1, <1>2, <1>4, <2>1, <2>2, <2>4, <2>5, <2>6, <2>7, <2>8, MoveStep DEF IsKnown
<1> QED
  BY <1>3, <1>4

(* ... the usual case: the slot is not done yet.                           *)
LEMMA AttachOn ==
  ASSUME PipelineInv, NEW w \in Workers, NEW ck \in Checkpoint,
         NEW at \in Works \ {"insert", "record"}, NEW kid \in {0} \cup Children,
         IsNext(w, ck), Attach(w, ck, at, kid), ck.stage # "completed",
         run[w].at \in Works \cup {"start"},
         HoldsRow(w) => IsPlaced(w)' /\ IsInOrder(w)',
         UNCHANGED <<tolerant, status, gen, asked, resource, child, stalled, faults, requests>>
  PROVE  PipelineInv' /\ Keeps
<1>1. at \in Works \cup {"finish"} /\ at # "finish"
  BY DEF Works, Submits
<1>2. resource \in BOOLEAN
  BY DEF PipelineInv, TypeOK
<1>3. resource' = (resource \/ (at = "finish" /\ HoldsRow(w)))
  BY <1>1, <1>2
<1> QED
  BY <1>1, <1>3, AttachStep

-----------------------------------------------------------------------------
(* The steps of a slot.                                                    *)

(* What is known of a slot that is not idle.                               *)
LEMMA SlotFacts ==
  ASSUME PipelineInv, NEW w \in Workers
  PROVE  /\ run[w] \in Attempt /\ run[w].ck \in Checkpoint /\ IsKnown(w)
         /\ run[w].ck.named \in [Children -> {0} \cup Rows]
         /\ run[w] # Idle <=> Busy(w)
  BY IdleTyped DEF PipelineInv, TypeOK, SlotsAreKnown, Attempt, Checkpoint, Busy, IsKnown, IsPlaced

(* The checkpoint in hand may be stored again.                             *)
LEMMA OwnIsNext ==
  ASSUME PipelineInv, NEW w \in Workers, run[w].at \in Works
  PROVE  IsNext(w, run[w].ck)
<1>1. IsKnown(w) /\ Busy(w)
  BY DEF PipelineInv, SlotsAreKnown, Busy, Works, Submits
<1> QED
  BY <1>1 DEF IsNext, IsKnown, CopyIsTrue, CopyIsCurrent, Holder, Knows

LEMMA BeginStep ==
  ASSUME PipelineInv, NEW w \in Workers, Begin(w)
  PROVE  PipelineInv' /\ Keeps
<1>1. Busy(w)
  BY DEF Begin, Busy
<1>2. CASE End(w, "cancelled") /\ HoldsRow(w) /\ asked
  <2>1. Leave(w) /\ status' \in Bad
    BY <1>2 DEF End, Bad
  <2> QED
    BY <1>1, <2>1, EndStep DEF Begin
<1>3. CASE Goto(w, NoCheckpoint, "load", 0) /\ status' = status
  <2>1. PICK a \in Attempt :
          /\ run'[w] = a /\ a.gen = run[w].gen /\ a.at = "load" /\ a.ck = NoCheckpoint
    BY <1>3, IdleTyped, GotoGives DEF PipelineInv, Places
  <2>2. stalled' = stalled /\ gen' = gen
    BY DEF Begin
  <2>3. IsKnown(w)'
    BY <1>1, <1>3, <2>1, <2>2, IdleTyped, SlotFacts
       DEF IsKnown, IsPlaced, CopyIsTrue, IsInOrder, CopyIsCurrent, IsAlone, Knows,
           Works, Submits, HoldsRow, Busy
  <2> QED
    BY <1>1, <1>3, <2>3, IdleTyped, GotoStep DEF Begin, Places
<1> QED
  BY <1>2, <1>3 DEF Begin

(* What is stored is taken over as it is.                                  *)
LEMMA LoadStep ==
  ASSUME PipelineInv, NEW w \in Workers, Load(w)
  PROVE  PipelineInv' /\ Keeps
<1>1. Busy(w) /\ stored \in Checkpoint /\ TypeOK
      /\ UNCHANGED <<tolerant, status, gen, asked, resource, stored, child, stalled, faults, requests>>
  BY DEF Load, Busy, PipelineInv, TypeOK
<1>2. StoredIsTrue /\ IsKnown(w)
  BY SlotFacts DEF PipelineInv
<1>3. \E at \in Places, k \in {0} \cup Children :
        /\ Goto(w, stored, at, k)
        /\ \/ at = "repair" /\ stored.stage = "completed"
           \/ at = "start" /\ stored.stage = "none"
           \/ /\ stored.stage \notin {"none", "completed"}
              /\ \/ at = "read" /\ k = 0 /\ \A q \in Sources : stored.named[q] # 0
                 \/ at = "lookup" /\ k \in Sources /\ stored.named[k] = 0
  BY <1>1, NextSourceIsMissing, ChildrenFacts DEF Load, Places
<1>4. PICK at \in Places, k \in {0} \cup Children :
        /\ Goto(w, stored, at, k)
        /\ \/ at = "repair" /\ stored.stage = "completed"
           \/ at = "start" /\ stored.stage = "none"
           \/ /\ stored.stage \notin {"none", "completed"}
              /\ \/ at = "read" /\ k = 0 /\ \A q \in Sources : stored.named[q] # 0
                 \/ at = "lookup" /\ k \in Sources /\ stored.named[k] = 0
  BY <1>3
<1>5. PICK a \in Attempt :
        run'[w] = a /\ a.gen = run[w].gen /\ a.at = at /\ a.ck = stored /\ a.kid = k
  <2>1. Goto(w, stored, at, k)
    BY <1>4
  <2> QED
    BY <1>1, <2>1, GotoGives
<1>6. IsPlaced(w)' /\ IsInOrder(w)'
  BY <1>4, <1>5, ChildrenFacts, PlanAssumption DEF IsPlaced, IsInOrder, Submits, Knows
<1>7. CopyIsTrue(w)'
  BY <1>1, <1>2, <1>4, <1>5 DEF CopyIsTrue, StoredIsTrue, Knows, Works, Submits
<1>8. CopyIsCurrent(w)'
  BY <1>1, <1>4, <1>5 DEF CopyIsCurrent, Works, Submits
<1>9. IsAlone(w)'
  BY <1>1, <1>2, <1>4, <1>5 DEF IsKnown, IsAlone, HoldsRow, Busy
<1>10. at # "insert"
  BY <1>4
<1> QED
  BY <1>1, <1>4, <1>6, <1>7, <1>8, <1>9, <1>10, GotoStep DEF IsKnown

LEMMA StartStep ==
  ASSUME PipelineInv, NEW w \in Workers, Start(w)
  PROVE  PipelineInv' /\ Keeps
<1> DEFINE ck == [NoCheckpoint EXCEPT !.stage = "ingestion"]
<1>1. /\ ck \in Checkpoint /\ ck.stage = "ingestion" /\ ck.skipped = FALSE
      /\ \A k \in Children : ck.named[k] = 0
  BY IdleTyped DEF Checkpoint
<1>2. Attach(w, ck, "lookup", 1) /\ run[w].at = "start"
      /\ UNCHANGED <<tolerant, status, gen, asked, resource, child, stalled, faults, requests>>
  BY DEF Start
<1> HIDE DEF ck
<1>3. HoldsRow(w) => stored = NoCheckpoint
  BY <1>2, SlotFacts DEF IsKnown, CopyIsCurrent, Holder, Busy, PipelineInv, StoredIsTrue
<1>4. IsNext(w, ck)
  BY <1>1, <1>3, IdleTyped DEF IsNext
<1>5. ASSUME HoldsRow(w) PROVE IsPlaced(w)' /\ IsInOrder(w)'
  <2>1. PICK a \in Attempt : run'[w] = a /\ a.at = "lookup" /\ a.ck = ck /\ a.kid = 1
    BY <1>1, <1>2, <1>5, ChildrenFacts, GotoGives DEF Attach, PipelineInv, Places
  <2> QED
    BY <1>1, <2>1, ChildrenFacts DEF IsPlaced, IsInOrder, Submits, Knows
<1> QED
  BY <1>1, <1>2, <1>4, <1>5, ChildrenFacts, AttachOn DEF Works, Submits

(* The first row of a key is there if any is.                              *)
LEMMA LookupStep ==
  ASSUME PipelineInv, NEW w \in Workers, Lookup(w)
  PROVE  PipelineInv' /\ Keeps
<1> USE DEF PipelineInv
<1> DEFINE k == run[w].kid
<1> DEFINE a == IF Present(k) # {} THEN [run[w] EXCEPT !.found = 1, !.at = "record"]
                                   ELSE [run[w] EXCEPT !.found = 0, !.at = "insert"]
<1>1. /\ run[w].at = "lookup" /\ Busy(w) /\ IsKnown(w) /\ run[w] \in Attempt /\ k \in Children
      /\ UNCHANGED <<tolerant, status, gen, asked, resource, stored, child, stalled, faults, requests>>
  BY SlotFacts DEF Lookup, Busy, IsKnown, IsPlaced, Submits
<1>2. run' = [run EXCEPT ![w] = a]
  BY DEF Lookup
<1>3. a \in Attempt /\ a.gen = run[w].gen /\ a.ck = run[w].ck /\ a.kid = k
      /\ (Present(k) # {} => a.at = "record" /\ a.found = 1)
      /\ (Present(k) = {} => a.at = "insert")
  BY <1>1, RowsFacts DEF Attempt, Places
<1>4. run'[w] = a
  BY <1>2 DEF TypeOK
<1>5. Present(k) # {} => 1 \in Present(k)
  <2>1. Present(k) = 1..Cardinality(Present(k)) /\ Cardinality(Present(k)) \in Nat
    BY <1>1, PresentFinite DEF RowsAreInOrder
  <2> QED
    BY <2>1
<1> HIDE DEF a
<1>6. IsPlaced(w)'
  BY <1>1, <1>3, <1>4, <1>5 DEF IsKnown, IsPlaced, Submits, Knows, Present
<1>7. CopyIsTrue(w)' /\ IsInOrder(w)' /\ CopyIsCurrent(w)'
  BY <1>1, <1>3, <1>4 DEF IsKnown, CopyIsTrue, IsInOrder, Summarized, CopyIsCurrent, Knows,
     Works, Submits, Holder, HoldsRow, Busy
<1>8. IsAlone(w)'
  <2>1. \A q \in Children : Present(q)' = Present(q)
    BY <1>1 DEF Present
  <2> QED
    BY <1>1, <1>3, <1>4, <2>1 DEF IsKnown, IsAlone, HoldsRow, Busy
<1>9. Keeps /\ CompletionIsConsistent' /\ resource' \in BOOLEAN
  BY <1>1 DEF Keeps, CompletionIsConsistent, TypeOK
<1> QED
  BY <1>1, <1>2, <1>3, <1>6, <1>7, <1>8, <1>9, MoveStep DEF IsKnown

LEMMA LocateStep ==
  ASSUME PipelineInv, NEW w \in Workers, Locate(w)
  PROVE  PipelineInv' /\ Keeps
<1> USE DEF PipelineInv
<1>1. /\ run[w].at = "locate" /\ Busy(w) /\ IsKnown(w) /\ run[w] \in Attempt
      /\ run[w].kid \in Children
      /\ UNCHANGED <<tolerant, status, gen, asked, resource, stored, child, stalled, faults, requests>>
  BY SlotFacts DEF Locate, Busy, IsKnown, IsPlaced, Submits
<1>2. PICK n \in Active(run[w].kid) :
        run' = [run EXCEPT ![w] = [run[w] EXCEPT !.found = n, !.at = "record"]]
  BY DEF Locate
<1> DEFINE a == [run[w] EXCEPT !.found = n, !.at = "record"]
<1>3. n \in Rows /\ child[run[w].kid][n] # "absent"
  BY DEF Active
<1>4. /\ a \in Attempt /\ a.gen = run[w].gen /\ a.ck = run[w].ck /\ a.kid = run[w].kid
      /\ a.at = "record" /\ a.found = n
  BY <1>1, <1>3 DEF Attempt, Places
<1>5. run'[w] = a /\ run' = [run EXCEPT ![w] = a]
  BY <1>2 DEF TypeOK
<1> HIDE DEF a
<1>6. IsPlaced(w)'
  BY <1>1, <1>3, <1>4, <1>5 DEF IsKnown, IsPlaced, Submits, Knows
<1>7. CopyIsTrue(w)' /\ IsInOrder(w)' /\ CopyIsCurrent(w)' /\ IsAlone(w)'
  BY <1>1, <1>4, <1>5 DEF IsKnown, CopyIsTrue, IsInOrder, Summarized, CopyIsCurrent, IsAlone,
     Knows, Works, Submits, Holder, HoldsRow, Busy
<1>8. Keeps /\ CompletionIsConsistent' /\ resource' \in BOOLEAN
  BY <1>1 DEF Keeps, CompletionIsConsistent, TypeOK
<1> QED
  BY <1>1, <1>4, <1>5, <1>6, <1>7, <1>8, MoveStep DEF IsKnown

(* The id of a child is added to those the checkpoint has.                 *)
LEMMA RecordStep ==
  ASSUME PipelineInv, NEW w \in Workers, Record(w)
  PROVE  PipelineInv' /\ Keeps
<1> USE DEF PipelineInv
<1> DEFINE k == run[w].kid
<1> DEFINE ck == [run[w].ck EXCEPT !.named[k] = run[w].found]
<1>1. /\ run[w].at = "record" /\ Busy(w) /\ IsKnown(w) /\ run[w] \in Attempt
      /\ run[w].ck \in Checkpoint /\ run[w].ck.named \in [Children -> {0} \cup Rows]
      /\ k \in Children /\ ~Knows(w, k) /\ run[w].found \in Rows /\ child[k][run[w].found] # "absent"
      /\ run[w].ck.stage \notin {"none", "completed"}
      /\ UNCHANGED <<tolerant, gen, asked, resource, child, stalled, faults, requests>>
  BY SlotFacts DEF Record, Busy, IsKnown, IsPlaced, CopyIsTrue, Submits, Works
<1>2. IsNext(w, run[w].ck)
  BY <1>1, OwnIsNext DEF Works, Submits
<1>3. /\ ck \in Checkpoint /\ ck.stage = run[w].ck.stage /\ ck.skipped = run[w].ck.skipped
      /\ \A q \in Children : ck.named[q] = IF q = k THEN run[w].found ELSE run[w].ck.named[q]
  BY <1>1 DEF Checkpoint
<1>4. IsNext(w, ck)
  <2>1. \A q \in Children : run[w].ck.named[q] # 0 => ck.named[q] = run[w].ck.named[q]
    BY <1>1, <1>3 DEF Knows
  <2>2. \A q \in Children : ck.named[q] # 0 => child[q][ck.named[q]] # "absent"
    BY <1>1, <1>2, <1>3 DEF IsNext, Knows
  <2> QED
    BY <1>2, <1>3, <2>1, <2>2 DEF IsNext
<1>5. CASE k \in Sources
  <2>1. Attach(w, ck, Ingest(ck), NextSource(ck)) /\ UNCHANGED status
    BY <1>5, ChildrenFacts DEF Record
  <2> HIDE DEF ck
  <2>2. \/ NextSource(ck) = 0 /\ (\A q \in Sources : ck.named[q] # 0) /\ Ingest(ck) = "read"
        \/ NextSource(ck) \in Sources /\ ck.named[NextSource(ck)] = 0 /\ Ingest(ck) = "lookup"
    BY <1>3, NextSourceIsMissing
  <2>3. PICK at \in {"read", "lookup"}, q \in {0} \cup Sources :
          /\ Attach(w, ck, at, q)
          /\ \/ at = "read" /\ q = 0 /\ \A p \in Sources : ck.named[p] # 0
             \/ at = "lookup" /\ q \in Sources /\ ck.named[q] = 0
    BY <2>1, <2>2
  <2>4. q \in {0} \cup Children /\ at \in Works \ {"insert", "record"} /\ at \in Places
        /\ ck \in Checkpoint
    BY <1>3, ChildrenFacts DEF Works, Submits, Places
  <2>5. ASSUME HoldsRow(w) PROVE IsPlaced(w)' /\ IsInOrder(w)'
    <3>1. PICK a \in Attempt : run'[w] = a /\ a.at = at /\ a.ck = ck /\ a.kid = q
      BY <2>3, <2>4, <2>5, GotoGives DEF Attach
    <3> QED
      BY <2>3, <3>1, ChildrenFacts, PlanAssumption DEF IsPlaced, IsInOrder, Submits, Knows
  <2> QED
    BY <1>1, <1>3, <1>4, <2>1, <2>3, <2>4, <2>5, AttachOn DEF Works, Submits
<1>6. CASE k \in {Summary, Digest}
  <2>1. PICK stage \in {"summarization", "digest"} : Defer(w, [ck EXCEPT !.stage = stage])
    BY <1>6, ChildrenFacts DEF Record
  <2> DEFINE next == [ck EXCEPT !.stage = stage]
  <2>2. /\ next \in Checkpoint /\ next.stage = stage /\ next.named = ck.named
        /\ next.skipped = ck.skipped
    BY <1>3 DEF Checkpoint
  <2>3. Defer(w, next)
    BY <2>1
  <2> HIDE DEF next, ck
  <2>4. IsNext(w, next) /\ next.stage # "completed"
    BY <1>4, <2>2 DEF IsNext
  <2> QED
    BY <1>1, <2>2, <2>3, <2>4, DeferStep DEF Works, Submits
<1> QED
  BY <1>1, <1>5, <1>6, ChildrenFacts

LEMMA ReadSourceStep ==
  ASSUME PipelineInv, NEW w \in Workers, ReadSource(w)
  PROVE  PipelineInv' /\ Keeps
<1> USE DEF PipelineInv
<1>1. /\ run[w].at = "read" /\ Busy(w) /\ IsKnown(w) /\ run[w] \in Attempt /\ run[w].kid < N
      /\ run[w].ck.named \in [Children -> {0} \cup Rows]
      /\ \A k \in Sources : run[w].ck.named[k] # 0
      /\ UNCHANGED <<tolerant, status, gen, asked, resource, stored, child, stalled, faults, requests>>
  BY SlotFacts DEF ReadSource, Busy, IsKnown, IsPlaced, Knows
<1>2. PICK k \in Sources : k = run[w].kid + 1
  BY <1>1, PlanAssumption DEF Attempt, Children, Sources
<1> DEFINE s == child[k][run[w].ck.named[k]]
<1> DEFINE a == [run[w] EXCEPT !.seen[k] = s, !.kid = IF k < N THEN k ELSE 0,
                               !.at = IF k < N THEN "read" ELSE "judge"]
<1>3. s \in ChildStatus
  BY <1>1, ChildrenFacts DEF TypeOK
<1>4. /\ a \in Attempt /\ a.gen = run[w].gen /\ a.ck = run[w].ck
      /\ a.at \in {"read", "judge"} /\ (a.at = "read" => a.kid < N)
  <2>1. [run[w].seen EXCEPT ![k] = s] \in [Sources -> ChildStatus]
    BY <1>1, <1>3 DEF Attempt
  <2> HIDE DEF s
  <2>2. (IF k < N THEN k ELSE 0) \in {0} \cup Children
    BY ChildrenFacts
  <2> QED
    BY <1>1, <2>1, <2>2 DEF Attempt, Places
<1>5. run' = [run EXCEPT ![w] = a]
  BY <1>2 DEF ReadSource
<1>6. run'[w] = a
  BY <1>5 DEF TypeOK
<1> HIDE DEF a, s
<1>7. IsPlaced(w)'
  BY <1>1, <1>4, <1>6 DEF IsPlaced, Submits, Knows
<1>8. CopyIsTrue(w)' /\ IsInOrder(w)' /\ CopyIsCurrent(w)' /\ IsAlone(w)'
  BY <1>1, <1>4, <1>6 DEF IsKnown, CopyIsTrue, IsInOrder, Summarized, CopyIsCurrent, IsAlone,
     Knows, Works, Submits, Holder, HoldsRow, Busy
<1>9. Keeps /\ CompletionIsConsistent' /\ resource' \in BOOLEAN
  BY <1>1 DEF Keeps, CompletionIsConsistent, TypeOK
<1> QED
  BY <1>1, <1>4, <1>5, <1>7, <1>8, <1>9, MoveStep DEF IsKnown

(* A slot goes on with the checkpoint it has, up to its causes for retry.  *)
LEMMA ProceedStep ==
  ASSUME PipelineInv, NEW w \in Workers, run[w].at \in Works, NEW ck \in Checkpoint,
         ck.named = run[w].ck.named, ck.skipped = run[w].ck.skipped, ck.stage = run[w].ck.stage,
         NEW at \in Works \ {"insert", "record"}, NEW kid \in {0} \cup Children,
         Goto(w, ck, at, kid), IsPlaced(w)' /\ IsInOrder(w)',
         UNCHANGED <<tolerant, status, gen, asked, resource, stored, child, stalled, faults, requests>>
  PROVE  PipelineInv' /\ Keeps
<1>1. at \in Places /\ at # "insert" /\ Busy(w) /\ IsKnown(w)
  BY SlotFacts DEF Works, Submits, Places, Busy
<1>2. PICK a \in Attempt : run'[w] = a /\ a.gen = run[w].gen /\ a.at = at /\ a.ck = ck
  BY <1>1, GotoGives DEF PipelineInv
<1>3. CopyIsTrue(w)' /\ CopyIsCurrent(w)' /\ IsAlone(w)'
  BY <1>1, <1>2 DEF IsKnown, CopyIsTrue, CopyIsCurrent, IsAlone, Knows, Works, Submits,
     Holder, HoldsRow, Busy
<1> QED
  BY <1>1, <1>3, GotoStep DEF IsKnown

(* A failure is stored with its causes.                                    *)
LEMMA FailStep ==
  ASSUME PipelineInv, NEW w \in Workers, run[w].at \in Works, NEW causes \in SUBSET Children,
         Attach(w, Failed(run[w].ck, causes), "fail", 0),
         UNCHANGED <<tolerant, status, gen, asked, resource, child, stalled, faults, requests>>
  PROVE  PipelineInv' /\ Keeps
<1> DEFINE ck == Failed(run[w].ck, causes)
<1>1. run[w].ck \in Checkpoint /\ IsNext(w, run[w].ck)
  BY SlotFacts, OwnIsNext
<1>2. /\ ck \in Checkpoint /\ ck.stage = "failed"
      /\ ck.named = run[w].ck.named /\ ck.skipped = run[w].ck.skipped
  BY <1>1 DEF Failed, Checkpoint
<1>3. Attach(w, ck, "fail", 0)
  OBVIOUS
<1> HIDE DEF ck
<1>4. IsNext(w, ck)
  BY <1>1, <1>2 DEF IsNext
<1>5. ASSUME HoldsRow(w) PROVE IsPlaced(w)' /\ IsInOrder(w)'
  <2>1. PICK a \in Attempt : run'[w] = a /\ a.at = "fail"
    BY <1>2, <1>3, <1>5, GotoGives DEF Attach, PipelineInv, Places
  <2> QED
    BY <2>1 DEF IsPlaced, IsInOrder, Submits
<1> QED
  BY <1>2, <1>3, <1>4, <1>5, AttachOn DEF Works, Submits

(* A run waits with the checkpoint it has, under the name of a stage.      *)
LEMMA WaitStep ==
  ASSUME PipelineInv, NEW w \in Workers, run[w].at \in Works,
         NEW stage \in {"summarization", "digest"},
         Defer(w, [run[w].ck EXCEPT !.stage = stage]),
         UNCHANGED <<tolerant, gen, asked, resource, child, stalled, faults, requests>>
  PROVE  PipelineInv' /\ Keeps
<1> DEFINE ck == [run[w].ck EXCEPT !.stage = stage]
<1>1. run[w].ck \in Checkpoint /\ IsNext(w, run[w].ck)
  BY SlotFacts, OwnIsNext
<1>2. /\ ck \in Checkpoint /\ ck.stage = stage
      /\ ck.named = run[w].ck.named /\ ck.skipped = run[w].ck.skipped
  BY <1>1 DEF Checkpoint
<1>3. Defer(w, ck)
  OBVIOUS
<1> HIDE DEF ck
<1>4. IsNext(w, ck) /\ ck.stage # "completed"
  BY <1>1, <1>2 DEF IsNext
<1> QED
  BY <1>2, <1>3, <1>4, DeferStep

LEMMA JudgeStep ==
  ASSUME PipelineInv, NEW w \in Workers, Judge(w)
  PROVE  PipelineInv' /\ Keeps
<1> USE DEF PipelineInv
<1> DEFINE bad == {k \in Sources : run[w].seen[k] \in Bad}
<1> DEFINE ck == [run[w].ck EXCEPT !.retry = {}]
<1> DEFINE skip == [ck EXCEPT !.skipped = TRUE]
<1>1. /\ run[w].at = "judge" /\ run[w].at \in Works /\ IsKnown(w) /\ run[w].ck \in Checkpoint
      /\ \A k \in Sources : Knows(w, k)
      /\ run[w].ck.stage \notin {"none", "completed"}
      /\ UNCHANGED <<tolerant, gen, asked, resource, child, stalled, faults, requests>>
  BY SlotFacts DEF Judge, IsKnown, IsPlaced, CopyIsTrue, Works, Submits
<1>2. /\ ck \in Checkpoint /\ ck.named = run[w].ck.named /\ ck.skipped = run[w].ck.skipped
      /\ ck.stage = run[w].ck.stage
  BY <1>1 DEF Checkpoint
<1>3. /\ skip \in Checkpoint /\ skip.named = ck.named /\ skip.skipped = TRUE
      /\ skip.stage = ck.stage
  BY <1>2 DEF Checkpoint
<1>4. bad \in SUBSET Children
  BY ChildrenFacts
<1>5. \/ Defer(w, run[w].ck)
      \/ Attach(w, Failed(run[w].ck, bad), "fail", 0) /\ UNCHANGED status
      \/ ck.named[Summary] # 0 /\ Goto(w, ck, "summary", 0) /\ UNCHANGED <<status, stored>>
      \/ ck.skipped /\ Goto(w, ck, "resolve", 0) /\ UNCHANGED <<status, stored>>
      \/ ck.named[Summary] = 0 /\ Goto(w, ck, "lookup", Summary) /\ UNCHANGED <<status, stored>>
      \/ Attach(w, skip, "resolve", 0) /\ UNCHANGED status
  BY DEF Judge
<1> HIDE DEF bad, ck, skip
<1>6. CASE Defer(w, run[w].ck)
  BY <1>1, <1>6, OwnIsNext, DeferStep
<1>7. CASE Attach(w, Failed(run[w].ck, bad), "fail", 0) /\ UNCHANGED status
  BY <1>1, <1>4, <1>7, FailStep
<1>8. ASSUME NEW at \in {"summary", "resolve", "lookup"}, NEW kid \in {0, Summary},
             Goto(w, ck, at, kid), UNCHANGED <<status, stored>>,
             at = "summary" => ck.named[Summary] # 0, at = "resolve" => ck.skipped,
             at = "lookup" => kid = Summary /\ ck.named[Summary] = 0
      PROVE  PipelineInv' /\ Keeps
  <2>1. at \in Works \ {"insert", "record"} /\ at \in Places /\ kid \in {0} \cup Children
    BY ChildrenFacts DEF Works, Submits, Places
  <2>2. PICK a \in Attempt : run'[w] = a /\ a.at = at /\ a.ck = ck /\ a.kid = kid
    BY <1>2, <1>8, <2>1, GotoGives
  <2>3. IsPlaced(w)'
    BY <1>1, <1>2, <1>8, <2>2, ChildrenFacts DEF IsPlaced, Submits, Knows
  <2>4. IsInOrder(w)'
    BY <1>1, <1>2, <1>8, <2>2, ChildrenFacts
       DEF IsKnown, CopyIsTrue, IsInOrder, Summarized, Submits
  <2> QED
    BY <1>1, <1>2, <1>8, <2>1, <2>3, <2>4, ProceedStep
<1>9. CASE Attach(w, skip, "resolve", 0) /\ UNCHANGED status
  <2>1. IsNext(w, skip)
    BY <1>1, <1>2, <1>3, OwnIsNext DEF IsNext
  <2>2. ASSUME HoldsRow(w) PROVE IsPlaced(w)' /\ IsInOrder(w)'
    <3>1. PICK a \in Attempt : run'[w] = a /\ a.at = "resolve" /\ a.ck = skip
      BY <1>3, <1>9, <2>2, GotoGives DEF Attach, Places
    <3>2. stored' = skip
      BY <1>9, <2>2 DEF Attach
    <3> QED
      BY <1>1, <1>2, <1>3, <3>1, <3>2 DEF IsPlaced, IsInOrder, Summarized, Submits, Knows
  <2> QED
    BY <1>1, <1>2, <1>3, <1>9, <2>1, <2>2, AttachOn DEF Works, Submits
<1> QED
  BY <1>5, <1>6, <1>7, <1>8, <1>9

(* What a summary or a digest that is neither active nor bad has become.   *)
LEMMA EndedWell ==
  ASSUME PipelineInv, NEW k \in {Summary, Digest}, NEW n \in Rows,
         child[k][n] \notin {"absent", "active"} \cup Bad
  PROVE  child[k][n] = "completed"
<1>1. child[k][n] \in ChildStatus /\ child[k][n] \notin {"partial", "empty"}
  BY ChildrenFacts DEF PipelineInv, TypeOK, RowsAreInOrder
<1> QED
  BY <1>1 DEF ChildStatus, Good

LEMMA ReadSummaryStep ==
  ASSUME PipelineInv, NEW w \in Workers, ReadSummary(w)
  PROVE  PipelineInv' /\ Keeps
<1> USE DEF PipelineInv
<1> DEFINE s == child[Summary][run[w].ck.named[Summary]]
<1>1. /\ run[w].at = "summary" /\ run[w].at \in Works /\ IsKnown(w) /\ run[w].ck \in Checkpoint
      /\ \A k \in Sources : Knows(w, k)
      /\ run[w].ck.named[Summary] \in Rows /\ s # "absent"
      /\ UNCHANGED <<tolerant, gen, asked, resource, child, stalled, faults, requests>>
  <2>1. run[w].at = "summary" /\ IsKnown(w) /\ run[w].ck \in Checkpoint
        /\ run[w].ck.named \in [Children -> {0} \cup Rows]
    BY SlotFacts DEF ReadSummary
  <2>2. Knows(w, Summary) /\ \A k \in Sources : Knows(w, k)
    BY <2>1 DEF IsKnown, IsPlaced
  <2>3. run[w].ck.named[Summary] \in Rows /\ s # "absent"
    BY <2>1, <2>2, ChildrenFacts DEF IsKnown, CopyIsTrue, Knows
  <2> QED
    BY <2>1, <2>2, <2>3 DEF ReadSummary, Works
<1>2. CASE s = "active"
  <2>1. Defer(w, [run[w].ck EXCEPT !.stage = "summarization"])
    BY <1>2 DEF ReadSummary, Bad
  <2> QED
    BY <1>1, <2>1, WaitStep
<1>3. CASE s \in Bad
  <2>1. Attach(w, Failed(run[w].ck, {Summary}), "fail", 0) /\ UNCHANGED status
    BY <1>3 DEF ReadSummary, Bad
  <2> QED
    BY <1>1, <2>1, ChildrenFacts, FailStep
<1>4. CASE s \notin {"active"} \cup Bad
  <2>1. Goto(w, run[w].ck, "resolve", 0) /\ UNCHANGED <<status, stored>>
    BY <1>4 DEF ReadSummary
  <2>2. s = "completed"
    BY <1>1, <1>4, EndedWell
  <2>3. PICK a \in Attempt : run'[w] = a /\ a.at = "resolve" /\ a.ck = run[w].ck
    BY <1>1, <2>1, GotoGives DEF Places
  <2>4. IsPlaced(w)'
    BY <1>1, <2>3 DEF IsPlaced, Submits, Knows
  <2>5. IsInOrder(w)'
    BY <1>1, <2>1, <2>2 DEF IsInOrder, Summarized
  <2> QED
    BY <1>1, <2>1, <2>4, <2>5, ProceedStep DEF Works, Submits
<1> QED
  BY <1>2, <1>3, <1>4

LEMMA ResolveStep ==
  ASSUME PipelineInv, NEW w \in Workers, Resolve(w)
  PROVE  PipelineInv' /\ Keeps
<1> USE DEF PipelineInv
<1> DEFINE ck == [run[w].ck EXCEPT !.resolved = TRUE]
<1>1. /\ run[w].at = "resolve" /\ run[w].at \in Works /\ IsKnown(w) /\ run[w].ck \in Checkpoint
      /\ (\A k \in Sources : Knows(w, k)) /\ Summarized
      /\ run[w].ck.stage \notin {"none", "completed"}
      /\ UNCHANGED <<tolerant, status, gen, asked, resource, child, stalled, faults, requests>>
  BY SlotFacts DEF Resolve, IsKnown, IsPlaced, IsInOrder, CopyIsTrue, Works, Submits
<1>2. /\ ck \in Checkpoint /\ ck.named = run[w].ck.named /\ ck.skipped = run[w].ck.skipped
      /\ ck.stage = run[w].ck.stage
  BY <1>1 DEF Checkpoint
<1>3. CASE Attach(w, ck, "resolve", 0)
  <2> HIDE DEF ck
  <2>1. IsNext(w, ck)
    BY <1>1, <1>2, OwnIsNext DEF IsNext
  <2>2. ASSUME HoldsRow(w) PROVE IsPlaced(w)' /\ IsInOrder(w)'
    <3>1. PICK a \in Attempt : run'[w] = a /\ a.at = "resolve" /\ a.ck = ck
      BY <1>2, <1>3, <2>2, GotoGives DEF Attach, Places
    <3>2. stored' = ck /\ (stored.skipped => ck.skipped)
      BY <1>3, <2>1, <2>2 DEF Attach, IsNext
    <3> QED
      BY <1>1, <1>2, <3>1, <3>2 DEF IsPlaced, IsInOrder, Summarized, Submits, Knows
  <2> QED
    BY <1>1, <1>2, <1>3, <2>1, <2>2, AttachOn DEF Works, Submits
<1>4. ASSUME NEW at \in {"lookup", "digest"}, NEW kid \in {0, Digest},
             Goto(w, run[w].ck, at, kid), stored' = stored,
             at = "lookup" => kid = Digest /\ run[w].ck.named[Digest] = 0,
             at = "digest" => run[w].ck.named[Digest] # 0
      PROVE  PipelineInv' /\ Keeps
  <2>1. at \in Works \ {"insert", "record"} /\ at \in Places /\ kid \in {0} \cup Children
    BY ChildrenFacts DEF Works, Submits, Places
  <2>2. PICK a \in Attempt : run'[w] = a /\ a.at = at /\ a.ck = run[w].ck /\ a.kid = kid
    <3>1. Goto(w, run[w].ck, at, kid) /\ run[w].ck \in Checkpoint /\ TypeOK
      BY <1>1, <1>4
    <3> QED
      BY <2>1, <3>1, GotoGives
  <2>3. IsPlaced(w)'
    BY <1>1, <1>4, <2>2, ChildrenFacts DEF IsPlaced, Submits, Knows
  <2>4. IsInOrder(w)'
    BY <1>1, <1>4 DEF IsInOrder, Summarized
  <2> QED
    BY <1>1, <1>4, <2>1, <2>3, <2>4, ProceedStep
<1> QED
  BY <1>3, <1>4 DEF Resolve

(* Completing: result and resource, by a slot that has seen the digest.    *)
LEMMA CompletionStep ==
  ASSUME PipelineInv, NEW w \in Workers, run[w].at \in {"digest", "repair"},
         AttachCompletion(w, run[w].ck), IsCompletion(run[w].ck),
         UNCHANGED <<tolerant, gen, asked, child, stalled, faults, requests>>
  PROVE  PipelineInv' /\ Keeps
<1> DEFINE ck == [run[w].ck EXCEPT !.stage = "completed", !.retry = {}]
<1>1. Busy(w) /\ IsKnown(w) /\ run[w].ck \in Checkpoint
  BY SlotFacts DEF Busy
<1>2. /\ ck \in Checkpoint /\ ck.stage = "completed"
      /\ ck.named = run[w].ck.named /\ ck.skipped = run[w].ck.skipped
  BY <1>1 DEF Checkpoint
<1>3. Attach(w, ck, "finish", 0) /\ resource' = (resource \/ HoldsRow(w)) /\ status' = status
  BY DEF AttachCompletion
<1> HIDE DEF ck
<1>4. IsNext(w, ck) /\ IsCompletion(ck)
  BY <1>1, <1>2 DEF IsNext, IsCompletion, IsKnown, CopyIsTrue, CopyIsCurrent, Holder, Knows,
     Works, Submits
<1>5. ASSUME HoldsRow(w) PROVE IsPlaced(w)' /\ IsInOrder(w)'
  <2>1. PICK a \in Attempt : run'[w] = a /\ a.at = "finish"
    BY <1>2, <1>3, <1>5, GotoGives DEF Attach, PipelineInv, Places
  <2> QED
    BY <2>1 DEF IsPlaced, IsInOrder, Submits
<1>6. \A at : at = "finish" => resource' = (resource \/ (at = "finish" /\ HoldsRow(w)))
  BY <1>3
<1>7. PICK at \in Works \cup {"finish"} : at = "finish"
  OBVIOUS
<1>8. Attach(w, ck, at, 0) /\ at \notin {"insert", "record"} /\ (ck.stage = "completed" <=> at = "finish")
  BY <1>2, <1>3, <1>7
<1> QED
  BY <1>1, <1>2, <1>3, <1>4, <1>5, <1>6, <1>7, <1>8, AttachStep

LEMMA ReadDigestStep ==
  ASSUME PipelineInv, NEW w \in Workers, ReadDigest(w)
  PROVE  PipelineInv' /\ Keeps
<1> DEFINE s == child[Digest][run[w].ck.named[Digest]]
<1>1. /\ run[w].at = "digest" /\ run[w].at \in Works /\ IsKnown(w) /\ run[w].ck \in Checkpoint
      /\ run[w].ck.named[Digest] \in Rows /\ s # "absent"
      /\ UNCHANGED <<tolerant, gen, asked, child, stalled, faults, requests>>
  <2>1. run[w].at = "digest" /\ IsKnown(w) /\ run[w].ck \in Checkpoint
        /\ run[w].ck.named \in [Children -> {0} \cup Rows]
    BY SlotFacts DEF ReadDigest
  <2>2. Knows(w, Digest)
    BY <2>1 DEF IsKnown, IsPlaced
  <2>3. run[w].ck.named[Digest] \in Rows /\ s # "absent"
    BY <2>1, <2>2, ChildrenFacts DEF IsKnown, CopyIsTrue, Knows
  <2> QED
    BY <2>1, <2>3 DEF ReadDigest, Works
<1>2. CASE s = "active"
  <2>1. Defer(w, [run[w].ck EXCEPT !.stage = "digest"]) /\ resource' = resource
    BY <1>2 DEF ReadDigest, Bad
  <2> QED
    BY <1>1, <2>1, WaitStep
<1>3. CASE s \in Bad
  <2>1. Attach(w, Failed(run[w].ck, {Digest}), "fail", 0) /\ UNCHANGED <<status, resource>>
    BY <1>3 DEF ReadDigest, Bad
  <2> QED
    BY <1>1, <2>1, ChildrenFacts, FailStep
<1>4. CASE s \notin {"active"} \cup Bad
  <2>1. AttachCompletion(w, run[w].ck)
    BY <1>4 DEF ReadDigest
  <2>2. IsCompletion(run[w].ck)
    BY <1>1, <1>4, EndedWell, RowsFacts DEF IsCompletion
  <2> QED
    BY <1>1, <2>1, <2>2, CompletionStep
<1> QED
  BY <1>2, <1>3, <1>4

LEMMA RepairStep ==
  ASSUME PipelineInv, NEW w \in Workers, Repair(w)
  PROVE  PipelineInv' /\ Keeps
  BY CompletionStep DEF Repair, IsCompletion

LEMMA RaiseStep ==
  ASSUME PipelineInv, NEW w \in Workers, Raise(w) \/ Complete(w)
  PROVE  PipelineInv' /\ Keeps
<1>1. Busy(w)
  BY SlotFacts DEF Raise, Complete, Busy
<1>2. /\ Leave(w) /\ UNCHANGED <<tolerant, gen, asked, resource, stored, child, stalled, faults, requests>>
      /\ \/ status' = status
         \/ status' \in Bad
         \/ status' = "completed" /\ HoldsRow(w) /\ run[w].at = "finish"
  BY DEF Raise, Complete, End, Bad
<1> QED
  BY <1>1, <1>2, EndStep

(* A new row takes the place that its slot was counted for.                *)
LEMMA InsertStep ==
  ASSUME PipelineInv, NEW w \in Workers, Insert(w)
  PROVE  PipelineInv' /\ Keeps
<1> USE DEF PipelineInv
<1>1. /\ run[w].at = "insert" /\ Busy(w) /\ IsKnown(w) /\ run[w] \in Attempt
      /\ run[w].ck \in Checkpoint /\ run[w].kid \in Children
      /\ UNCHANGED <<tolerant, status, gen, asked, resource, stored, stalled, faults, requests>>
  BY SlotFacts DEF Insert, Busy, IsKnown, IsPlaced, Submits
<1>2. PICK k \in Children : k = run[w].kid
  BY <1>1
<1>3. CASE Active(k) # {}
  <2>1. Goto(w, run[w].ck, "locate", k) /\ child' = child
    BY <1>2, <1>3 DEF Insert
  <2>2. PICK a \in Attempt :
          run'[w] = a /\ a.gen = run[w].gen /\ a.at = "locate" /\ a.ck = run[w].ck /\ a.kid = k
    BY <1>1, <2>1, GotoGives DEF Places
  <2>3. IsPlaced(w)' /\ IsInOrder(w)'
    BY <1>1, <1>2, <2>1, <2>2 DEF IsKnown, IsPlaced, IsInOrder, Summarized, Submits, Knows
  <2> QED
    BY <1>1, <2>1, <2>3, ProceedStep DEF Works, Submits
<1>4. CASE Active(k) = {}
  <2> DEFINE c == Cardinality(Present(k))
  <2>1. c \in Nat /\ Present(k) = 1..c
    BY PresentFinite DEF RowsAreInOrder
  <2>2. IsFiniteSet(Inserting(k)) /\ w \in Inserting(k)
    BY <1>1, <1>2, PlanAssumption, FS_Subset DEF Inserting
  <2>3. Cardinality(Inserting(k)) \in Nat \ {0}
    BY <2>2, FS_CardinalityType, FS_EmptySet
  <2>4. c + 1 <= Cardinality(Workers)
    <3>1. CASE Present(k) = {}
      BY <3>1, RowsFacts, FS_EmptySet DEF Rows
    <3>2. CASE Present(k) # {}
      <4>1. c + Cardinality(Inserting(k)) <= Cardinality(Workers)
        BY <3>2 DEF RowsAreInOrder
      <4> QED
        BY <2>1, <2>3, <4>1, RowsFacts
    <3> QED
      BY <3>1, <3>2
  <2>5. PICK n \in Rows : n = c + 1 /\ n \notin Present(k) /\ Present(k) \cup {n} = 1..n
    BY <2>1, <2>4, RowsFacts DEF Rows
  <2> DEFINE a == [run[w] EXCEPT !.found = n, !.at = "record"]
  <2>6. child' = [child EXCEPT ![k][n] = "active"] /\ run' = [run EXCEPT ![w] = a]
    BY <1>2, <1>4, <2>5 DEF Insert
  <2>7. /\ a \in Attempt /\ a.gen = run[w].gen /\ a.ck = run[w].ck /\ a.kid = k
        /\ a.at = "record" /\ a.found = n
    BY <1>1, <1>2 DEF Attempt, Places
  <2> HIDE DEF a, c
  <2>8. run'[w] = a /\ \A v \in Workers \ {w} : run'[v] = run[v]
    BY <2>6 DEF TypeOK
  <2>9. /\ child' \in [Children -> [Rows -> ChildStatus]]
        /\ \A q \in Children, m \in Rows :
             child'[q][m] = IF q = k /\ m = n THEN "active" ELSE child[q][m]
    BY <2>6 DEF TypeOK, ChildStatus
  <2>10. child[k][n] = "absent"
    BY <2>5 DEF Present
  <2>11. ChildrenStay
    BY <2>9, <2>10 DEF ChildrenStay
  <2>12. IsPlaced(w)'
    BY <1>1, <1>2, <2>7, <2>8, <2>9 DEF IsKnown, IsPlaced, Submits, Knows
  <2>13. CopyIsTrue(w)'
    BY <1>1, <2>7, <2>8, <2>11, SlotFacts
       DEF IsKnown, CopyIsTrue, ChildrenStay, Knows, Works, Submits
  <2>14. Summarized => Summarized'
    BY <1>1, <2>11, ChildrenFacts DEF Summarized, ChildrenStay
  <2>15. IsInOrder(w)'
    BY <1>1, <1>2, <2>7, <2>8, <2>14 DEF IsKnown, IsInOrder, Submits
  <2>16. CopyIsCurrent(w)' /\ IsAlone(w)'
    BY <1>1, <2>7, <2>8 DEF IsKnown, CopyIsCurrent, IsAlone, Works, Submits, Holder, HoldsRow, Busy
  <2>17. IsKnown(w)'
    BY <2>12, <2>13, <2>15, <2>16 DEF IsKnown
  <2>18. run' \in [Workers -> Attempt] /\ SlotsAreKnown' /\ GensDiffer'
    BY <1>1, <2>6, <2>7, <2>11, <2>17, SlotStep
  <2>19. TypeOK'
    BY <1>1, <2>9, <2>18 DEF TypeOK
  <2>20. StoredIsTrue' /\ CompletionIsConsistent' /\ Keeps
    <3>1. stored.named \in [Children -> {0} \cup Rows]
      BY DEF TypeOK, Checkpoint
    <3> QED
      BY <1>1, <2>11, <3>1, ChildrenFacts
         DEF StoredIsTrue, CompletionIsConsistent, Keeps, ChildrenStay
  <2>21. Present(k)' = 1..n /\ \A q \in Children \ {k} : Present(q)' = Present(q)
    BY <2>5, <2>9 DEF Present
  <2>22. Cardinality(Present(k)') = n
    BY <2>21, FS_Interval DEF Rows
  <2>23. /\ Inserting(k)' = Inserting(k) \ {w}
         /\ \A q \in Children \ {k} : Inserting(q)' = Inserting(q)
    BY <1>1, <1>2, <2>7, <2>8 DEF Inserting
  <2>24. Cardinality(Inserting(k)') = Cardinality(Inserting(k)) - 1
    BY <2>2, <2>23, FS_RemoveElement
  <2>25. Cardinality(Inserting(k)) <= Cardinality(Workers)
    BY PlanAssumption, FS_Subset DEF Inserting
  <2>26. n + Cardinality(Inserting(k)') <= Cardinality(Workers)
    <3>1. CASE Present(k) = {}
      <4>1. n = 1
        BY <2>5, <3>1, FS_EmptySet DEF c
      <4> QED
        BY <2>3, <2>24, <2>25, <4>1, RowsFacts
    <3>2. CASE Present(k) # {}
      <4>1. c + Cardinality(Inserting(k)) <= Cardinality(Workers)
        BY <3>2 DEF RowsAreInOrder, c
      <4> QED
        BY <2>1, <2>3, <2>5, <2>24, <4>1, RowsFacts
    <3> QED
      BY <3>1, <3>2
  <2>27. RowsAreInOrder'
    <3> SUFFICES ASSUME NEW q \in Children
                 PROVE  /\ Present(q)' = 1..Cardinality(Present(q)')
                        /\ Present(q)' # {} =>
                             Cardinality(Present(q)') + Cardinality(Inserting(q)') <= Cardinality(Workers)
                        /\ q \notin Sources => \A m \in Rows : child'[q][m] \notin {"partial", "empty"}
      BY DEF RowsAreInOrder
    <3>1. q \notin Sources => \A m \in Rows : child'[q][m] \notin {"partial", "empty"}
      BY <2>9 DEF RowsAreInOrder
    <3>2. CASE q = k
      BY <2>21, <2>22, <2>26, <3>1, <3>2
    <3>3. CASE q # k
      BY <2>21, <2>23, <3>1, <3>3 DEF RowsAreInOrder
    <3> QED
      BY <3>2, <3>3
  <2>28. EachStageOnce'
    <3>1. ~stalled => n = 1
      BY <1>1, <1>2, <2>5, FS_EmptySet DEF IsKnown, IsAlone, c
    <3>2. \A q \in Children \ {k} : ~stalled => Cardinality(Present(q)') <= 1
      BY <2>21 DEF EachStageOnce
    <3> QED
      BY <1>1, <2>22, <3>1, <3>2 DEF EachStageOnce
  <2>29. DigestFollowsSummary'
    <3>1. k = Digest => Summarized
      BY <1>1, <1>2 DEF IsKnown, IsInOrder, Submits
    <3>2. Present(Digest) # {} => Summarized
      BY DEF DigestFollowsSummary, Summarized
    <3>3. k # Digest => Present(Digest)' = Present(Digest)
      BY <2>21, ChildrenFacts
    <3> QED
      BY <2>14, <3>1, <3>2, <3>3 DEF DigestFollowsSummary, Summarized
  <2> QED
    BY <2>18, <2>19, <2>20, <2>27, <2>28, <2>29
<1> QED
  BY <1>3, <1>4

LEMMA CrashStep ==
  ASSUME PipelineInv, NEW w \in Workers, Crash(w)
  PROVE  PipelineInv' /\ Keeps
<1> USE DEF PipelineInv
<1>1. Busy(w) /\ run' = [run EXCEPT ![w] = Idle] /\ IsKnown(w)'
      /\ UNCHANGED <<tolerant, status, gen, asked, resource, stored, child, stalled, requests>>
  BY SlotFacts, LeaveGives DEF Crash
<1>2. faults' \in 0..MaxFaults
  BY BoundsAssumption DEF Crash, TypeOK
<1>3. ChildrenStay
  BY <1>1 DEF ChildrenStay
<1>4. run' \in [Workers -> Attempt] /\ SlotsAreKnown' /\ GensDiffer'
  BY <1>1, <1>3, IdleTyped, SlotStep
<1>5. TypeOK'
  BY <1>1, <1>2, <1>4 DEF TypeOK
<1>6. \A k \in Children : Present(k)' = Present(k)
  BY <1>1 DEF Present
<1>7. StoredIsTrue' /\ CompletionIsConsistent' /\ EachStageOnce' /\ Keeps
  BY <1>1, <1>6 DEF StoredIsTrue, CompletionIsConsistent, EachStageOnce, Keeps
<1>8. DigestFollowsSummary'
  BY <1>1, <1>6, ChildrenFacts DEF DigestFollowsSummary
<1>9. RowsAreInOrder'
  <2> SUFFICES ASSUME NEW k \in Children, Present(k) # {}
               PROVE  Cardinality(Present(k)) + Cardinality(Inserting(k)') <= Cardinality(Workers)
    BY <1>1, <1>6 DEF RowsAreInOrder
  <2>1. run'[w] = Idle /\ \A v \in Workers \ {w} : run'[v] = run[v]
    BY <1>1 DEF TypeOK
  <2>2. Inserting(k)' \subseteq Inserting(k) /\ Inserting(k) \subseteq Workers
    BY <2>1, IdleTyped DEF Inserting
  <2>3. /\ IsFiniteSet(Inserting(k)) /\ IsFiniteSet(Inserting(k)')
        /\ Cardinality(Inserting(k)') <= Cardinality(Inserting(k))
    BY <2>2, PlanAssumption, FS_Subset
  <2>4. Cardinality(Inserting(k)) \in Nat /\ Cardinality(Inserting(k)') \in Nat
    BY <2>3, FS_CardinalityType
  <2>5. Cardinality(Present(k)) + Cardinality(Inserting(k)) <= Cardinality(Workers)
    BY DEF RowsAreInOrder
  <2> QED
    BY <2>3, <2>4, <2>5, PresentFinite, RowsFacts
<1> QED
  BY <1>4, <1>5, <1>7, <1>8, <1>9

-----------------------------------------------------------------------------
(* A claim's generation is nobody's, so nobody else holds the run.         *)
LEMMA ClaimStep ==
  ASSUME PipelineInv, NEW w \in Workers, Claim(w)
  PROVE  PipelineInv' /\ Keeps
<1> USE DEF PipelineInv
<1>1. PICK g \in 0..MaxGen :
        /\ IsNewGen(g) /\ gen' = g
        /\ run' = [run EXCEPT ![w] = [Idle EXCEPT !.at = "begin", !.gen = g]]
  BY DEF Claim
<1> DEFINE a == [Idle EXCEPT !.at = "begin", !.gen = g]
<1>2. /\ status = "queued" /\ status' = "in_progress" /\ run[w] = Idle
      /\ UNCHANGED <<tolerant, asked, resource, stored, child, stalled, faults, requests>>
  BY DEF Claim
<1>3. a \in Attempt /\ a.at = "begin" /\ a.gen = g /\ a.ck = NoCheckpoint
  BY IdleTyped DEF Attempt, Places
<1>4. run' = [run EXCEPT ![w] = a]
  BY <1>1
<1> HIDE DEF a
<1>5. run' \in [Workers -> Attempt] /\ run'[w] = a /\ \A v \in Workers \ {w} : run'[v] = run[v]
  BY <1>3, <1>4 DEF TypeOK
<1>6. \A v \in Workers : run[v].gen # g
  BY <1>1 DEF IsNewGen
<1>7. GensDiffer'
  BY <1>3, <1>5, <1>6 DEF GensDiffer, Busy
<1>8. ChildrenStay
  BY <1>2 DEF ChildrenStay
<1>9. IsKnown(w)'
  BY <1>1, <1>2, <1>3, <1>5, IdleTyped
     DEF IsKnown, IsPlaced, CopyIsTrue, IsInOrder, CopyIsCurrent, IsAlone, Knows,
         Works, Submits, HoldsRow, Busy
<1>10. ASSUME NEW v \in Workers \ {w} PROVE IsKnown(v)'
  <2>1. IsKnown(v) /\ run'[v] = run[v]
    BY <1>5 DEF SlotsAreKnown
  <2>2. ~Holder(v)'
    BY <1>1, <1>6, <2>1 DEF Holder, HoldsRow
  <2>3. ~stalled => ~Busy(v)
    BY <1>2, <2>1 DEF IsKnown, IsAlone, HoldsRow
  <2> QED
    BY <1>2, <1>8, <2>1, <2>2, <2>3, KnownIsKept
<1>11. SlotsAreKnown'
  BY <1>9, <1>10 DEF SlotsAreKnown
<1>12. TypeOK'
  BY <1>1, <1>2, <1>5 DEF TypeOK
<1>13. \A k \in Children : Present(k)' = Present(k) /\ Inserting(k)' = Inserting(k)
  BY <1>2, <1>3, <1>5, IdleTyped DEF Present, Inserting
<1>14. RowsAreInOrder' /\ EachStageOnce'
  BY <1>2, <1>13 DEF RowsAreInOrder, EachStageOnce
<1>15. DigestFollowsSummary'
  BY <1>2, <1>13, ChildrenFacts DEF DigestFollowsSummary
<1>16. StoredIsTrue' /\ CompletionIsConsistent' /\ Keeps
  BY <1>2 DEF StoredIsTrue, CompletionIsConsistent, Keeps
<1> QED
  BY <1>7, <1>11, <1>12, <1>14, <1>15, <1>16

-----------------------------------------------------------------------------
(* The surroundings.                                                       *)

(* Nobody but a slot claims the run or adds a row of a child.              *)
LEMMA OutsideStep ==
  ASSUME PipelineInv, TypeOK', UNCHANGED <<gen, stored, run>>,
         status' = "in_progress" => status = "in_progress" /\ resource' = resource,
         status' = "completed" => status = "completed" /\ resource' = resource,
         resource' => resource, stalled => stalled',
         \A k \in Children, n \in Rows :
           /\ child'[k][n] = "absent" <=> child[k][n] = "absent"
           /\ child[k][n] = "completed" => child'[k][n] = "completed"
           /\ k \notin Sources => child'[k][n] \notin {"partial", "empty"},
         \A w \in Workers : ~stalled' /\ Busy(w) => ~stalled /\ status' = status
  PROVE  PipelineInv' /\ Keeps
<1> USE DEF PipelineInv
<1>1. ChildrenStay
  BY DEF ChildrenStay
<1>2. \A k \in Children : Present(k)' = Present(k) /\ Inserting(k)' = Inserting(k)
  BY DEF Present, Inserting
<1>3. ASSUME NEW v \in Workers PROVE IsKnown(v)'
  <2>1. IsKnown(v)
    BY DEF SlotsAreKnown
  <2>2. Holder(v)' => Holder(v) /\ stored' = stored /\ (resource => resource')
    BY DEF Holder, HoldsRow, Busy
  <2>3. ASSUME ~stalled', Busy(v)
        PROVE  HoldsRow(v)' /\ (run[v].at = "insert" => Present(run[v].kid)' = {})
    <3>1. HoldsRow(v) /\ (run[v].at = "insert" => Present(run[v].kid) = {}) /\ status' = status
      BY <2>1, <2>3 DEF IsKnown, IsAlone
    <3>2. run[v].at = "insert" => run[v].kid \in Children
      BY <2>1 DEF IsKnown, IsPlaced, Submits
    <3> QED
      BY <1>2, <3>1, <3>2 DEF HoldsRow
  <2> QED
    BY <1>1, <2>1, <2>2, <2>3, KnownIsKept
<1>4. SlotsAreKnown' /\ GensDiffer'
  BY <1>3 DEF SlotsAreKnown, GensDiffer, Busy
<1>5. stored.named \in [Children -> {0} \cup Rows]
  BY DEF TypeOK, Checkpoint
<1>6. StoredIsTrue'
  BY <1>1, <1>5 DEF StoredIsTrue, ChildrenStay
<1>7. CompletionIsConsistent' /\ Keeps
  BY <1>1, <1>5, ChildrenFacts DEF CompletionIsConsistent, ChildrenStay, Keeps
<1>8. RowsAreInOrder'
  BY <1>2 DEF RowsAreInOrder
<1>9. EachStageOnce'
  BY <1>2 DEF EachStageOnce
<1>10. DigestFollowsSummary'
  BY <1>1, <1>2, ChildrenFacts DEF DigestFollowsSummary, ChildrenStay
<1> QED
  BY <1>4, <1>6, <1>7, <1>8, <1>9, <1>10

LEMMA CancelStep == ASSUME PipelineInv, Cancel PROVE PipelineInv' /\ Keeps
<1> USE DEF PipelineInv
<1>1. requests' \in 0..MaxRequests
  BY BoundsAssumption DEF Cancel, TypeOK
<1>2. TypeOK'
  BY <1>1 DEF Cancel, TypeOK, Bad
<1>3. \A w \in Workers : ~stalled /\ Busy(w) => status = "in_progress"
  BY DEF SlotsAreKnown, IsKnown, IsAlone, HoldsRow
<1> QED
  BY <1>2, <1>3, OutsideStep DEF Cancel, RowsAreInOrder

LEMMA SweepStep == ASSUME PipelineInv, Sweep PROVE PipelineInv' /\ Keeps
<1> USE DEF PipelineInv
<1> DEFINE attended == \E w \in Workers : run[w] # Idle /\ HoldsRow(w)
<1>1. faults' \in 0..MaxFaults /\ stalled' \in BOOLEAN /\ (attended => stalled')
      /\ (stalled => stalled')
  <2>1. /\ attended => faults < MaxFaults
        /\ faults' = IF attended THEN faults + 1 ELSE faults
        /\ stalled' = (stalled \/ attended)
    BY DEF Sweep
  <2>2. faults \in 0..MaxFaults /\ stalled \in BOOLEAN
    BY DEF TypeOK
  <2> HIDE DEF attended
  <2>3. faults' \in 0..MaxFaults
    BY <2>1, <2>2, BoundsAssumption
  <2> QED
    BY <2>1, <2>3
<1>2. TypeOK'
  BY <1>1 DEF Sweep, TypeOK, Bad
<1>3. \A w \in Workers : ~stalled /\ Busy(w) => attended
  BY SlotFacts DEF IsKnown, IsAlone
<1> HIDE DEF attended
<1> QED
  BY <1>1, <1>2, <1>3, OutsideStep DEF Sweep, RowsAreInOrder

(* A client's retry makes a failed row of a child active again.            *)
LEMMA RetryStep == ASSUME PipelineInv, Retry PROVE PipelineInv' /\ Keeps
<1> USE DEF PipelineInv
<1> DEFINE again == {k \in stored.retry : stored.named[k] # 0
                                          /\ child[k][stored.named[k]] \in Bad}
<1>1. child \in [Children -> [Rows -> ChildStatus]] /\ stored \in Checkpoint
  BY DEF TypeOK
<1>2. stored.named \in [Children -> {0} \cup Rows] /\ again \subseteq Children
  BY <1>1 DEF Checkpoint
<1>3. child' = [k \in Children |->
        IF k \in again THEN [child[k] EXCEPT ![stored.named[k]] = "active"] ELSE child[k]]
  BY DEF Retry
<1>4. \A k \in again : child[k][stored.named[k]] \in Bad
  OBVIOUS
<1> HIDE DEF again
<1>5. child' \in [Children -> [Rows -> ChildStatus]]
  BY <1>1, <1>3 DEF ChildStatus
<1>6. \A k \in Children, n \in Rows :
        \/ child'[k][n] = child[k][n]
        \/ child[k][n] \in Bad /\ child'[k][n] = "active"
  BY <1>1, <1>2, <1>3, <1>4
<1>7. requests' \in 0..MaxRequests
  BY BoundsAssumption DEF Retry, TypeOK
<1>8. TypeOK'
  BY <1>5, <1>7 DEF Retry, TypeOK
<1>9. \A w \in Workers : ~(~stalled /\ Busy(w))
  BY DEF SlotsAreKnown, IsKnown, IsAlone, HoldsRow, Retry
<1>10. \A k \in Children, n \in Rows :
         /\ child'[k][n] = "absent" <=> child[k][n] = "absent"
         /\ child[k][n] = "completed" => child'[k][n] = "completed"
         /\ k \notin Sources => child'[k][n] \notin {"partial", "empty"}
  BY <1>6 DEF RowsAreInOrder, Bad
<1> QED
  BY <1>8, <1>9, <1>10, OutsideStep DEF Retry

(* A child is retried, or ends in a way that it may.                       *)
LEMMA ChildStep ==
  ASSUME PipelineInv, NEW k \in Children, NEW n \in Rows,
         RetryChild(k, n) \/ \E s \in Good \cup Bad : ChildEnds(k, n, s)
  PROVE  PipelineInv' /\ Keeps
<1> USE DEF PipelineInv
<1>1. child \in [Children -> [Rows -> ChildStatus]]
  BY DEF TypeOK
<1>2. PICK s \in ChildStatus \ {"absent"} :
        /\ child' = [child EXCEPT ![k][n] = s]
        /\ child[k][n] \in {"active", "failed"}
        /\ k \notin Sources => s \notin {"partial", "empty"}
  <2>1. CASE RetryChild(k, n)
    <3>1. "active" \in ChildStatus \ {"absent"}
      BY DEF ChildStatus
    <3>2. child' = [child EXCEPT ![k][n] = "active"] /\ child[k][n] = "failed"
      BY <2>1 DEF RetryChild
    <3> QED
      BY <3>1, <3>2, Zenon
  <2>2. ASSUME NEW s \in Good \cup Bad, ChildEnds(k, n, s)
        PROVE  /\ s \in ChildStatus \ {"absent"}
               /\ child' = [child EXCEPT ![k][n] = s] /\ child[k][n] = "active"
               /\ k \notin Sources => s \notin {"partial", "empty"}
    <3>1. k \notin Sources => s \in {"completed"} \cup Bad
      BY <2>2, EndsAssumption, ChildrenFacts DEF ChildEnds
    <3> QED
      BY <2>2, <3>1 DEF ChildEnds, ChildStatus, Good, Bad
  <2> QED
    BY <2>1, <2>2
<1>3. child' \in [Children -> [Rows -> ChildStatus]]
      /\ \A q \in Children, m \in Rows :
           child'[q][m] = IF q = k /\ m = n THEN s ELSE child[q][m]
  BY <1>1, <1>2
<1>4. /\ UNCHANGED <<tolerant, status, gen, asked, resource, stored, run, stalled, faults>>
      /\ requests' \in 0..MaxRequests
  BY BoundsAssumption DEF RetryChild, ChildEnds, TypeOK
<1>5. TypeOK'
  BY <1>3, <1>4 DEF TypeOK
<1>6. \A q \in Children, m \in Rows :
        /\ child'[q][m] = "absent" <=> child[q][m] = "absent"
        /\ child[q][m] = "completed" => child'[q][m] = "completed"
        /\ q \notin Sources => child'[q][m] \notin {"partial", "empty"}
  BY <1>2, <1>3 DEF RowsAreInOrder
<1> QED
  BY <1>4, <1>5, <1>6, OutsideStep

-----------------------------------------------------------------------------
LEMMA NextPipeline ==
  ASSUME PipelineInv, Next
  PROVE  PipelineInv' /\ Keeps
<1>1. ASSUME NEW w \in Workers, Step(w) PROVE PipelineInv' /\ Keeps
  BY <1>1, BeginStep, LoadStep, StartStep, LookupStep, InsertStep, LocateStep, RecordStep,
     ReadSourceStep, JudgeStep, ReadSummaryStep, ResolveStep, ReadDigestStep, RepairStep,
     RaiseStep DEF Step
<1> QED
  BY <1>1, CancelStep, RetryStep, SweepStep, ChildStep, ClaimStep, CrashStep DEF Next

LEMMA StutterPipeline ==
  ASSUME PipelineInv, UNCHANGED vars
  PROVE  PipelineInv'
<1> USE DEF PipelineInv
<1>1. TypeOK' /\ status' = status /\ resource' = resource /\ stalled' = stalled /\ child' = child
      /\ UNCHANGED <<gen, stored, run>>
  BY DEF vars, TypeOK
<1> QED
  BY <1>1, OutsideStep DEF RowsAreInOrder

LEMMA PipelineInvariance == Spec => []PipelineInv
<1>1. PipelineInv /\ [Next]_vars => PipelineInv'
  BY NextPipeline, StutterPipeline
<1> QED
  BY <1>1, InitPipeline, PTL DEF Spec

(* The run, its checkpoint and its children are typed; in particular there *)
(* is a row for every child that a slot ever inserts.                      *)
THEOREM PipelineTypeCorrect == Spec => []TypeOK
<1>1. PipelineInv => TypeOK
  BY DEF PipelineInv
<1> QED
  BY <1>1, PipelineInvariance, PTL

(* Unless an attempt outlived its claim, no retry and no crash between a   *)
(* submission and its checkpoint starts a stage twice.                     *)
THEOREM StagesAreStartedOnce == Spec => []EachStageOnce
<1>1. PipelineInv => EachStageOnce
  BY DEF PipelineInv
<1> QED
  BY <1>1, PipelineInvariance, PTL

(* A digest exists only when a summarization has completed or was skipped, *)
(* even one that was submitted by an attempt that had lost the run.        *)
THEOREM DigestsFollowSummaries == Spec => []DigestFollowsSummary
<1>1. PipelineInv => DigestFollowsSummary
  BY DEF PipelineInv
<1> QED
  BY <1>1, PipelineInvariance, PTL

(* A run is completed, or can be by a retry, only with a completed digest. *)
THEOREM CompletionsAreConsistent == Spec => []CompletionIsConsistent
<1>1. PipelineInv => CompletionIsConsistent
  BY DEF PipelineInv
<1> QED
  BY <1>1, PipelineInvariance, PTL

(* No step, of whichever attempt, takes a child or the completion out of   *)
(* the checkpoint.                                                         *)
THEOREM CheckpointsGrow == Spec => CheckpointKeepsChildren
<1>1. PipelineInv /\ [Next]_vars =>
        [/\ \A k \in Children :
              stored.named[k] # 0 => stored'.named[k] = stored.named[k]
         /\ stored.stage = "completed" => stored'.stage = "completed"]_vars
  BY NextPipeline DEF Keeps
<1> QED
  BY <1>1, PipelineInvariance, PTL DEF Spec, CheckpointKeepsChildren

=============================================================================
