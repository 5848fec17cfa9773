------------------------- MODULE OperationGraphProofs -------------------------
(***************************************************************************)
(* Proofs about OperationGraph, for every set of batches, items, worker    *)
(* slots and readers, and for every number of faults and generations.      *)
(***************************************************************************)
EXTENDS OperationGraph, FiniteSetTheorems, TLAPS

-----------------------------------------------------------------------------
(* Facts about the constants.                                              *)

LEMMA ParentFacts ==
  /\ Roots \cap Items = {}
  /\ \A r \in Roots : Kids[r] \subseteq Items
  /\ \A r \in Roots : \A c \in Kids[r] : Parent(c) = r
  /\ \A c \in Items : Parent(c) \in Roots /\ c \in Kids[Parent(c)]
  /\ None \notin Jobs
<1>1. \A r \in Roots : \A c \in Kids[r] : Parent(c) = r
  BY GraphAssumption DEF Parent
<1>2. \A c \in Items : \E r \in Roots : c \in Kids[r]
  BY DEF Items
<1> QED
  BY <1>1, <1>2, GraphAssumption DEF Items, Jobs

LEMMA CountFacts ==
  ASSUME NEW r \in Roots, NEW S \in SUBSET Kids[r]
  PROVE  /\ IsFiniteSet(S) /\ Cardinality(S) \in Nat
         /\ Cardinality(S) = 0 => S = {}
         /\ \A T \in SUBSET S : Cardinality(T) <= Cardinality(S)
         /\ \A T \in SUBSET S : \A c \in S \ T : Cardinality(T) < Cardinality(S)
<1>1. IsFiniteSet(S)
  BY GraphAssumption, FS_Subset
<1>2. \A T \in SUBSET S : Cardinality(T) <= Cardinality(S)
  BY <1>1, FS_Subset
<1>3. ASSUME NEW T \in SUBSET S, NEW c \in S \ T
      PROVE  Cardinality(T) < Cardinality(S)
  <2>1. IsFiniteSet(T) /\ Cardinality(T) <= Cardinality(S) /\ (Cardinality(S) = Cardinality(T) => S = T)
    BY <1>1, FS_Subset
  <2>2. Cardinality(T) \in Nat /\ Cardinality(S) \in Nat
    BY <1>1, <2>1, FS_CardinalityType
  <2> QED
    BY <2>1, <2>2
<1> QED
  BY <1>1, <1>2, <1>3, FS_EmptySet, FS_CardinalityType

(* A handler that goes on keeps the shape of what it has in hand, with what *)
(* it has counted or read.                                                 *)
LEMMA AttemptCounts ==
  ASSUME NEW a \in Attempt, NEW p \in Places, NEW n \in Nat
  PROVE  [a EXCEPT !.at = p, !.missing = n] \in Attempt
BY DEF Attempt

LEMMA AttemptReads ==
  ASSUME NEW a \in Attempt, NEW p \in Places, NEW k \in 0..MaxGen, NEW n \in Nat
  PROVE  [a EXCEPT !.at = p, !.token = k, !.missing = n] \in Attempt
BY DEF Attempt

-----------------------------------------------------------------------------
(* The inductive invariant of a batch, its items, and whoever refers to    *)
(* them.                                                                   *)

ItemPlaces == {"work", "count", "own", "write", "commit"}
RootPlaces == {"load", "dispatch", "lookup", "defer", "check", "attach", "finish"}

(* An item's handler works on an item and a run's handler on a batch that  *)
(* is canonical, or was: while a slot refers to a batch its identity is    *)
(* not used again.                                                         *)
IsPlaced(w) ==
  /\ run[w].at = "idle" => run[w].job = None
  /\ run[w].at \in ItemPlaces => run[w].job \in Items
  /\ run[w].at \in RootPlaces => run[w].job \in Roots
  /\ run[w].at \in RootPlaces \ {"load"} => kind[run[w].job] \in {"canonical", "none"}
  /\ run[w].at \in {"dispatch", "lookup", "check"} => run[w].left \subseteq Kids[run[w].job]
  /\ run[w].at = "lookup" => run[w].found \in Kids[run[w].job]

(* Readers compute the aggregates of legacy batches only.                  *)
IsRead(v) ==
  /\ reader[v].root = None => reader[v] = NoAggregate
  /\ reader[v].root # None => kind[reader[v].root] \in {"legacy", "none"}

(* A batch has a kind while it has a row, and only a canonical one has a   *)
(* result.                                                                 *)
KindFits(r) ==
  /\ kind[r] = "none" <=> status[r] = "absent"
  /\ r \in checkpoint \cup attached => kind[r] = "canonical"

GraphInv ==
  /\ TypeOK
  /\ \A w \in Workers : IsPlaced(w)
  /\ \A v \in Readers : IsRead(v)
  /\ \A r \in Roots : KindFits(r)
  /\ ItemsHaveBatches

-----------------------------------------------------------------------------
(* It holds in every reachable state.                                      *)

LEMMA InitGraph == Init => GraphInv
<1> SUFFICES ASSUME Init PROVE GraphInv
  OBVIOUS
<1>1. TypeOK
  BY GraphBounds DEF Init, TypeOK, Status, Attempt, Idle, Places, NoAggregate
<1>2. \A w \in Workers : IsPlaced(w)
  BY DEF Init, IsPlaced, Idle, ItemPlaces, RootPlaces
<1>3. \A v \in Readers : IsRead(v)
  BY DEF Init, IsRead, NoAggregate
<1>4. (\A r \in Roots : KindFits(r)) /\ ItemsHaveBatches
  BY ParentFacts DEF Init, KindFits, ItemsHaveBatches, Present, Jobs
<1> QED
  BY <1>1, <1>2, <1>3, <1>4 DEF GraphInv

LEMMA MissingFits == \A r \in Roots : Missing(r) \in Nat
<1>1. SUFFICES ASSUME NEW r \in Roots PROVE Missing(r) \in Nat
  OBVIOUS
<1> DEFINE S == {c \in Present(r) : status[c] \notin Terminal}
<1>2. S \in SUBSET Kids[r]
  BY DEF Present
<1>3. Cardinality(S) \in Nat
  BY <1>2, CountFacts
<1> QED
  BY <1>3 DEF Missing

(* What nobody's slot or reader is doing stays as it was: a batch that is  *)
(* referred to is only ever removed.                                       *)
LEMMA OthersStayPlaced ==
  ASSUME GraphInv,
         \A r \in Roots : kind'[r] \in {kind[r], "none"} \/ IsUnused(r)
  PROVE  /\ \A w \in Workers : run'[w] = run[w] => IsPlaced(w)'
         /\ \A v \in Readers : reader'[v] = reader[v] => IsRead(v)'
<1>1. ASSUME NEW w \in Workers, run'[w] = run[w]
      PROVE  IsPlaced(w)'
  <2>1. IsPlaced(w)
    BY DEF GraphInv
  <2>2. run[w].job \in Roots => kind'[run[w].job] \in {kind[run[w].job], "none"}
    BY DEF IsUnused
  <2> QED
    BY <1>1, <2>1, <2>2 DEF IsPlaced, RootPlaces
<1>2. ASSUME NEW v \in Readers, reader'[v] = reader[v]
      PROVE  IsRead(v)'
  <2>1. IsRead(v) /\ reader[v].root \in Roots \cup {None}
    BY DEF GraphInv, TypeOK
  <2>2. reader[v].root \in Roots => kind'[reader[v].root] \in {kind[reader[v].root], "none"}
    BY DEF IsUnused
  <2> QED
    BY <1>2, <2>1, <2>2 DEF IsRead
<1> QED
  BY <1>1, <1>2

(* A row that is there gets another status.                                *)
LEMMA RowsGoOn ==
  ASSUME GraphInv, NEW j \in Jobs, NEW s \in Status \ {"absent"}, status[j] # "absent",
         SetStatus(j, s), kind' = kind
  PROVE  /\ status' \in [Jobs -> Status]
         /\ \A r \in Roots : status'[r] = "absent" <=> status[r] = "absent"
         /\ ItemsHaveBatches'
<1>1. status \in [Jobs -> Status]
  BY DEF GraphInv, TypeOK
<1>2. \A k \in Jobs : status'[k] = "absent" <=> status[k] = "absent"
  BY <1>1 DEF SetStatus
<1>3. ItemsHaveBatches'
  BY <1>2, ParentFacts DEF GraphInv, ItemsHaveBatches, Present, Jobs
<1> QED
  BY <1>1, <1>2, <1>3 DEF SetStatus, Jobs

LEMMA KindsGoOn ==
  ASSUME GraphInv, kind' = kind,
         \A r \in Roots : status'[r] = "absent" <=> status[r] = "absent",
         \A r \in Roots : r \in checkpoint' \cup attached' =>
                            r \in checkpoint \cup attached \/ kind[r] = "canonical"
  PROVE  \A r \in Roots : KindFits(r)'
BY DEF GraphInv, KindFits

LEMMA ClientsKeepGraph ==
  ASSUME GraphInv
  PROVE  /\ \A r \in Roots : SubmitRun(r) => GraphInv'
         /\ \A r \in Roots, kids \in SUBSET Items : SubmitBatch(r, kids) => GraphInv'
         /\ \A j \in Jobs : Cancel(j) \/ Retry(j) \/ Sweep(j) => GraphInv'
<1> USE ParentFacts
<1>1. ASSUME NEW r \in Roots, SubmitRun(r) PROVE GraphInv'
  <2>1. TypeOK'
    BY <1>1 DEF GraphInv, TypeOK, SubmitRun, SetStatus, Status, Active, Jobs
  <2>2. (\A q \in Roots : KindFits(q)') /\ ItemsHaveBatches'
    <3>1. r \notin checkpoint \cup attached /\ status[r] = "absent"
      BY <1>1 DEF GraphInv, KindFits, SubmitRun, IsUnused
    <3>2. \A q \in Roots : KindFits(q)'
      BY <1>1, <3>1 DEF GraphInv, TypeOK, KindFits, SubmitRun, SetStatus, Jobs
    <3> QED
      BY <1>1, <3>2 DEF GraphInv, TypeOK, SubmitRun, SetStatus, Jobs, ItemsHaveBatches, Present
  <2>3. \A q \in Roots : kind'[q] \in {kind[q], "none"} \/ IsUnused(q)
    BY <1>1 DEF SubmitRun, GraphInv, TypeOK
  <2> QED
    BY <1>1, <2>1, <2>2, <2>3, OthersStayPlaced DEF GraphInv, SubmitRun
<1>2. ASSUME NEW r \in Roots, NEW kids \in SUBSET Items, SubmitBatch(r, kids) PROVE GraphInv'
  <2>1. TypeOK'
    BY <1>2 DEF GraphInv, TypeOK, SubmitBatch, Status, Active, Terminal, Jobs
  <2>2. \A q \in Roots : status'[q] = IF q = r THEN IF kids = {} THEN "completed" ELSE "in_progress"
                                      ELSE status[q]
    BY <1>2 DEF SubmitBatch, Jobs
  <2>3. \A q \in Roots : KindFits(q)'
    BY <1>2, <2>2 DEF GraphInv, TypeOK, KindFits, SubmitBatch, IsUnused
  <2>4. \A q \in Roots \ {r} : \A c \in Kids[q] : status'[c] = status[c]
    BY <1>2, GraphAssumption DEF SubmitBatch, Jobs
  <2>5. ItemsHaveBatches'
    BY <2>2, <2>4 DEF GraphInv, ItemsHaveBatches, Present
  <2>6. \A q \in Roots : kind'[q] \in {kind[q], "none"} \/ IsUnused(q)
    BY <1>2 DEF SubmitBatch, GraphInv, TypeOK
  <2> QED
    BY <1>2, <2>1, <2>3, <2>5, <2>6, OthersStayPlaced DEF GraphInv, SubmitBatch
<1>3. ASSUME NEW j \in Jobs, Cancel(j) \/ Retry(j) \/ Sweep(j) PROVE GraphInv'
  <2>1. PICK s \in Status \ {"absent"} : SetStatus(j, s)
    BY <1>3 DEF Cancel, Retry, Sweep, End, Status, Active, Terminal
  <2>2. /\ status[j] # "absent" /\ kind' = kind /\ run' = run /\ reader' = reader
        /\ checkpoint' \subseteq checkpoint /\ attached' \subseteq attached
    BY <1>3 DEF Cancel, Retry, Sweep
  <2>3. ended' \subseteq Items /\ faults' \in 0..MaxFaults /\ old' \subseteq Jobs /\ gen' = gen
        /\ deferred' = deferred /\ chosen' = chosen
    BY <1>3, GraphBounds DEF Cancel, Retry, Sweep, End, GraphInv, TypeOK, Jobs
  <2>4. TypeOK'
    BY <2>1, <2>2, <2>3, RowsGoOn DEF GraphInv, TypeOK
  <2>5. (\A q \in Roots : KindFits(q)') /\ ItemsHaveBatches'
    BY <2>1, <2>2, RowsGoOn, KindsGoOn
  <2> QED
    BY <2>2, <2>4, <2>5, OthersStayPlaced DEF GraphInv
<1> QED
  BY <1>1, <1>2, <1>3

LEMMA AttemptsKeepGraph ==
  ASSUME GraphInv, NEW w \in Workers
  PROVE  /\ \A j \in Jobs : Claim(w, j) => GraphInv'
         /\ Raise(w) \/ Complete(w) \/ Crash(w) => GraphInv'
<1> USE ParentFacts
<1>0. Idle \in Attempt /\ IsPlaced(w)
  BY GraphBounds DEF Idle, Attempt, Places, GraphInv
<1>1. ASSUME NEW j \in Jobs, Claim(w, j) PROVE GraphInv'
  <2>1. /\ SetStatus(j, "in_progress") /\ status[j] # "absent"
        /\ UNCHANGED <<kind, checkpoint, attached, deferred, old, reader, chosen, ended, faults>>
    BY <1>1 DEF Claim
  <2>2. PICK g \in 0..MaxGen :
           /\ gen' = [gen EXCEPT ![j] = g]
           /\ run' = [run EXCEPT ![w] = [Idle EXCEPT !.job = j, !.gen = g,
                        !.at = IF j \in Items THEN "work" ELSE "load"]]
    BY <1>1 DEF Claim
  <2>3. TypeOK'
    <3>1. status' \in [Jobs -> Status]
      BY <2>1, RowsGoOn DEF Status, Active
    <3>2. gen' \in [Jobs -> 0..MaxGen]
      BY <2>2 DEF GraphInv, TypeOK
    <3>3. run' \in [Workers -> Attempt]
      BY <2>2, <1>0 DEF GraphInv, TypeOK, Attempt, Places
    <3> QED
      BY <2>1, <3>1, <3>2, <3>3 DEF GraphInv, TypeOK
  <2>4. (\A q \in Roots : KindFits(q)') /\ ItemsHaveBatches'
    BY <2>1, RowsGoOn, KindsGoOn DEF Status, Active
  <2>5. IsPlaced(w)'
    BY <2>2 DEF GraphInv, TypeOK, IsPlaced, ItemPlaces, RootPlaces, Jobs, Idle
  <2>6. \A v \in Workers \ {w} : run'[v] = run[v]
    BY <2>2 DEF GraphInv, TypeOK
  <2>7. \A v \in Workers \ {w} : IsPlaced(v)'
    BY <2>1, <2>6, OthersStayPlaced DEF GraphInv, TypeOK
  <2>8. \A v \in Readers : IsRead(v)'
    BY <2>1, OthersStayPlaced DEF GraphInv, TypeOK
  <2> QED
    BY <2>3, <2>4, <2>5, <2>7, <2>8 DEF GraphInv
<1>2. ASSUME Raise(w) \/ Complete(w) \/ Crash(w) PROVE GraphInv'
  <2>1. /\ UNCHANGED <<kind, gen, checkpoint, attached, deferred, old, reader, chosen>>
        /\ Leave(w)
    BY <1>2 DEF Raise, Complete, Crash, rows
  <2>2. /\ status' \in [Jobs -> Status] /\ ItemsHaveBatches'
        /\ \A r \in Roots : status'[r] = "absent" <=> status[r] = "absent"
        /\ ended' \subseteq Items
    <3>1. CASE UNCHANGED <<status, ended>>
      BY <3>1, <2>1 DEF GraphInv, TypeOK, ItemsHaveBatches, Present
    <3>2. CASE HoldsRow(w) /\ (Raise(w) \/ Complete(w))
      <4>1. PICK s \in {"failed", "completed"} : End(run[w].job, s)
        BY <3>2 DEF Raise, Complete
      <4>2. run[w].job \in Jobs
        BY <3>2, <1>0 DEF Raise, Complete, IsPlaced, ItemPlaces, RootPlaces, Jobs
      <4>3. status[run[w].job] # "absent"
        BY <3>2 DEF HoldsRow
      <4> QED
        BY <2>1, <4>1, <4>2, <4>3, RowsGoOn DEF End, Status, Terminal, GraphInv, TypeOK
    <3> QED
      BY <1>2, <3>1, <3>2 DEF Raise, Complete, Crash, rows
  <2>3. TypeOK'
    <3>1. run' \in [Workers -> Attempt]
      BY <2>1, <1>0 DEF Leave, GraphInv, TypeOK
    <3>2. faults' \in 0..MaxFaults
      BY <1>2, GraphBounds DEF Raise, Complete, Crash, GraphInv, TypeOK
    <3> QED
      BY <2>1, <2>2, <3>1, <3>2 DEF GraphInv, TypeOK
  <2>4. \A q \in Roots : KindFits(q)'
    BY <2>1, <2>2, KindsGoOn
  <2>5. IsPlaced(w)'
    BY <2>1 DEF Leave, GraphInv, TypeOK, IsPlaced, ItemPlaces, RootPlaces, Idle
  <2>6. \A v \in Workers \ {w} : run'[v] = run[v]
    BY <2>1 DEF Leave, GraphInv, TypeOK
  <2>7. \A v \in Workers \ {w} : IsPlaced(v)'
    BY <2>1, <2>6, OthersStayPlaced DEF GraphInv, TypeOK
  <2>8. \A v \in Readers : IsRead(v)'
    BY <2>1, OthersStayPlaced DEF GraphInv, TypeOK
  <2> QED
    BY <2>2, <2>3, <2>4, <2>5, <2>7, <2>8 DEF GraphInv
<1> QED
  BY <1>1, <1>2

(* A slot goes on without a row of the queue being touched.                *)
LEMMA MovesKeepGraph ==
  ASSUME GraphInv, NEW w \in Workers,
         UNCHANGED <<rows, reader, chosen, faults>>, ended' \subseteq Items,
         run' = [run EXCEPT ![w] = run'[w]], run'[w] \in Attempt, IsPlaced(w)'
  PROVE  GraphInv'
<1>1. TypeOK' /\ ItemsHaveBatches'
  BY DEF GraphInv, TypeOK, rows, ItemsHaveBatches, Present
<1>2. \A r \in Roots : KindFits(r)'
  BY DEF GraphInv, KindFits, rows
<1>3. \A v \in Workers \ {w} : run'[v] = run[v]
  BY DEF GraphInv, TypeOK
<1>4. \A v \in Workers \ {w} : IsPlaced(v)'
  BY <1>3, OthersStayPlaced DEF GraphInv, TypeOK, rows
<1>5. \A v \in Readers : IsRead(v)'
  BY OthersStayPlaced DEF GraphInv, TypeOK, rows
<1> QED
  BY <1>1, <1>2, <1>4, <1>5 DEF GraphInv

LEMMA QuietStepsKeepGraph ==
  ASSUME GraphInv, NEW w \in Workers
  PROVE  /\ Summarize(w) \/ Count(w) \/ CountOwn(w) => GraphInv'
         /\ Load(w) \/ Dispatched(w) \/ Lookup(w) \/ Checked(w) => GraphInv'
         /\ \A c \in Items : Check(w, c) => GraphInv'
         /\ \A c \in Items : Dispatch(w, c) /\ status[c] \in Active => GraphInv'
<1> USE ParentFacts
<1>0. IsPlaced(w) /\ run[w] \in Attempt /\ run \in [Workers -> Attempt]
  BY DEF GraphInv, TypeOK
<1>1. ASSUME Summarize(w) \/ Count(w) \/ CountOwn(w) PROVE GraphInv'
  <2>1. UNCHANGED <<rows, reader, chosen, faults>> /\ ended' \subseteq Items
    BY <1>1 DEF Summarize, Count, CountOwn, GraphInv, TypeOK
  <2>2. run[w].job \in Items
    BY <1>0, <1>1 DEF IsPlaced, Summarize, Count, CountOwn, ItemPlaces
  <2>3. /\ run' = [run EXCEPT ![w] = run'[w]] /\ run'[w].job = run[w].job
        /\ run'[w].at \in {"count", "own", "commit", "write"}
    <3>1. CASE Summarize(w)
      BY <1>0, <3>1 DEF Summarize, Goto, Attempt
    <3>2. CASE Count(w)
      BY <1>0, <3>2 DEF Count, Attempt
    <3>3. CASE CountOwn(w)
      BY <1>0, <3>3 DEF CountOwn, Attempt
    <3> QED
      BY <1>1, <3>1, <3>2, <3>3
  <2>4. run'[w] \in Attempt
    <3>1. CASE Summarize(w)
      BY <1>0, <3>1 DEF Summarize, Goto, Attempt, Places
    <3>2. CASE Count(w)
      <4>1. gen[Parent(run[w].job)] \in 0..MaxGen /\ Missing(Parent(run[w].job)) \in Nat
        BY <2>2, MissingFits DEF GraphInv, TypeOK, Jobs
      <4> QED
        <5>1. CASE run'[w] = [run[w] EXCEPT !.at = "commit"]
          BY <1>0, <5>1 DEF Attempt, Places
        <5>2. CASE \E n \in Nat, k \in 0..MaxGen :
                     run'[w] = [run[w] EXCEPT !.at = "own", !.token = k, !.missing = n]
          <6>1. PICK n \in Nat, k \in 0..MaxGen :
                  run'[w] = [run[w] EXCEPT !.at = "own", !.token = k, !.missing = n]
            BY <5>2
          <6>2. run[w] \in Attempt /\ "own" \in Places
            BY <1>0 DEF Places
          <6>3. [run[w] EXCEPT !.at = "own", !.token = k, !.missing = n] \in Attempt
            BY <6>2, AttemptReads
          <6> QED
            BY <6>1, <6>3
        <5>3. \/ run'[w] = [run[w] EXCEPT !.at = "commit"]
              \/ run'[w] = [run[w] EXCEPT !.at = "own", !.token = gen[Parent(run[w].job)],
                                         !.missing = Missing(Parent(run[w].job))]
          BY <1>0, <3>2 DEF Count
        <5> QED
          BY <4>1, <5>1, <5>2, <5>3
    <3>3. CASE CountOwn(w)
      <4>1. /\ run'[w] = [run[w] EXCEPT !.at = "write", !.missing = run'[w].missing]
            /\ run'[w].missing \in {run[w].missing, run[w].missing - 1}
            /\ run'[w].missing # run[w].missing => run[w].missing > 0
        BY <1>0, <3>3 DEF CountOwn, Attempt
      <4>2. run'[w].missing \in Nat
        BY <1>0, <4>1 DEF Attempt
      <4> QED
        <5>1. PICK n \in Nat : run'[w] = [run[w] EXCEPT !.at = "write", !.missing = n]
          BY <4>1, <4>2
        <5>2. run[w] \in Attempt /\ "write" \in Places
          BY <1>0 DEF Places
        <5>3. [run[w] EXCEPT !.at = "write", !.missing = n] \in Attempt
          BY <5>2, AttemptCounts
        <5> QED
          BY <5>1, <5>3
    <3> QED
      BY <1>1, <3>1, <3>2, <3>3
  <2>5. IsPlaced(w)'
    BY <2>2, <2>3 DEF IsPlaced, ItemPlaces, RootPlaces
  <2> QED
    BY <2>1, <2>3, <2>4, <2>5, MovesKeepGraph
<1>2. ASSUME Load(w) \/ Dispatched(w) \/ Lookup(w) \/ Checked(w) PROVE GraphInv'
  <2>1. UNCHANGED <<rows, reader, chosen, faults, ended>>
    BY <1>2 DEF Load, Dispatched, Lookup, Checked
  <2>2. run[w].job \in Roots /\ kind[run[w].job] \in {"canonical", "none"}
    BY <1>0, <1>2 DEF IsPlaced, Load, Dispatched, Lookup, Checked, RootPlaces
  <2>3. /\ run' = [run EXCEPT ![w] = run'[w]] /\ run'[w].job = run[w].job
        /\ run'[w].at \in {"attach", "check", "dispatch", "defer"}
    BY <1>0, <1>2 DEF Load, Dispatched, Lookup, Checked, Goto, Attempt
  <2>4. run'[w] \in Attempt
    <3>1. Kids[run[w].job] \in SUBSET Items
      BY <2>2
    <3> QED
      BY <1>0, <1>2, <3>1 DEF Load, Dispatched, Lookup, Checked, Goto, Attempt, Places
  <2>5. run'[w].at \in {"dispatch", "check"} => run'[w].left \subseteq Kids[run[w].job]
    BY <1>0, <1>2 DEF Load, Dispatched, Lookup, Checked, Goto, Attempt, IsPlaced
  <2>6. IsPlaced(w)'
    BY <2>1, <2>2, <2>3, <2>5 DEF IsPlaced, ItemPlaces, RootPlaces, rows
  <2> QED
    BY <2>1, <2>3, <2>4, <2>6, MovesKeepGraph DEF GraphInv, TypeOK
<1>3. ASSUME NEW c \in Items, Check(w, c) \/ (Dispatch(w, c) /\ status[c] \in Active)
      PROVE  GraphInv'
  <2>1. UNCHANGED <<rows, reader, chosen, faults, ended>>
    BY <1>3 DEF Check, Dispatch
  <2>2. /\ run[w].job \in Roots /\ kind[run[w].job] \in {"canonical", "none"}
        /\ run[w].left \subseteq Kids[run[w].job] /\ c \in run[w].left
    BY <1>0, <1>3 DEF IsPlaced, Check, Dispatch, RootPlaces
  <2>3. /\ run' = [run EXCEPT ![w] = run'[w]] /\ run'[w].job = run[w].job
        /\ run'[w].at \in {"check", "lookup"} /\ run'[w].left \subseteq run[w].left
        /\ run'[w].at = "lookup" => run'[w].found = c
    BY <1>0, <1>3 DEF Check, Dispatch, Attempt
  <2>4. run'[w] \in Attempt
    BY <1>0, <1>3 DEF Check, Dispatch, Attempt, Places
  <2>5. IsPlaced(w)'
    BY <2>1, <2>2, <2>3 DEF IsPlaced, ItemPlaces, RootPlaces, rows
  <2> QED
    BY <2>1, <2>3, <2>4, <2>5, MovesKeepGraph DEF GraphInv, TypeOK
<1> QED
  BY <1>1, <1>2, <1>3

(* What the third statement of an aggregate may do to a batch.             *)
LEMMA AggregateFits ==
  ASSUME GraphInv, NEW r \in Roots, NEW token, NEW missing,
         WriteAggregate(r, token, missing), kind' = kind
  PROVE  /\ status' \in [Jobs -> Status] /\ ItemsHaveBatches'
         /\ \A q \in Roots : status'[q] = "absent" <=> status[q] = "absent"
<1>1. CASE UNCHANGED status
  BY <1>1 DEF GraphInv, TypeOK, ItemsHaveBatches, Present
<1>2. CASE status[r] = "in_progress" /\ SetStatus(r, Aggregated(r, missing))
  <2>1. Aggregated(r, missing) \in Status \ {"absent"}
    BY DEF Aggregated, Status, Active, Terminal
  <2> QED
    BY <1>2, <2>1, RowsGoOn DEF Jobs
<1> QED
  BY <1>1, <1>2 DEF WriteAggregate

LEMMA WritesKeepGraph ==
  ASSUME GraphInv, NEW w \in Workers
  PROVE  /\ Write(w) \/ Defer(w) \/ Attach(w) => GraphInv'
         /\ \A c \in Items : Dispatch(w, c) /\ status[c] \notin Active => GraphInv'
<1> USE ParentFacts
<1>0. /\ IsPlaced(w) /\ run[w] \in Attempt /\ run \in [Workers -> Attempt]
      /\ Idle \in Attempt /\ \A v \in Workers : IsPlaced(v)
  BY GraphBounds DEF GraphInv, TypeOK, Idle, Attempt, Places
<1>1. ASSUME Write(w) \/ Defer(w) \/ Attach(w) PROVE GraphInv'
  <2>1. /\ UNCHANGED <<kind, gen, old, reader, chosen, ended, faults>>
        /\ run[w].job \in Jobs
    BY <1>0, <1>1 DEF Write, Defer, Attach, IsPlaced, ItemPlaces, RootPlaces, Jobs
  <2>2. /\ status' \in [Jobs -> Status] /\ ItemsHaveBatches'
        /\ \A q \in Roots : status'[q] = "absent" <=> status[q] = "absent"
    <3>1. CASE Write(w)
      <4>1. run[w].job \in Items
        BY <1>0, <3>1 DEF Write, IsPlaced, ItemPlaces
      <4> QED
        BY <3>1, <2>1, <4>1, AggregateFits DEF Write
    <3>2. CASE Defer(w)
      BY <3>2, <2>1, RowsGoOn DEF Defer, HoldsRow, Status, Active
    <3>3. CASE Attach(w)
      BY <3>3, <2>1 DEF Attach, GraphInv, TypeOK, ItemsHaveBatches, Present
    <3> QED
      BY <1>1, <3>1, <3>2, <3>3
  <2>3. /\ checkpoint' \subseteq Roots /\ attached' \subseteq Roots /\ deferred' \subseteq Roots
        /\ \A r \in Roots : r \in checkpoint' \cup attached' =>
                              r \in checkpoint \cup attached \/ kind[r] = "canonical"
    <3>1. CASE Write(w)
      BY <3>1 DEF Write, GraphInv, TypeOK
    <3>2. CASE Defer(w) \/ Attach(w)
      <4>1. run[w].job \in Roots /\ kind[run[w].job] = "canonical"
        BY <3>2, <1>0 DEF Defer, Attach, HoldsRow, GraphInv, KindFits, IsPlaced, RootPlaces
      <4> QED
        BY <3>2, <4>1 DEF Defer, Attach, GraphInv, TypeOK
    <3> QED
      BY <1>1, <3>1, <3>2
  <2>4. /\ run'[w] \in Attempt /\ run' = [run EXCEPT ![w] = run'[w]]
        /\ run'[w] = Idle \/ (run'[w].job = run[w].job /\ run'[w].at \in {"commit", "finish"})
    BY <1>0, <1>1 DEF Write, Defer, Attach, Leave, Goto, Attempt, Places
  <2>5. IsPlaced(w)'
    <3>1. CASE Write(w)
      <4>1. run'[w].at = "commit" /\ run[w].job \in Items
        BY <1>0, <3>1 DEF Write, IsPlaced, ItemPlaces, Attempt
      <4> QED
        BY <2>4, <4>1 DEF IsPlaced, ItemPlaces, RootPlaces, Idle
    <3>2. CASE Defer(w)
      BY <1>0, <3>2 DEF Defer, Leave, IsPlaced, ItemPlaces, RootPlaces, Idle
    <3>3. CASE Attach(w)
      <4>1. run'[w].at = "finish" /\ run[w].job \in Roots /\ kind[run[w].job] \in {"canonical", "none"}
        BY <1>0, <3>3 DEF Attach, Goto, IsPlaced, RootPlaces, Attempt
      <4> QED
        BY <2>1, <2>4, <4>1 DEF IsPlaced, ItemPlaces, RootPlaces, Idle
    <3> QED
      BY <1>1, <3>1, <3>2, <3>3
  <2>6. TypeOK'
    BY <2>1, <2>2, <2>3, <2>4, <1>0 DEF GraphInv, TypeOK
  <2>7. \A r \in Roots : KindFits(r)'
    BY <2>1, <2>2, <2>3, KindsGoOn
  <2>8. \A v \in Workers : IsPlaced(v)'
    BY <2>1, <2>4, <2>5, <1>0, OthersStayPlaced DEF GraphInv, TypeOK
  <2>9. \A v \in Readers : IsRead(v)'
    BY <2>1, OthersStayPlaced DEF GraphInv, TypeOK
  <2> QED
    BY <2>2, <2>6, <2>7, <2>8, <2>9 DEF GraphInv
<1>2. ASSUME NEW c \in Items, Dispatch(w, c), status[c] \notin Active PROVE GraphInv'
  <2>1. /\ UNCHANGED <<kind, gen, checkpoint, attached, deferred, reader, chosen, faults>>
        /\ SetStatus(c, "queued") /\ ended' \subseteq Items /\ old' \subseteq Jobs
        /\ run' = [run EXCEPT ![w].left = @ \ {c}]
    BY <1>2 DEF Dispatch, GraphInv, TypeOK
  <2>2. run[w].job = Parent(c) /\ status[Parent(c)] # "absent"
    BY <1>0, <1>2 DEF Dispatch, IsPlaced, RootPlaces
  <2>3. status' \in [Jobs -> Status] /\ \A q \in Roots : status'[q] = status[q]
    BY <2>1 DEF SetStatus, GraphInv, TypeOK, Status, Active, Jobs
  <2>4. ItemsHaveBatches'
    BY <2>1, <2>2, <2>3 DEF SetStatus, GraphInv, TypeOK, ItemsHaveBatches, Present, Jobs
  <2>5. run' \in [Workers -> Attempt]
    BY <2>1, <1>0 DEF Attempt
  <2>6. IsPlaced(w)' /\ \A v \in Workers \ {w} : run'[v] = run[v]
    BY <2>1, <1>0 DEF IsPlaced, Attempt
  <2>7. TypeOK'
    BY <2>1, <2>3, <2>5 DEF GraphInv, TypeOK
  <2>8. \A r \in Roots : KindFits(r)'
    BY <2>1, <2>3, KindsGoOn
  <2>9. (\A v \in Workers : IsPlaced(v)') /\ \A v \in Readers : IsRead(v)'
    BY <2>1, <2>6, OthersStayPlaced DEF GraphInv, TypeOK
  <2> QED
    BY <2>4, <2>7, <2>8, <2>9 DEF GraphInv
<1> QED
  BY <1>1, <1>2

LEMMA ReadersKeepGraph ==
  ASSUME GraphInv, NEW v \in Readers
  PROVE  /\ \A r \in Roots : Read(v, r) => GraphInv'
         /\ WriteRead(v) => GraphInv'
<1> USE ParentFacts
<1>1. ASSUME NEW r \in Roots, Read(v, r) PROVE GraphInv'
  <2>1. /\ UNCHANGED <<rows, run, chosen, ended, faults>>
        /\ reader' = [reader EXCEPT ![v] = [root |-> r, token |-> gen[r], missing |-> Missing(r)]]
        /\ kind[r] = "legacy"
    BY <1>1 DEF Read
  <2>2. TypeOK' /\ ItemsHaveBatches'
    BY <2>1, MissingFits DEF GraphInv, TypeOK, rows, Jobs, ItemsHaveBatches, Present
  <2>3. (\A q \in Roots : KindFits(q)') /\ \A w \in Workers : IsPlaced(w)'
    BY <2>1, OthersStayPlaced DEF GraphInv, TypeOK, KindFits, rows
  <2>4. ASSUME NEW u \in Readers PROVE IsRead(u)'
    <3>1. u # v => reader'[u] = reader[u]
      BY <2>1 DEF GraphInv, TypeOK
    <3>2. u = v => reader'[u].root = r /\ r # None
      BY <2>1 DEF GraphInv, TypeOK, Jobs
    <3> QED
      BY <2>1, <3>1, <3>2, OthersStayPlaced DEF GraphInv, TypeOK, IsRead, rows
  <2> QED
    BY <2>2, <2>3, <2>4 DEF GraphInv
<1>2. ASSUME WriteRead(v) PROVE GraphInv'
  <2>1. /\ UNCHANGED <<kind, gen, checkpoint, attached, deferred, old, run, chosen, ended, faults>>
        /\ reader' = [reader EXCEPT ![v] = NoAggregate]
    BY <1>2 DEF WriteRead
  <2>2. reader[v].root \in Roots
    BY <1>2 DEF WriteRead, GraphInv, TypeOK, IsRead
  <2>3. /\ status' \in [Jobs -> Status] /\ ItemsHaveBatches'
        /\ \A q \in Roots : status'[q] = "absent" <=> status[q] = "absent"
    BY <1>2, <2>1, <2>2, AggregateFits DEF WriteRead
  <2>4. TypeOK'
    BY <2>1, <2>3, GraphBounds DEF GraphInv, TypeOK, NoAggregate
  <2>5. (\A q \in Roots : KindFits(q)') /\ \A w \in Workers : IsPlaced(w)'
    BY <2>1, <2>3, KindsGoOn, OthersStayPlaced DEF GraphInv, TypeOK
  <2>6. ASSUME NEW u \in Readers PROVE IsRead(u)'
    BY <2>1 DEF GraphInv, TypeOK, IsRead, NoAggregate
  <2> QED
    BY <2>3, <2>4, <2>5, <2>6 DEF GraphInv
<1> QED
  BY <1>1, <1>2

(* Retention takes a batch and its items, and nothing else.                *)
LEMMA RemovesWholeGraphs ==
  ASSUME GraphInv, NEW gone \in SUBSET Roots, Remove(gone)
  PROVE  /\ \A r \in Roots : status'[r] = IF r \in gone THEN "absent" ELSE status[r]
         /\ \A r \in Roots : \A c \in Kids[r] :
              status'[c] = IF r \in gone THEN "absent" ELSE status[c]
<1>1. \A r \in Roots : (\E q \in gone : r \in GraphOf(q)) <=> r \in gone
  BY ParentFacts DEF GraphOf, Present
<1>2. \A r \in Roots : \A c \in Kids[r] :
         (\E q \in gone : c \in GraphOf(q)) <=> r \in gone /\ status[c] # "absent"
  BY ParentFacts DEF GraphOf, Present
<1> QED
  BY <1>1, <1>2, ParentFacts DEF Remove, Jobs

LEMMA RetentionKeepsGraph ==
  ASSUME GraphInv
  PROVE  /\ \A r \in Roots : Age(r) => GraphInv'
         /\ Select \/ RemoveEligible => GraphInv'
<1> USE ParentFacts
<1>1. ASSUME NEW r \in Roots, Age(r) PROVE GraphInv'
  <2>1. UNCHANGED <<kind, status, gen, checkpoint, attached, deferred, run, reader, chosen, ended, faults>>
    BY <1>1 DEF Age
  <2>2. old' \subseteq Jobs
    BY <1>1 DEF Age, GraphOf, Present, Jobs, GraphInv, TypeOK
  <2> QED
    BY <2>1, <2>2 DEF GraphInv, TypeOK, IsPlaced, IsRead, KindFits, ItemsHaveBatches, Present
<1>2. ASSUME Select PROVE GraphInv'
  BY <1>2 DEF Select, rows, GraphInv, TypeOK, IsPlaced, IsRead, KindFits, ItemsHaveBatches, Present
<1>3. ASSUME RemoveEligible PROVE GraphInv'
  <2> DEFINE gone == {r \in chosen : Eligible(r)}
  <2>1. gone \in SUBSET Roots /\ Remove(gone) /\ chosen' = {} /\ UNCHANGED <<run, reader, faults>>
    BY <1>3 DEF RemoveEligible, GraphInv, TypeOK
  <2> HIDE DEF gone
  <2>2. TypeOK'
    <3>1. kind' \in [Roots -> {"none", "legacy", "canonical"}] /\ status' \in [Jobs -> Status]
      BY <2>1 DEF Remove, GraphInv, TypeOK, Status
    <3>2. gen' \in [Jobs -> 0..MaxGen]
      BY <2>1, GraphBounds DEF Remove, GraphInv, TypeOK
    <3> QED
      BY <2>1, <3>1, <3>2 DEF Remove, GraphInv, TypeOK
  <2>3. ItemsHaveBatches'
    BY <2>1, RemovesWholeGraphs DEF ItemsHaveBatches, Present, GraphInv
  <2>4. \A r \in Roots : kind'[r] = IF r \in gone THEN "none" ELSE kind[r]
    BY <2>1 DEF Remove
  <2>5. \A r \in Roots : KindFits(r)'
    <3>1. checkpoint' = checkpoint \ gone /\ attached' = attached \ gone
      BY <2>1 DEF Remove
    <3>2. \A r \in Roots : status'[r] = IF r \in gone THEN "absent" ELSE status[r]
      BY <2>1, RemovesWholeGraphs
    <3> QED
      BY <2>4, <3>1, <3>2 DEF KindFits, GraphInv
  <2>6. (\A w \in Workers : IsPlaced(w)') /\ \A v \in Readers : IsRead(v)'
    BY <2>1, <2>4, OthersStayPlaced
  <2> QED
    BY <2>2, <2>3, <2>5, <2>6 DEF GraphInv
<1> QED
  BY <1>1, <1>2, <1>3

LEMMA NextGraph == GraphInv /\ [Next]_vars => GraphInv'
<1> SUFFICES ASSUME GraphInv, [Next]_vars PROVE GraphInv'
  OBVIOUS
<1>1. CASE UNCHANGED vars
  BY <1>1 DEF vars, rows, GraphInv, TypeOK, IsPlaced, IsRead, KindFits, ItemsHaveBatches, Present
<1>2. ASSUME NEW r \in Roots, NEW kids \in SUBSET Kids[r], SubmitBatch(r, kids) PROVE GraphInv'
  BY <1>2, ParentFacts, ClientsKeepGraph
<1>3. ASSUME NEW w \in Workers, Step(w) \/ Crash(w) \/ \E j \in Jobs : Claim(w, j) PROVE GraphInv'
  BY <1>3, AttemptsKeepGraph, QuietStepsKeepGraph, WritesKeepGraph DEF Step, ItemStep, RunStep
<1>4. ASSUME NEW v \in Readers, WriteRead(v) \/ \E r \in Roots : Read(v, r) PROVE GraphInv'
  BY <1>4, ReadersKeepGraph
<1> QED
  BY <1>1, <1>2, <1>3, <1>4, ClientsKeepGraph, RetentionKeepsGraph DEF Next

LEMMA GraphAlways == Spec => []GraphInv
  BY InitGraph, NextGraph, PTL DEF Spec

(* Batches, items, slots and readers are typed, whoever removes and        *)
(* resubmits them meanwhile.                                               *)
THEOREM GraphTypeCorrect == Spec => []TypeOK
<1>1. GraphInv => TypeOK
  BY DEF GraphInv
<1> QED
  BY <1>1, GraphAlways, PTL

(* No row is ever without its batch: ItemsHaveBatches holds in every       *)
(* reachable state, even if a stalled attempt dispatches after its batch   *)
(* was removed.                                                            *)
THEOREM NoItemIsOrphaned == Spec => []ItemsHaveBatches
<1>1. GraphInv => ItemsHaveBatches
  BY DEF GraphInv
<1> QED
  BY <1>1, GraphAlways, PTL

(* Every step satisfies OnlyEndedGraphsAreRemoved: what retention chose is *)
(* removed only if it is still eligible, and then as a whole.              *)
THEOREM RemovalIsSafe == Spec => OnlyEndedGraphsAreRemoved
<1> DEFINE Safe == \A r \in Roots :
                     status[r] # "absent" /\ status'[r] = "absent"
                       => /\ \A j \in GraphOf(r) : status[j] \in Terminal
                          /\ \A c \in Kids[r] : status'[c] = "absent"
<1>1. GraphInv /\ GraphInv' /\ [Next]_vars => Safe
  <2> SUFFICES ASSUME GraphInv, GraphInv', [Next]_vars, NEW r \in Roots,
                      status[r] # "absent", status'[r] = "absent"
               PROVE  /\ \A j \in GraphOf(r) : status[j] \in Terminal
                      /\ \A c \in Kids[r] : status'[c] = "absent"
    OBVIOUS
  <2>1. \A c \in Kids[r] : status'[c] = "absent"
    BY DEF GraphInv, ItemsHaveBatches, Present
  <2>2. kind'[r] # kind[r]
    BY DEF GraphInv, KindFits
  <2>3. RemoveEligible
    <3>1. kind'[r] = "none"
      BY DEF GraphInv, KindFits
    <3>2. ASSUME NEW q \in Roots, NEW kids \in SUBSET Kids[q], SubmitRun(q) \/ SubmitBatch(q, kids) \/ Age(q)
          PROVE  FALSE
      BY <3>1, <3>2, <2>2 DEF SubmitRun, SubmitBatch, Age, GraphInv, TypeOK
    <3>3. ASSUME NEW j \in Jobs, Cancel(j) \/ Retry(j) \/ Sweep(j)
          PROVE  FALSE
      BY <3>3, <2>2 DEF Cancel, Retry, Sweep
    <3>4. ASSUME NEW w \in Workers, Step(w) \/ Crash(w) \/ \E j \in Jobs : Claim(w, j)
          PROVE  FALSE
      <4>1. ASSUME ItemStep(w) PROVE kind' = kind
        BY <4>1 DEF ItemStep, Summarize, Count, CountOwn, Write, rows
      <4>2. ASSUME RunStep(w) PROVE kind' = kind
        BY <4>2 DEF RunStep, Load, Dispatched, Lookup, Checked, Defer, Attach, Dispatch, Check, rows
      <4>3. ASSUME Raise(w) \/ Complete(w) \/ Crash(w) \/ \E j \in Jobs : Claim(w, j) PROVE kind' = kind
        BY <4>3 DEF Raise, Complete, Crash, Claim, rows
      <4> QED
        BY <2>2, <3>4, <4>1, <4>2, <4>3 DEF Step
    <3>5. ASSUME NEW v \in Readers, NEW q \in Roots, WriteRead(v) \/ Read(v, q)
          PROVE  FALSE
      BY <3>5, <2>2 DEF WriteRead, Read, rows
    <3>6. ~UNCHANGED vars /\ ~Select
      BY <2>2 DEF vars, rows, Select
    <3> QED
      BY <3>2, <3>3, <3>4, <3>5, <3>6 DEF Next
  <2>4. r \in chosen /\ Eligible(r)
    <3> DEFINE gone == {q \in chosen : Eligible(q)}
    <3>1. gone \in SUBSET Roots /\ Remove(gone)
      BY <2>3 DEF RemoveEligible, GraphInv, TypeOK
    <3> QED
      BY <3>1, RemovesWholeGraphs
  <2> QED
    BY <2>1, <2>4 DEF Eligible
<1>2. Safe => [Safe]_vars
  OBVIOUS
<1> QED
  BY <1>1, GraphAlways, PTL DEF Spec, OnlyEndedGraphsAreRemoved
-----------------------------------------------------------------------------
(* The inductive invariant of the counts, where no slot outlives the sweep *)
(* of its row.  Only then does an item's handler still hold its row when   *)
(* it counts that row as done.                                             *)

AllThere(r) == status[r] # "absent" => \A c \in Kids[r] : status[c] # "absent"
HasEnded(r) == \A c \in Kids[r] : status[c] # "absent" => c \in ended
Unended(r) == Present(r) \ ended


GensDiffer == \A v, w \in Workers :
  v # w /\ run[v].job = run[w].job /\ run[v].job # None => run[v].gen # run[w].gen

(* No item is terminal that `ended' does not know of.                      *)
EndsAreKnown == \A c \in Items : status[c] \in Terminal => c \in ended

(* A stored checkpoint names items that are all there, a stored result was *)
(* made when they had ended; nobody adds items to either.                  *)
ResultsAreTrue == \A r \in Roots :
  /\ r \in checkpoint => AllThere(r)
  /\ r \in attached => HasEnded(r)

(* An item's handler holds its row; what it has counted as missing of a    *)
(* legacy batch is no less than what has not ended, its own item included  *)
(* until it has subtracted that.                                           *)
ItemIsCounted(w) ==
  run[w].job \in Items =>
    /\ HoldsRow(w)
    /\ run[w].at # "work" => run[w].job \in ended
    /\ kind[Parent(run[w].job)] = "legacy" =>
        /\ run[w].at = "own" => Cardinality(Unended(Parent(run[w].job))) < run[w].missing
        /\ run[w].at = "write" => Cardinality(Unended(Parent(run[w].job))) <= run[w].missing

ReadIsCounted(v) ==
  reader[v].root # None => Cardinality(Unended(reader[v].root)) <= reader[v].missing

(* What a run's handler has looked at is still so while it holds the run;  *)
(* one that lost the run before it dispatched cannot add an item, because  *)
(* the checkpoint it lost the run for names them all.                      *)
RunIsInOrder(w) ==
  /\ run[w].at \in {"load", "dispatch", "lookup"} /\ kind[run[w].job] = "canonical" =>
       HoldsRow(w) \/ AllThere(run[w].job)
  /\ run[w].at \in {"dispatch", "lookup"} /\ status[run[w].job] # "absent" =>
       \A c \in Kids[run[w].job] \ run[w].left : status[c] # "absent"
  /\ run[w].at \in {"dispatch", "lookup"} /\ HoldsRow(w) =>
       run[w].job \notin checkpoint \cup attached
  /\ run[w].at \in {"defer", "check"} => AllThere(run[w].job)
  /\ run[w].at = "check" /\ HoldsRow(w) /\ ~run[w].busy =>
       \A c \in Kids[run[w].job] \ run[w].left : c \in ended
  /\ run[w].at = "attach" /\ HoldsRow(w) => HasEnded(run[w].job)
  /\ run[w].at = "finish" /\ HoldsRow(w) => run[w].job \in attached

CountInv ==
  /\ GensDiffer
  /\ EndsAreKnown
  /\ ResultsAreTrue
  /\ \A w \in Workers : ItemIsCounted(w) /\ RunIsInOrder(w)
  /\ \A v \in Readers : ReadIsCounted(v)

-----------------------------------------------------------------------------
(* What one step may do to a batch: it is new, it is removed, or it goes   *)
(* on, and then only the attempt that holds it adds an item, forgets that  *)
(* one has ended, or stores a result.                                      *)

ByHolder(r) ==
  /\ kind[r] = "canonical"
  /\ \E v \in Workers : run'[v] # run[v] /\ run[v].job = r /\ HoldsRow(v)

Created(r) ==
  /\ IsUnused(r) /\ kind'[r] # "none" /\ status'[r] # "absent"
  /\ r \notin checkpoint' \cup attached'

Removed(r) ==
  /\ kind'[r] = "none" /\ status'[r] = "absent" /\ status[r] # "absent"
  /\ \A c \in Kids[r] : status'[c] = "absent" /\ status[c] \in {"absent"} \cup Terminal
  /\ status[r] \in Terminal
  /\ r \notin checkpoint' \cup attached'

Kept(r) ==
  /\ kind'[r] = kind[r]
  /\ status'[r] = "absent" <=> status[r] = "absent"
  /\ \A c \in Kids[r] :
       /\ status[c] # "absent" => status'[c] # "absent"
       /\ status[c] = "absent" /\ status'[c] # "absent" => ByHolder(r) /\ r \notin attached
       /\ c \in ended \ ended' => ByHolder(r) /\ r \notin attached /\ status[c] \notin Active
  /\ r \in checkpoint' \ checkpoint => ByHolder(r) /\ AllThere(r)
  /\ r \in attached' \ attached => ByHolder(r) /\ HasEnded(r)'
  /\ r \in attached \ attached' => status[r] \in Terminal

Evolves(r) == Created(r) \/ Removed(r) \/ Kept(r)

(* A slot that takes no step never gets a row back, and loses the row of a *)
(* batch only to an aggregate or, of a legacy one, to the sweep.           *)
Loses(w) ==
  run'[w] = run[w] /\ run[w].job # None =>
    /\ HoldsRow(w)' => HoldsRow(w)
    /\ HoldsRow(w) /\ ~HoldsRow(w)' =>
         run[w].job \in Roots /\ (kind[run[w].job] = "legacy" \/ run[w].job \in checkpoint)

Completes(r) == status[r] # "completed" /\ status'[r] = "completed" => HasEnded(r)'

Evolution ==
  /\ \A r \in Roots : Evolves(r) /\ Completes(r)
  /\ \A w \in Workers : Loses(w)
  /\ EndsAreKnown'

-----------------------------------------------------------------------------
(* Every step makes every batch evolve.                                    *)

(* Two slots never hold the same row.                                      *)
LEMMA HolderIsAlone ==
  ASSUME CountInv, NEW v \in Workers, NEW w \in Workers, v # w,
         run[v].job = run[w].job, run[w].job # None
  PROVE  ~(HoldsRow(v) /\ HoldsRow(w))
BY DEF CountInv, GensDiffer, HoldsRow

LEMMA EveryRowIsKept ==
  ASSUME GraphInv, kind' = kind, \A j \in Jobs : status'[j] = "absent" <=> status[j] = "absent",
         ended \subseteq ended', checkpoint' \subseteq checkpoint, attached' \subseteq attached,
         \A r \in Roots : r \in attached \ attached' => status[r] \in Terminal
  PROVE  \A r \in Roots : Kept(r)
<1>1. ASSUME NEW r \in Roots PROVE Kept(r)
  <2>1. \A c \in Kids[r] : c \in Jobs
    BY ParentFacts DEF Jobs
  <2> QED
    BY <2>1 DEF Kept, Jobs
<1> QED
  BY <1>1

(* One row that is there changes: nobody else loses or gets it.            *)
LEMMA OneRowIsLost ==
  ASSUME GraphInv, NEW j \in Jobs, NEW s \in Status, SetStatus(j, s), gen' = gen,
         s = "in_progress" => status[j] = "in_progress",
         status[j] = "in_progress" /\ s # "in_progress" =>
           \A w \in Workers : run'[w] = run[w] /\ run[w].job = j /\ HoldsRow(w) =>
             j \in Roots /\ (kind[j] = "legacy" \/ j \in checkpoint)
  PROVE  \A w \in Workers : Loses(w)
<1>1. ASSUME NEW w \in Workers PROVE Loses(w)
  <2>1. run[w].job # j => status'[run[w].job] = status[run[w].job]
    BY DEF SetStatus, GraphInv, TypeOK
  <2>2. status'[j] = s
    BY DEF SetStatus, GraphInv, TypeOK
  <2> QED
    BY <2>1, <2>2 DEF Loses, HoldsRow
<1> QED
  BY <1>1

LEMMA QuietEvolution ==
  ASSUME GraphInv, CountInv,
         UNCHANGED <<kind, status, gen, checkpoint, attached>>, ended \subseteq ended'
  PROVE  Evolution
<1>1. \A r \in Roots : Kept(r) /\ Completes(r)
  BY EveryRowIsKept DEF Completes
<1>2. \A w \in Workers : Loses(w)
  BY DEF Loses, HoldsRow
<1>3. EndsAreKnown'
  BY DEF CountInv, EndsAreKnown
<1> QED
  BY <1>1, <1>2, <1>3 DEF Evolution, Evolves

LEMMA SubmissionEvolves ==
  ASSUME GraphInv, CountInv, NEW r \in Roots
  PROVE  /\ SubmitRun(r) => Evolution
         /\ \A kids \in SUBSET Kids[r] : SubmitBatch(r, kids) => Evolution
<1> USE ParentFacts
<1>1. ASSUME NEW kids \in SUBSET Kids[r], SubmitRun(r) \/ SubmitBatch(r, kids) PROVE Evolution
  <2>1. /\ IsUnused(r) /\ UNCHANGED <<gen, checkpoint, attached, run, ended>>
        /\ status[r] = "absent" /\ r \notin checkpoint \cup attached
    BY <1>1 DEF SubmitRun, SubmitBatch, IsUnused, GraphInv, KindFits
  <2>2. /\ kind'[r] # "none" /\ \A q \in Roots \ {r} : kind'[q] = kind[q]
        /\ status'[r] # "absent"
        /\ \A j \in Jobs \ ({r} \cup Kids[r]) : status'[j] = status[j]
        /\ \A j \in Jobs : status'[j] = status[j] \/ status'[j] \in {"queued", "in_progress", "completed"}
    BY <1>1 DEF SubmitRun, SubmitBatch, SetStatus, GraphInv, TypeOK, Jobs
  <2>3. \A q \in Roots : Evolves(q)
    <3>1. Created(r)
      BY <2>1, <2>2 DEF Created
    <3>2. ASSUME NEW q \in Roots \ {r} PROVE Kept(q)
      <4>1. \A c \in Kids[q] : c \in Jobs \ ({r} \cup Kids[r])
        BY GraphAssumption DEF Jobs, Items
      <4>2. q \in Jobs \ ({r} \cup Kids[r])
        BY DEF Jobs
      <4> QED
        BY <2>1, <2>2, <4>1, <4>2 DEF Kept
    <3> QED
      BY <3>1, <3>2 DEF Evolves
  <2>4. \A w \in Workers : Loses(w)
    <3>1. ASSUME NEW w \in Workers, run[w].job # None PROVE status'[run[w].job] = status[run[w].job]
      BY <2>1, <2>2, <3>1 DEF IsUnused, GraphInv, TypeOK, Attempt
    <3> QED
      BY <2>1, <3>1 DEF Loses, HoldsRow
  <2>5. \A c \in Items : status'[c] \in Terminal => c \in ended
    <3>1. \A c \in Items : status'[c] \in Terminal => status'[c] = status[c]
      BY <1>1 DEF SubmitRun, SubmitBatch, SetStatus, GraphInv, TypeOK, Jobs, Terminal
    <3> QED
      BY <3>1 DEF CountInv, EndsAreKnown
  <2>6. ASSUME NEW q \in Roots PROVE Completes(q)
    <3>1. CASE q # r
      BY <2>2, <3>1 DEF Completes, Jobs
    <3>2. CASE q = r /\ status'[r] = "completed"
      <4>1. SubmitBatch(r, {})
        BY <1>1, <3>2 DEF SubmitRun, SubmitBatch, SetStatus, GraphInv, TypeOK, Jobs
      <4>2. \A c \in Kids[r] : status'[c] = status[c]
        BY <4>1 DEF SubmitBatch, Jobs
      <4>3. \A c \in Kids[r] : status[c] = "absent"
        BY <2>1 DEF GraphInv, ItemsHaveBatches, Present
      <4> QED
        BY <4>2, <4>3, <3>2 DEF Completes, HasEnded
    <3> QED
      BY <3>1, <3>2 DEF Completes
  <2> QED
    BY <2>1, <2>3, <2>4, <2>5, <2>6 DEF Evolution, EndsAreKnown
<1> QED
  BY <1>1

(* The row j is set to s by a client, a sweep or its own attempt.          *)
LEMMA RowEvolves ==
  ASSUME GraphInv, CountInv, NEW j \in Jobs, NEW s \in Status \ {"absent", "in_progress"},
         SetStatus(j, s), status[j] # "absent",
         kind' = kind, gen' = gen, checkpoint' \subseteq checkpoint, attached' \subseteq attached,
         \A r \in Roots : r \in attached \ attached' => status[r] \in Terminal,
         ended' = IF j \in Items /\ s \in Terminal THEN ended \cup {j} ELSE ended,
         status[j] = "in_progress" =>
           \A w \in Workers : run'[w] = run[w] /\ run[w].job = j /\ HoldsRow(w) =>
             j \in Roots /\ (kind[j] = "legacy" \/ j \in checkpoint),
         j \in Roots /\ s = "completed" => HasEnded(j)
  PROVE  Evolution
<1> USE ParentFacts
<1>1. \A k \in Jobs : status'[k] = IF k = j THEN s ELSE status[k]
  BY DEF SetStatus, GraphInv, TypeOK
<1>2. \A r \in Roots : Kept(r)
  BY <1>1, EveryRowIsKept
<1>3. \A w \in Workers : Loses(w)
  BY OneRowIsLost
<1>4. EndsAreKnown'
  BY <1>1 DEF CountInv, EndsAreKnown, Jobs
<1>5. ASSUME NEW r \in Roots PROVE Completes(r)
  <2>1. r # j => status'[r] = status[r]
    BY <1>1 DEF Jobs
  <2>2. j \in Roots => \A c \in Kids[j] : status'[c] = status[c]
    BY <1>1 DEF Jobs
  <2> QED
    BY <1>1, <2>1, <2>2 DEF Completes, HasEnded, Jobs
<1> QED
  BY <1>2, <1>3, <1>4, <1>5 DEF Evolution, Evolves

LEMMA ClientsEvolve ==
  ASSUME GraphInv, CountInv, ~Zombies, NEW j \in Jobs, Cancel(j) \/ Retry(j) \/ Sweep(j)
  PROVE  Evolution
<1> USE DEF Status, Active, Terminal
<1>1. CASE Cancel(j)
  BY <1>1, RowEvolves DEF Cancel, End
<1>2. CASE Retry(j)
  BY <1>2, RowEvolves DEF Retry
<1>3. CASE Sweep(j)
  <2>1. ASSUME NEW w \in Workers, run[w].job = j, HoldsRow(w) PROVE j \in Roots /\ kind[j] = "legacy"
    BY <1>3, <2>1 DEF Sweep, HoldsRow
  <2> QED
    BY <1>3, <2>1, RowEvolves DEF Sweep, End
<1> QED
  BY <1>1, <1>2, <1>3

LEMMA ClaimEvolves ==
  ASSUME GraphInv, CountInv, NEW w \in Workers, NEW j \in Jobs, Claim(w, j)
  PROVE  Evolution
<1> USE ParentFacts
<1>1. /\ \A k \in Jobs : status'[k] = IF k = j THEN "in_progress" ELSE status[k]
      /\ status[j] = "queued" /\ UNCHANGED <<kind, checkpoint, attached, ended>>
  BY DEF Claim, SetStatus, GraphInv, TypeOK
<1>2. PICK g \in 0..MaxGen : g \notin Remembered(j) /\ gen' = [gen EXCEPT ![j] = g]
  BY DEF Claim, IsNewGen
<1>3. \A r \in Roots : Kept(r)
  BY <1>1, EveryRowIsKept
<1>4. ASSUME NEW v \in Workers, run[v].job # None PROVE (HoldsRow(v)' /\ run'[v] = run[v]) <=> (HoldsRow(v) /\ run'[v] = run[v])
  <2>1. CASE run[v].job = j
    <3>1. run[v].gen # g
      BY <1>2, <2>1 DEF Remembered
    <3>2. gen'[j] = g
      BY <1>2 DEF GraphInv, TypeOK
    <3> QED
      BY <1>1, <2>1, <3>1, <3>2 DEF HoldsRow
  <2>2. CASE run[v].job # j
    <3>1. run[v].job \in Jobs
      BY <1>4 DEF GraphInv, TypeOK, Attempt
    <3> QED
      BY <1>1, <1>2, <2>2, <3>1 DEF HoldsRow, GraphInv, TypeOK
  <2> QED
    BY <2>1, <2>2
<1>5. \A v \in Workers : Loses(v)
  BY <1>4 DEF Loses
<1>6. EndsAreKnown'
  BY <1>1 DEF CountInv, EndsAreKnown, Jobs, Terminal
<1>7. \A r \in Roots : Completes(r)
  BY <1>1 DEF Completes, Jobs
<1> QED
  BY <1>3, <1>5, <1>6, <1>7 DEF Evolution, Evolves

LEMMA EndsEvolve ==
  ASSUME GraphInv, CountInv, NEW w \in Workers, Raise(w) \/ Complete(w) \/ Crash(w)
  PROVE  Evolution
<1> USE ParentFacts
<1>1. CASE UNCHANGED <<status, ended>>
  BY <1>1, QuietEvolution DEF Raise, Complete, Crash, rows
<1>2. CASE HoldsRow(w) /\ (Raise(w) \/ Complete(w))
  <2>1. PICK s \in {"failed", "completed"} :
           End(run[w].job, s) /\ (s = "completed" => Complete(w))
    BY <1>2 DEF Raise, Complete
  <2>2. IsPlaced(w) /\ run[w].job \in Jobs /\ run[w].at # "idle"
    BY <1>2 DEF Raise, Complete, GraphInv, IsPlaced, ItemPlaces, RootPlaces, Jobs
  <2>3. run'[w] # run[w]
    BY <1>2, <2>2 DEF Raise, Complete, Leave, Idle, GraphInv, TypeOK
  <2>4. \A v \in Workers : run'[v] = run[v] /\ run[v].job = run[w].job => ~HoldsRow(v)
    BY <1>2, <2>2, <2>3, HolderIsAlone
  <2>5. run[w].job \in Roots /\ Complete(w) => HasEnded(run[w].job)
    <3>1. run[w].job \in Roots /\ Complete(w) => run[w].at = "finish"
      BY <2>2 DEF Complete, IsPlaced, ItemPlaces
    <3> QED
      BY <1>2, <3>1 DEF CountInv, RunIsInOrder, ResultsAreTrue
  <2>6. UNCHANGED <<kind, gen, checkpoint, attached>> /\ status[run[w].job] # "absent"
    BY <1>2 DEF Raise, Complete, HoldsRow
  <2> QED
    BY <2>1, <2>2, <2>4, <2>5, <2>6, RowEvolves DEF End, Status, Terminal, Active
<1> QED
  BY <1>1, <1>2 DEF Raise, Complete, Crash, rows

LEMMA AggregateEvolves ==
  ASSUME GraphInv, CountInv, NEW r \in Roots, NEW token, NEW missing, WriteAggregate(r, token, missing),
         UNCHANGED <<kind, gen, checkpoint, attached, ended>>,
         kind[r] = "legacy" /\ ~(missing > 0) => HasEnded(r)
  PROVE  Evolution
<1> DEFINE s == Aggregated(r, missing)
<1>1. CASE UNCHANGED status
  BY <1>1, QuietEvolution
<1>2. CASE status[r] = "in_progress" /\ SetStatus(r, s) /\ s = "in_progress"
  <2>1. UNCHANGED status
    BY <1>2 DEF SetStatus, GraphInv, TypeOK
  <2> QED
    BY <2>1, QuietEvolution
<1>3. CASE status[r] = "in_progress" /\ SetStatus(r, s) /\ s # "in_progress"
  <2>1. \/ s = "completed" /\ kind[r] = "legacy" /\ HasEnded(r)
        \/ s = "queued" /\ r \in checkpoint
    BY <1>3 DEF Aggregated
  <2> HIDE DEF s
  <2> QED
    BY <1>3, <2>1, RowEvolves, ParentFacts DEF Status, Active, Terminal, Jobs
<1> QED
  BY <1>1, <1>2, <1>3 DEF WriteAggregate

(* Nothing is missing of a batch that nobody will add to.                  *)
LEMMA NothingIsMissing ==
  ASSUME NEW r \in Roots, NEW missing \in Nat, Cardinality(Unended(r)) <= missing, ~(missing > 0)
  PROVE  HasEnded(r)
<1>1. Unended(r) \in SUBSET Kids[r]
  BY DEF Unended, Present
<1>2. Cardinality(Unended(r)) = 0
  BY <1>1, CountFacts
<1>3. Unended(r) = {}
  BY <1>1, <1>2, CountFacts
<1> QED
  BY <1>3 DEF Unended, Present, HasEnded

LEMMA WritesEvolve ==
  ASSUME GraphInv, CountInv
  PROVE  /\ \A w \in Workers : Write(w) => Evolution
         /\ \A v \in Readers : WriteRead(v) => Evolution
<1>1. ASSUME NEW w \in Workers, Write(w) PROVE Evolution
  <2>1. run[w].job \in Items /\ Parent(run[w].job) \in Roots /\ run[w].missing \in Nat
    BY <1>1, ParentFacts DEF Write, GraphInv, IsPlaced, ItemPlaces, TypeOK, Attempt
  <2>2. kind[Parent(run[w].job)] = "legacy" => Cardinality(Unended(Parent(run[w].job))) <= run[w].missing
    BY <1>1, <2>1 DEF Write, CountInv, ItemIsCounted
  <2>3. kind[Parent(run[w].job)] = "legacy" /\ ~(run[w].missing > 0) => HasEnded(Parent(run[w].job))
    BY <2>1, <2>2, NothingIsMissing
  <2>4. WriteAggregate(Parent(run[w].job), run[w].token, run[w].missing)
        /\ UNCHANGED <<kind, gen, checkpoint, attached, ended>>
    BY <1>1 DEF Write
  <2> QED
    BY <2>1, <2>3, <2>4, AggregateEvolves
<1>2. ASSUME NEW v \in Readers, WriteRead(v) PROVE Evolution
  <2>1. reader[v].root \in Roots /\ reader[v].missing \in Nat /\ reader[v].root # None
    BY <1>2, ParentFacts DEF WriteRead, GraphInv, IsRead, TypeOK, Jobs
  <2>2. HasEnded(reader[v].root) \/ reader[v].missing > 0
    BY <2>1, NothingIsMissing DEF CountInv, ReadIsCounted
  <2>3. WriteAggregate(reader[v].root, reader[v].token, reader[v].missing)
        /\ UNCHANGED <<kind, gen, checkpoint, attached, ended>>
    BY <1>2 DEF WriteRead
  <2> QED
    BY <2>1, <2>2, <2>3, AggregateEvolves
<1> QED
  BY <1>1, <1>2

(* An attempt that holds its batch is the only one that names or adds its  *)
(* items.                                                                  *)
LEMMA RunsEvolve ==
  ASSUME GraphInv, CountInv, NEW w \in Workers
  PROVE  /\ \A c \in Items : Dispatch(w, c) => Evolution
         /\ Defer(w) \/ Attach(w) => Evolution
<1> USE ParentFacts
<1>0. IsPlaced(w) /\ RunIsInOrder(w) /\ run \in [Workers -> Attempt]
  BY DEF GraphInv, TypeOK, CountInv
<1>1. ASSUME NEW c \in Items, Dispatch(w, c), status[c] \in Active PROVE Evolution
  BY <1>1, QuietEvolution DEF Dispatch, rows
<1>2. ASSUME NEW c \in Items, Dispatch(w, c), status[c] \notin Active PROVE Evolution
  <2> DEFINE r == run[w].job
  <2>1. /\ UNCHANGED <<kind, gen, checkpoint, attached>>
        /\ ended' = IF HoldsRow(w) THEN ended \ {c} ELSE ended
        /\ run[w].at = "dispatch" /\ c \in run[w].left /\ status[r] # "absent"
        /\ run' = [run EXCEPT ![w].left = @ \ {c}]
    BY <1>2 DEF Dispatch
  <2>2. \A k \in Jobs : status'[k] = IF k = c THEN "queued" ELSE status[k]
    BY <1>2 DEF Dispatch, SetStatus, GraphInv, TypeOK
  <2>3. r \in Roots /\ c \in Kids[r] /\ kind[r] = "canonical"
    BY <1>0, <2>1 DEF IsPlaced, RootPlaces, GraphInv, KindFits
  <2>4. run'[w] # run[w]
    BY <1>0, <2>1 DEF Attempt
  <2>5. HoldsRow(w) => ByHolder(r) /\ r \notin attached
    BY <1>0, <2>1, <2>3, <2>4 DEF ByHolder, RunIsInOrder
  <2>6. ~HoldsRow(w) => status[c] # "absent"
    BY <1>0, <2>1, <2>3 DEF RunIsInOrder, AllThere
  <2>7. Kept(r)
    <3>1. ASSUME NEW k \in Kids[r]
          PROVE  /\ status[k] # "absent" => status'[k] # "absent"
                 /\ status[k] = "absent" /\ status'[k] # "absent" => ByHolder(r) /\ r \notin attached
                 /\ k \in ended \ ended' => ByHolder(r) /\ r \notin attached /\ status[k] \notin Active
      <4>1. k # c => status'[k] = status[k]
        BY <2>2, <2>3 DEF Jobs
      <4>2. status'[c] # "absent"
        BY <2>2 DEF Jobs
      <4> QED
        BY <1>2, <2>1, <2>5, <2>6, <4>1, <4>2
    <3>2. status'[r] = status[r]
      BY <2>2, <2>3 DEF Jobs
    <3> QED
      BY <2>1, <3>1, <3>2 DEF Kept
  <2>8. ASSUME NEW q \in Roots, q # r PROVE Kept(q)
    <3>1. \A k \in Kids[q] : k # c /\ status'[k] = status[k]
      BY <2>2, <2>3, <2>8, GraphAssumption DEF Jobs
    <3>2. status'[q] = status[q]
      BY <2>2 DEF Jobs
    <3> QED
      BY <2>1, <3>1, <3>2 DEF Kept
  <2>9. \A v \in Workers : Loses(v)
    <3>1. SetStatus(c, "queued")
      BY <1>2 DEF Dispatch
    <3> QED
      BY <1>2, <2>1, <3>1, OneRowIsLost DEF Active, Status, Jobs
  <2>10. EndsAreKnown'
    BY <2>1, <2>2 DEF CountInv, EndsAreKnown, Jobs, Terminal
  <2>11. \A q \in Roots : Completes(q)
    BY <2>2 DEF Completes, Jobs
  <2> QED
    BY <2>7, <2>8, <2>9, <2>10, <2>11 DEF Evolution, Evolves
<1>3. ASSUME Defer(w) \/ Attach(w) PROVE Evolution
  <2>0. PICK r \in Roots : r = run[w].job
    BY <1>0, <1>3 DEF Defer, Attach, IsPlaced, RootPlaces
  <2>1. /\ UNCHANGED <<kind, gen, ended>> /\ HoldsRow(w) /\ run[w].at \in {"defer", "attach"}
        /\ checkpoint' = IF run[w].at = "defer" THEN checkpoint \cup {r} ELSE checkpoint
        /\ attached' = IF run[w].at = "attach" THEN attached \cup {r} ELSE attached
    BY <1>3, <2>0 DEF Defer, Attach
  <2>2. r \in Roots /\ kind[r] = "canonical"
    BY <1>0, <2>0, <2>1 DEF IsPlaced, RootPlaces, GraphInv, KindFits, HoldsRow
  <2>3. \A k \in Jobs : status'[k] = IF k = r /\ run[w].at = "defer" THEN "queued" ELSE status[k]
    BY <1>3, <2>0 DEF Defer, Attach, SetStatus, GraphInv, TypeOK
  <2>4. run'[w] # run[w]
    BY <1>0, <1>3 DEF Defer, Attach, Leave, Goto, Idle, Attempt
  <2>5. ByHolder(r)
    BY <2>0, <2>1, <2>2, <2>4 DEF ByHolder
  <2>6. status[r] = "in_progress" /\ status'[r] # "absent" /\ r \in Jobs
    BY <2>0, <2>1, <2>2, <2>3 DEF HoldsRow, Jobs
  <2>7. run[w].at = "defer" => AllThere(r)
    BY <1>0, <2>0 DEF RunIsInOrder
  <2>8. run[w].at = "attach" => HasEnded(r)'
    BY <1>0, <2>0, <2>1, <2>2, <2>3 DEF RunIsInOrder, HasEnded, Jobs
  <2>9. ASSUME NEW q \in Roots PROVE Kept(q)
    <3>1. \A k \in Kids[q] : status'[k] = status[k]
      BY <2>2, <2>3 DEF Jobs
    <3>2. status'[q] = "absent" <=> status[q] = "absent"
      BY <2>3, <2>6 DEF Jobs
    <3> QED
      BY <2>1, <2>5, <2>7, <2>8, <3>1, <3>2 DEF Kept
  <2>10. ASSUME NEW v \in Workers PROVE Loses(v)
    <3>1. CASE v = w
      BY <2>4, <3>1 DEF Loses
    <3>2. CASE run[v].job # r /\ run[v].job # None
      <4>1. run[v].job \in Jobs
        BY <3>2, <1>0 DEF Attempt
      <4> QED
        BY <2>1, <2>3, <3>2, <4>1 DEF Loses, HoldsRow
    <3>3. CASE v # w /\ run[v].job = r
      <4>1. ~HoldsRow(v)
        BY <2>0, <2>1, <2>2, <3>3, HolderIsAlone DEF Jobs
      <4> QED
        BY <2>1, <2>3, <2>6, <3>3, <4>1 DEF Loses, HoldsRow
    <3> QED
      BY <3>1, <3>2, <3>3 DEF Loses
  <2>11. EndsAreKnown'
    BY <2>1, <2>3 DEF CountInv, EndsAreKnown, Jobs, Terminal
  <2>12. \A q \in Roots : Completes(q)
    BY <2>3 DEF Completes, Jobs
  <2> QED
    BY <2>9, <2>10, <2>11, <2>12 DEF Evolution, Evolves
<1> QED
  BY <1>1, <1>2, <1>3

LEMMA RemovalEvolves ==
  ASSUME GraphInv, CountInv, RemoveEligible
  PROVE  Evolution
<1> USE ParentFacts
<1> DEFINE gone == {r \in chosen : Eligible(r)}
<1>1. /\ gone \in SUBSET Roots /\ Remove(gone) /\ UNCHANGED run
      /\ \A r \in gone : Eligible(r)
  BY DEF RemoveEligible, GraphInv, TypeOK
<1> HIDE DEF gone
<1>2. /\ \A r \in Roots : status'[r] = IF r \in gone THEN "absent" ELSE status[r]
      /\ \A r \in Roots : \A c \in Kids[r] :
              status'[c] = IF r \in gone THEN "absent" ELSE status[c]
  BY <1>1, RemovesWholeGraphs
<1>3. /\ \A r \in Roots : kind'[r] = IF r \in gone THEN "none" ELSE kind[r]
      /\ checkpoint' = checkpoint \ gone /\ attached' = attached \ gone
      /\ ended' = ended \ UNION {Kids[r] : r \in gone}
  BY <1>1 DEF Remove
<1>4. \A r \in gone : status[r] \in Terminal /\ \A c \in Kids[r] : status[c] \in {"absent"} \cup Terminal
  BY <1>1 DEF Eligible, GraphOf, Present
<1>5. ASSUME NEW r \in Roots PROVE Evolves(r)
  <2>1. CASE r \in gone
    BY <1>2, <1>3, <1>4, <2>1 DEF Evolves, Removed, Terminal
  <2>2. CASE r \notin gone
    <3>1. \A c \in Kids[r] : c \in ended => c \in ended'
      BY <1>1, <1>3, <2>2, GraphAssumption
    <3> QED
      BY <1>2, <1>3, <2>2, <3>1 DEF Evolves, Kept
  <2> QED
    BY <2>1, <2>2
<1>6. ASSUME NEW j \in Jobs
      PROVE  \/ status'[j] = "absent" /\ status[j] # "in_progress"
             \/ status'[j] = status[j] /\ gen'[j] = gen[j] /\ (j \in ended => j \in ended')
  <2>1. PICK r \in Roots : j = r \/ j \in Kids[r]
    BY DEF Jobs
  <2>2. CASE r \in gone
    BY <1>2, <1>4, <2>1, <2>2 DEF Terminal
  <2>3. CASE r \notin gone
    <3>1. \A q \in gone : j \notin {q} \cup Kids[q]
      BY <1>1, <2>1, <2>3, GraphAssumption
    <3>2. gen'[j] = gen[j] /\ (j \in ended => j \in ended')
      BY <1>1, <1>3, <3>1 DEF Remove
    <3> QED
      BY <1>2, <2>1, <2>3, <3>2
  <2> QED
    BY <2>2, <2>3
<1>7. ASSUME NEW w \in Workers PROVE Loses(w)
  <2>1. run[w].job # None => run[w].job \in Jobs
    BY DEF GraphInv, TypeOK, Attempt
  <2> QED
    BY <1>6, <2>1 DEF Loses, HoldsRow
<1>8. EndsAreKnown'
  BY <1>6 DEF CountInv, EndsAreKnown, Jobs, Terminal
<1>9. \A r \in Roots : Completes(r)
  BY <1>2 DEF Completes
<1> QED
  BY <1>5, <1>7, <1>8, <1>9 DEF Evolution

LEMMA NextEvolves ==
  ASSUME GraphInv, CountInv, ~Zombies, [Next]_vars
  PROVE  Evolution
<1>1. ASSUME NEW r \in Roots, Age(r) \/ Select \/ UNCHANGED vars PROVE Evolution
  BY <1>1, QuietEvolution DEF Age, Select, vars, rows
<1>2. ASSUME NEW w \in Workers, Step(w) \/ Crash(w) \/ \E j \in Jobs : Claim(w, j) PROVE Evolution
  <2>1. ASSUME Summarize(w) \/ Count(w) \/ CountOwn(w) PROVE Evolution
    BY <2>1, QuietEvolution DEF Summarize, Count, CountOwn, rows
  <2>2. ASSUME NEW c \in Items, Load(w) \/ Dispatched(w) \/ Lookup(w) \/ Checked(w) \/ Check(w, c)
        PROVE  Evolution
    BY <2>2, QuietEvolution DEF Load, Dispatched, Lookup, Checked, Check, rows
  <2>3. ASSUME Load(w) \/ Dispatched(w) \/ Lookup(w) \/ Checked(w)
        PROVE  Evolution
    BY <2>3, QuietEvolution DEF Load, Dispatched, Lookup, Checked, rows
  <2> QED
    BY <1>2, <2>1, <2>2, <2>3, ClaimEvolves, EndsEvolve, WritesEvolve, RunsEvolve DEF Step, ItemStep, RunStep
<1>3. ASSUME NEW v \in Readers, NEW r \in Roots, Read(v, r) PROVE Evolution
  BY <1>3, QuietEvolution DEF Read, rows
<1>4. ASSUME Select \/ UNCHANGED vars PROVE Evolution
  BY <1>4, QuietEvolution DEF Select, vars, rows
<1> QED
  BY <1>1, <1>2, <1>3, <1>4, SubmissionEvolves, ClientsEvolve, WritesEvolve, RemovalEvolves DEF Next

-----------------------------------------------------------------------------
(* What this means for those who did not take the step.                    *)

LEMMA UnendedShrinks ==
  ASSUME NEW r \in Roots, Evolves(r), ~IsUnused(r), kind[r] # "canonical"
  PROVE  Unended(r)' \subseteq Unended(r)
BY DEF Evolves, Created, Removed, Kept, ByHolder, Unended, Present

LEMMA ResultsStayTrue ==
  ASSUME GraphInv, CountInv, Evolution
  PROVE  ResultsAreTrue'
<1>1. ASSUME NEW r \in Roots, r \in checkpoint' PROVE AllThere(r)'
  BY <1>1 DEF Evolution, Evolves, Created, Removed, Kept, AllThere, CountInv, ResultsAreTrue
<1>2. ASSUME NEW r \in Roots, r \in attached' PROVE HasEnded(r)'
  <2>1. Kept(r)
    BY <1>2 DEF Evolution, Evolves, Created, Removed
  <2>2. CASE r \in attached
    BY <2>1, <2>2 DEF Kept, HasEnded, CountInv, ResultsAreTrue
  <2>3. CASE r \notin attached
    BY <1>2, <2>1, <2>3 DEF Kept
  <2> QED
    BY <2>2, <2>3
<1> QED
  BY <1>1, <1>2 DEF ResultsAreTrue

LEMMA OthersStayCounted ==
  ASSUME GraphInv, CountInv, Evolution, TypeOK'
  PROVE  /\ \A w \in Workers : run'[w] = run[w] => ItemIsCounted(w)'
         /\ \A v \in Readers : reader'[v] = reader[v] => ReadIsCounted(v)'
<1> USE ParentFacts
<1>1. ASSUME NEW w \in Workers, run'[w] = run[w], run[w].job \in Items PROVE ItemIsCounted(w)'
  <2> DEFINE c == run[w].job
  <2>0. PICK r \in Roots : r = Parent(run[w].job)
    BY <1>1
  <2>1. /\ ItemIsCounted(w) /\ HoldsRow(w) /\ Loses(w) /\ r \in Roots /\ c \in Kids[r]
        /\ Evolves(r) /\ ~IsUnused(r) /\ c # None
    BY <1>1, <2>0 DEF CountInv, ItemIsCounted, Evolution, IsUnused, Jobs
  <2>2. HoldsRow(w)'
    BY <1>1, <2>1 DEF Loses
  <2>3. Kept(r)
    BY <2>1 DEF Evolves, Created, Removed, HoldsRow, Terminal
  <2>4. c \in ended => c \in ended'
    BY <2>1, <2>3 DEF Kept, HoldsRow, Active
  <2>5. kind'[r] = "legacy" => Cardinality(Unended(r)') <= Cardinality(Unended(r))
    <3>1. kind'[r] = "legacy" => Unended(r)' \subseteq Unended(r)
      BY <2>1, <2>3, UnendedShrinks DEF Kept
    <3>2. Unended(r) \in SUBSET Kids[r]
      BY DEF Unended, Present
    <3> QED
      BY <2>1, <3>1, <3>2, CountFacts
  <2>6. Cardinality(Unended(r)) \in Nat /\ Cardinality(Unended(r)') \in Nat /\ run[w].missing \in Nat
    <3>1. Unended(r) \in SUBSET Kids[r] /\ Unended(r)' \in SUBSET Kids[r]
      BY DEF Unended, Present
    <3> QED
      BY <2>1, <3>1, CountFacts DEF GraphInv, TypeOK, Attempt
  <2>7. kind'[r] = kind[r]
    BY <2>3 DEF Kept
  <2>8. Parent(run[w].job)' = r
    BY <1>1, <2>0
  <2> QED
    BY <1>1, <2>0, <2>1, <2>2, <2>4, <2>5, <2>6, <2>7, <2>8 DEF ItemIsCounted
<1>2. ASSUME NEW v \in Readers, reader'[v] = reader[v], reader[v].root # None PROVE ReadIsCounted(v)'
  <2>0. PICK r \in Roots : r = reader[v].root
    BY <1>2 DEF GraphInv, TypeOK
  <2>1. /\ r \in Roots /\ ReadIsCounted(v) /\ kind[r] # "canonical" /\ reader[v].missing \in Nat
        /\ Evolves(r) /\ ~IsUnused(r)
    BY <1>2, <2>0 DEF GraphInv, TypeOK, IsRead, CountInv, Evolution, IsUnused
  <2>2. Unended(r)' \subseteq Unended(r)
    BY <2>1, UnendedShrinks
  <2>3. Unended(r) \in SUBSET Kids[r] /\ Unended(r)' \in SUBSET Kids[r]
    BY DEF Unended, Present
  <2>4. /\ Cardinality(Unended(r)') <= Cardinality(Unended(r))
        /\ Cardinality(Unended(r)) \in Nat /\ Cardinality(Unended(r)') \in Nat
    BY <2>1, <2>2, <2>3, CountFacts
  <2> QED
    BY <1>2, <2>0, <2>1, <2>4 DEF ReadIsCounted
<1> QED
  BY <1>1, <1>2 DEF ItemIsCounted, ReadIsCounted

LEMMA OthersStayInOrder ==
  ASSUME GraphInv, CountInv, Evolution, NEW w \in Workers, run'[w] = run[w]
  PROVE  RunIsInOrder(w)'
<1> USE ParentFacts
<1>1. CASE run[w].at \notin RootPlaces
  BY <1>1 DEF RunIsInOrder, RootPlaces
<1>2. CASE run[w].at \in RootPlaces
  <2>0. PICK r \in Roots : r = run[w].job
    BY <1>2 DEF GraphInv, IsPlaced
  <2>1. /\ RunIsInOrder(w) /\ Loses(w) /\ Evolves(r) /\ ~IsUnused(r) /\ r # None
        /\ r \in checkpoint => AllThere(r)
    BY <2>0 DEF CountInv, ResultsAreTrue, Evolution, IsUnused, Jobs
  <2>2. HoldsRow(w)' => HoldsRow(w) /\ ~ByHolder(r) /\ Kept(r)
    <3>1. HoldsRow(w)' => HoldsRow(w)
      BY <2>0, <2>1 DEF Loses
    <3>2. HoldsRow(w) => ~ByHolder(r)
      BY <2>0, <2>1, HolderIsAlone DEF ByHolder
    <3>3. HoldsRow(w) => Kept(r)
      BY <2>0, <2>1 DEF Evolves, Created, Removed, HoldsRow, Terminal
    <3> QED
      BY <3>1, <3>2, <3>3
  <2>3. AllThere(r) => AllThere(r)'
    BY <2>1 DEF Evolves, Created, Removed, Kept, AllThere
  <2>4. kind'[r] = "canonical" => kind[r] = "canonical"
    BY <2>1 DEF Evolves, Created, Removed, Kept
  <2>5. HoldsRow(w) /\ ~HoldsRow(w)' /\ kind[r] = "canonical" => AllThere(r)
    BY <2>0, <2>1 DEF Loses
  <2>6. run'[w].job = r
    BY <2>0
  <2>7. run[w].at \in {"load", "dispatch", "lookup"} /\ kind'[r] = "canonical" =>
          HoldsRow(w)' \/ AllThere(r)'
    BY <2>0, <2>1, <2>3, <2>4, <2>5 DEF RunIsInOrder
  <2>8. run[w].at \in {"dispatch", "lookup"} /\ status'[r] # "absent" =>
          \A c \in Kids[r] \ run[w].left : status'[c] # "absent"
    BY <2>0, <2>1 DEF RunIsInOrder, Evolves, Created, Removed, Kept
  <2>9. run[w].at \in {"dispatch", "lookup"} /\ HoldsRow(w)' => r \notin checkpoint' \cup attached'
    BY <2>0, <2>1, <2>2 DEF RunIsInOrder, Kept
  <2>10. run[w].at \in {"defer", "check"} => AllThere(r)'
    BY <2>0, <2>1, <2>3 DEF RunIsInOrder
  <2>11. run[w].at = "check" /\ HoldsRow(w)' /\ ~run[w].busy =>
           \A c \in Kids[r] \ run[w].left : c \in ended'
    BY <2>0, <2>1, <2>2 DEF RunIsInOrder, Kept
  <2>12. run[w].at = "attach" /\ HoldsRow(w)' => HasEnded(r)'
    BY <2>0, <2>1, <2>2 DEF RunIsInOrder, Kept, HasEnded
  <2>13. run[w].at = "finish" /\ HoldsRow(w)' => r \in attached'
    BY <2>0, <2>1, <2>2 DEF RunIsInOrder, Kept, HoldsRow, Terminal
  <2> QED
    BY <2>6, <2>7, <2>8, <2>9, <2>10, <2>11, <2>12, <2>13 DEF RunIsInOrder
<1> QED
  BY <1>1, <1>2

-----------------------------------------------------------------------------
(* The slot that took the step.                                            *)

Counted(w) == ItemIsCounted(w) /\ RunIsInOrder(w)

LEMMA GensStayApart ==
  ASSUME CountInv, NEW w \in Workers, \A v \in Workers \ {w} : run'[v] = run[v],
         run'[w].job = None \/ (run'[w].job = run[w].job /\ run'[w].gen = run[w].gen)
  PROVE  GensDiffer'
BY DEF CountInv, GensDiffer

LEMMA IdleIsCounted == ASSUME NEW w \in Workers, run'[w] = Idle PROVE Counted(w)'
BY ParentFacts DEF Idle, Counted, ItemIsCounted, RunIsInOrder, Jobs

LEMMA ClaimIsCounted ==
  ASSUME GraphInv, CountInv, NEW w \in Workers, NEW j \in Jobs, Claim(w, j)
  PROVE  Counted(w)' /\ GensDiffer' /\ \A v \in Workers \ {w} : run'[v] = run[v]
<1> USE ParentFacts
<1>1. PICK g \in 0..MaxGen :
         /\ g \notin Remembered(j)
         /\ gen' = [gen EXCEPT ![j] = g]
         /\ run' = [run EXCEPT ![w] = [Idle EXCEPT !.job = j, !.gen = g,
                      !.at = IF j \in Items THEN "work" ELSE "load"]]
  BY DEF Claim, IsNewGen
<1>2. /\ run'[w].job = j /\ run'[w].gen = g
      /\ run'[w].at = IF j \in Items THEN "work" ELSE "load"
      /\ \A v \in Workers \ {w} : run'[v] = run[v]
  BY <1>1 DEF Idle, GraphInv, TypeOK
<1>3. HoldsRow(w)'
  BY <1>1, <1>2 DEF HoldsRow, Claim, SetStatus, GraphInv, TypeOK
<1>4. Counted(w)'
  BY <1>2, <1>3 DEF Counted, ItemIsCounted, RunIsInOrder
<1>5. \A v \in Workers \ {w} : run[v].job = j => run[v].gen # g
  BY <1>1 DEF Remembered
<1>6. GensDiffer'
  BY <1>2, <1>5 DEF CountInv, GensDiffer
<1> QED
  BY <1>2, <1>4, <1>6

LEMMA EndIsCounted ==
  ASSUME GraphInv, CountInv, NEW w \in Workers, Raise(w) \/ Complete(w) \/ Crash(w) \/ Defer(w)
  PROVE  Counted(w)' /\ GensDiffer' /\ \A v \in Workers \ {w} : run'[v] = run[v]
<1>1. run'[w] = Idle /\ \A v \in Workers \ {w} : run'[v] = run[v]
  BY DEF Raise, Complete, Crash, Defer, Leave, GraphInv, TypeOK
<1>2. run'[w].job = None
  BY <1>1 DEF Idle
<1> QED
  BY <1>1, <1>2, IdleIsCounted, GensStayApart

(* What an item's handler counts of a batch is at least what is unended.   *)
LEMMA MissingCoversUnended ==
  ASSUME CountInv, NEW r \in Roots, NEW c \in Kids[r], status[c] = "in_progress", c \in ended
  PROVE  Cardinality(Unended(r)) < Missing(r)
<1> DEFINE S == {k \in Present(r) : status[k] \notin Terminal}
<1>1. Unended(r) \in SUBSET S /\ S \in SUBSET Kids[r] /\ c \in S \ Unended(r)
  BY ParentFacts DEF Unended, Present, CountInv, EndsAreKnown, Terminal
<1>2. Cardinality(Unended(r)) < Cardinality(S)
  BY <1>1, CountFacts
<1> QED
  BY <1>2 DEF Missing

LEMMA ReadIsAccurate ==
  ASSUME CountInv, NEW r \in Roots
  PROVE  Cardinality(Unended(r)) <= Missing(r)
<1> DEFINE S == {k \in Present(r) : status[k] \notin Terminal}
<1>1. Unended(r) \in SUBSET S /\ S \in SUBSET Kids[r]
  BY ParentFacts DEF Unended, Present, CountInv, EndsAreKnown
<1>2. Cardinality(Unended(r)) <= Cardinality(S)
  BY <1>1, CountFacts
<1> QED
  BY <1>2 DEF Missing

LEMMA ItemStepIsCounted ==
  ASSUME GraphInv, CountInv, NEW w \in Workers, ItemStep(w)
  PROVE  Counted(w)' /\ GensDiffer' /\ \A v \in Workers \ {w} : run'[v] = run[v]
<1> USE ParentFacts
<1>1. PICK c \in Items : c = run[w].job
  BY DEF ItemStep, Summarize, Count, CountOwn, Write, GraphInv, IsPlaced, ItemPlaces
<1>2. PICK r \in Roots : r = Parent(c) /\ c \in Kids[r]
  OBVIOUS
<1>3. /\ ItemIsCounted(w) /\ HoldsRow(w) /\ status[c] = "in_progress"
      /\ run[w] \in Attempt /\ run \in [Workers -> Attempt]
  BY <1>1 DEF CountInv, ItemIsCounted, HoldsRow, GraphInv, TypeOK
<1>4. /\ run'[w].job = c /\ run'[w].gen = run[w].gen
      /\ run'[w].at \in {"count", "own", "write", "commit"}
      /\ \A v \in Workers \ {w} : run'[v] = run[v]
  <2>1. CASE Summarize(w)
    BY <1>1, <1>3, <2>1 DEF Summarize, Goto, Attempt
  <2>2. CASE Count(w)
    BY <1>1, <1>3, <2>2 DEF Count, Attempt
  <2>3. CASE CountOwn(w)
    BY <1>1, <1>3, <2>3 DEF CountOwn, Attempt
  <2>4. CASE Write(w)
    BY <1>1, <1>3, <2>4 DEF Write, Attempt
  <2> QED
    BY <2>1, <2>2, <2>3, <2>4 DEF ItemStep
<1>5. UNCHANGED <<kind, gen>> /\ \A k \in Items : status'[k] = status[k]
  <2>1. CASE Write(w)
    BY <1>1, <1>2, <2>1 DEF Write, WriteAggregate, SetStatus, GraphInv, TypeOK, Jobs
  <2>2. CASE ~Write(w)
    BY <2>2 DEF ItemStep, Summarize, Count, CountOwn, rows
  <2> QED
    BY <2>1, <2>2
<1>6. HoldsRow(w)'
  BY <1>1, <1>3, <1>4, <1>5 DEF HoldsRow
<1>7. c \in ended'
  BY <1>1, <1>3 DEF ItemStep, Summarize, Count, CountOwn, Write, ItemIsCounted
<1>8. /\ kind[r] = "legacy" /\ run'[w].at = "own" => Cardinality(Unended(r)') < run'[w].missing
      /\ kind[r] = "legacy" /\ run'[w].at = "write" => Cardinality(Unended(r)') <= run'[w].missing
  <2>1. CASE Summarize(w)
    BY <1>3, <2>1 DEF Summarize, Goto
  <2>2. CASE Count(w)
    <3>1. Unended(r)' = Unended(r)
      BY <2>2 DEF Count, rows, Unended, Present
    <3>2. Cardinality(Unended(r)) < Missing(r)
      BY <1>1, <1>2, <1>3, <2>2, MissingCoversUnended DEF Count, ItemIsCounted
    <3>3. run'[w].at = "own" => run'[w].missing = Missing(r)
      BY <1>1, <1>2, <1>3, <2>2 DEF Count, Attempt
    <3>4. run'[w].at # "write"
      BY <1>3, <2>2 DEF Count, Attempt
    <3> QED
      BY <3>1, <3>2, <3>3, <3>4
  <2>3. CASE CountOwn(w)
    <3>1. Unended(r)' = Unended(r)
      BY <2>3 DEF CountOwn, rows, Unended, Present
    <3>2. kind[r] = "legacy" => Cardinality(Unended(r)) < run[w].missing
      BY <1>1, <1>2, <1>3, <2>3 DEF CountOwn, ItemIsCounted
    <3>3. Unended(r) \in SUBSET Kids[r]
      BY DEF Unended, Present
    <3>4. Cardinality(Unended(r)) \in Nat /\ run[w].missing \in Nat
      BY <1>3, <3>3, CountFacts DEF Attempt
    <3>5. run'[w].at = "write" /\ (run[w].missing > 0 => run'[w].missing = run[w].missing - 1)
      BY <1>1, <1>3, <2>3 DEF CountOwn, Attempt
    <3> QED
      BY <3>1, <3>2, <3>4, <3>5
  <2>4. CASE Write(w)
    BY <1>3, <2>4 DEF Write, Attempt
  <2> QED
    BY <2>1, <2>2, <2>3, <2>4 DEF ItemStep
<1>9. Parent(run'[w].job) = r
  BY <1>2, <1>4
<1>10. ItemIsCounted(w)'
  BY <1>4, <1>5, <1>6, <1>7, <1>8, <1>9 DEF ItemIsCounted
<1>11. RunIsInOrder(w)'
  BY <1>4 DEF RunIsInOrder
<1> QED
  BY <1>1, <1>4, <1>10, <1>11, GensStayApart DEF Counted

LEMMA RunStepIsCounted ==
  ASSUME GraphInv, CountInv, NEW w \in Workers, RunStep(w), ~Defer(w)
  PROVE  Counted(w)' /\ GensDiffer' /\ \A v \in Workers \ {w} : run'[v] = run[v]
<1> USE ParentFacts
<1>1. PICK r \in Roots : r = run[w].job
  BY DEF RunStep, Load, Dispatched, Lookup, Checked, Attach, Dispatch, Check, GraphInv, IsPlaced,
         RootPlaces
<1>2. /\ RunIsInOrder(w) /\ IsPlaced(w) /\ run[w] \in Attempt /\ run \in [Workers -> Attempt]
      /\ r \notin Items /\ ResultsAreTrue
  BY <1>1 DEF CountInv, GraphInv, TypeOK
<1>3. \/ Load(w) \/ Dispatched(w) \/ Lookup(w) \/ Checked(w) \/ Attach(w)
      \/ \E c \in Items : Dispatch(w, c)
      \/ \E c \in Items : Check(w, c)
  BY DEF RunStep
<1>4. /\ run'[w].job = r /\ run'[w].gen = run[w].gen
      /\ \A v \in Workers \ {w} : run'[v] = run[v]
  <2>1. CASE Load(w) \/ Dispatched(w) \/ Lookup(w) \/ Checked(w) \/ Attach(w)
    BY <1>1, <1>2, <2>1 DEF Load, Dispatched, Lookup, Checked, Attach, Goto, Attempt
  <2>2. ASSUME NEW c \in Items, Dispatch(w, c) \/ Check(w, c)
        PROVE  run'[w].job = r /\ run'[w].gen = run[w].gen /\ \A v \in Workers \ {w} : run'[v] = run[v]
    BY <1>1, <1>2, <2>2 DEF Dispatch, Check, Attempt
  <2> QED
    BY <1>3, <2>1, <2>2
<1>5. ItemIsCounted(w)'
  BY <1>2, <1>4 DEF ItemIsCounted
<1>6. RunIsInOrder(w)'
  <2>1. CASE Load(w)
    <3>1. /\ UNCHANGED <<kind, status, gen, checkpoint, attached, ended>> /\ kind[r] = "canonical"
          /\ run[w].at = "load"
          /\ run'[w].at = IF r \in attached THEN "attach" ELSE IF r \in checkpoint THEN "check" ELSE "dispatch"
          /\ r \notin attached => run'[w].left = Kids[r]
      BY <1>1, <1>2, <2>1 DEF Load, rows, Attempt
    <3>2. HoldsRow(w)' <=> HoldsRow(w)
      BY <1>1, <1>4, <3>1 DEF HoldsRow
    <3>3. (r \in checkpoint => AllThere(r)') /\ (r \in attached => HasEnded(r)')
      BY <1>2, <3>1 DEF ResultsAreTrue, AllThere, HasEnded
    <3>4. HoldsRow(w) \/ AllThere(r)'
      BY <1>1, <1>2, <3>1 DEF RunIsInOrder, AllThere
    <3> QED
      BY <1>4, <3>1, <3>2, <3>3, <3>4 DEF RunIsInOrder
  <2>2. CASE Dispatched(w)
    <3>1. /\ UNCHANGED <<kind, status, gen, checkpoint, attached, ended>>
          /\ run[w].at = "dispatch" /\ run[w].left = {} /\ run'[w].at = "defer"
      BY <1>2, <2>2 DEF Dispatched, Goto, rows, Attempt
    <3>2. AllThere(r)'
      BY <1>1, <1>2, <3>1 DEF RunIsInOrder, AllThere
    <3> QED
      BY <1>4, <3>1, <3>2 DEF RunIsInOrder
  <2>3. CASE Lookup(w)
    <3>1. /\ UNCHANGED <<kind, status, gen, checkpoint, attached, ended>>
          /\ run[w].at = "lookup" /\ run'[w].at = "dispatch" /\ run'[w].left = run[w].left
      BY <1>2, <2>3 DEF Lookup, rows, Attempt
    <3>2. HoldsRow(w)' <=> HoldsRow(w)
      BY <1>1, <1>4, <3>1 DEF HoldsRow
    <3>3. AllThere(r)' <=> AllThere(r)
      BY <3>1 DEF AllThere
    <3> QED
      BY <1>1, <1>2, <1>4, <3>1, <3>2, <3>3 DEF RunIsInOrder
  <2>4. CASE Checked(w)
    <3>1. /\ UNCHANGED <<kind, status, gen, checkpoint, attached, ended>>
          /\ run[w].at = "check" /\ run[w].left = {}
          /\ run'[w].at = IF run[w].busy THEN "defer" ELSE "attach"
      BY <1>2, <2>4 DEF Checked, rows, Attempt
    <3>2. HoldsRow(w)' <=> HoldsRow(w)
      BY <1>1, <1>4, <3>1 DEF HoldsRow
    <3>3. AllThere(r)' /\ (HoldsRow(w) /\ ~run[w].busy => HasEnded(r)')
      BY <1>1, <1>2, <3>1 DEF RunIsInOrder, AllThere, HasEnded
    <3> QED
      BY <1>4, <3>1, <3>2, <3>3 DEF RunIsInOrder
  <2>5. CASE Attach(w)
    <3>1. run'[w].at = "finish" /\ r \in attached'
      BY <1>1, <1>2, <2>5 DEF Attach, Goto, Attempt
    <3> QED
      BY <1>4, <3>1 DEF RunIsInOrder
  <2>6. ASSUME NEW c \in Items, Check(w, c) PROVE RunIsInOrder(w)'
    <3>1. /\ UNCHANGED <<kind, status, gen, checkpoint, attached, ended>>
          /\ run[w].at = "check" /\ run'[w].at = "check" /\ run'[w].left = run[w].left \ {c}
          /\ ~run'[w].busy => ~run[w].busy /\ status[c] \notin Active
          /\ c \in Kids[r]
      BY <1>1, <1>2, <2>6 DEF Check, rows, Attempt, IsPlaced
    <3>2. HoldsRow(w)' <=> HoldsRow(w)
      BY <1>1, <1>4, <3>1 DEF HoldsRow
    <3>3. AllThere(r) /\ AllThere(r)'
      BY <1>1, <1>2, <3>1 DEF RunIsInOrder, AllThere
    <3>4. HoldsRow(w) /\ ~run'[w].busy => c \in ended
      <4>1. HoldsRow(w) => status[c] # "absent"
        BY <1>1, <3>1, <3>3 DEF HoldsRow, AllThere
      <4>2. c \in Items /\ c \in Jobs
        BY DEF Jobs
      <4> QED
        BY <3>1, <4>1, <4>2 DEF GraphInv, TypeOK, Status, CountInv, EndsAreKnown
    <3>5. HoldsRow(w) /\ ~run'[w].busy => \A k \in Kids[r] \ run'[w].left : k \in ended'
      BY <1>1, <1>2, <3>1, <3>4 DEF RunIsInOrder
    <3> QED
      BY <1>4, <3>1, <3>2, <3>3, <3>5 DEF RunIsInOrder
  <2>7. ASSUME NEW c \in Items, Dispatch(w, c) PROVE RunIsInOrder(w)'
    <3>1. /\ UNCHANGED <<kind, gen, checkpoint, attached>>
          /\ run[w].at = "dispatch" /\ run'[w].at \in {"dispatch", "lookup"}
          /\ run'[w].left = run[w].left \ {c} /\ c \in Kids[r]
      BY <1>1, <1>2, <2>7 DEF Dispatch, rows, Attempt, IsPlaced
    <3>2. status'[r] = status[r] /\ \A k \in Kids[r] : status'[k] = status[k] \/ (k = c /\ status'[k] # "absent")
      BY <2>7 DEF Dispatch, rows, SetStatus, GraphInv, TypeOK, Jobs
    <3>3. HoldsRow(w)' <=> HoldsRow(w)
      BY <1>1, <1>4, <3>1, <3>2 DEF HoldsRow
    <3>4. AllThere(r) => AllThere(r)'
      BY <3>2 DEF AllThere
    <3>5. status'[c] # "absent"
      BY <2>7 DEF Dispatch, rows, SetStatus, GraphInv, TypeOK, Jobs, Active
    <3>6. status'[r] # "absent" => \A k \in Kids[r] \ run'[w].left : status'[k] # "absent"
      BY <1>1, <1>2, <3>1, <3>2, <3>5 DEF RunIsInOrder
    <3> QED
      BY <1>1, <1>2, <1>4, <3>1, <3>3, <3>4, <3>6 DEF RunIsInOrder
  <2> QED
    BY <1>3, <2>1, <2>2, <2>3, <2>4, <2>5, <2>6, <2>7
<1> QED
  BY <1>1, <1>4, <1>5, <1>6, GensStayApart DEF Counted

-----------------------------------------------------------------------------
(* The count is inductive.                                                 *)

LEMMA InitCount == Init => CountInv
<1> SUFFICES ASSUME Init PROVE CountInv
  OBVIOUS
<1>1. GensDiffer /\ \A w \in Workers : ItemIsCounted(w) /\ RunIsInOrder(w)
  BY ParentFacts DEF Init, GensDiffer, Idle, ItemIsCounted, RunIsInOrder, Jobs
<1>2. EndsAreKnown /\ ResultsAreTrue
  BY ParentFacts DEF Init, EndsAreKnown, ResultsAreTrue, Jobs, Terminal
<1>3. \A v \in Readers : ReadIsCounted(v)
  BY DEF Init, NoAggregate, ReadIsCounted
<1> QED
  BY <1>1, <1>2, <1>3 DEF CountInv

LEMMA NextCount == ~Zombies /\ GraphInv /\ CountInv /\ [Next]_vars => CountInv' /\ Evolution
<1> SUFFICES ASSUME ~Zombies, GraphInv, CountInv, [Next]_vars
             PROVE  CountInv' /\ Evolution
  OBVIOUS
<1>1. Evolution /\ GraphInv'
  BY NextEvolves, NextGraph
<1>2. ResultsAreTrue' /\ EndsAreKnown'
  BY <1>1, ResultsStayTrue DEF Evolution
<1>3. \A w \in Workers : run'[w] = run[w] => Counted(w)'
  BY <1>1, OthersStayCounted, OthersStayInOrder DEF GraphInv, Counted
<1>4. \A v \in Readers : reader'[v] = reader[v] => ReadIsCounted(v)'
  BY <1>1, OthersStayCounted DEF GraphInv
<1>5. (\A w \in Workers : Counted(w)') /\ GensDiffer'
  <2>1. ASSUME NEW w \in Workers, Step(w) \/ Crash(w) \/ \E j \in Jobs : Claim(w, j)
        PROVE  (\A v \in Workers : Counted(v)') /\ GensDiffer'
    <3>1. Counted(w)' /\ GensDiffer' /\ \A v \in Workers \ {w} : run'[v] = run[v]
      BY <2>1, ClaimIsCounted, EndIsCounted, ItemStepIsCounted, RunStepIsCounted DEF Step
    <3> QED
      BY <1>3, <3>1
  <2>2. CASE UNCHANGED run
    BY <1>3, <2>2 DEF CountInv, GensDiffer
  <2> QED
    BY <2>1, <2>2 DEF Next, vars, rows, SubmitRun, SubmitBatch, Age, Cancel, Retry, Sweep, WriteRead, Read,
       Select, RemoveEligible
<1>6. \A v \in Readers : ReadIsCounted(v)'
  <2>1. ASSUME NEW v \in Readers, NEW r \in Roots, Read(v, r) PROVE \A u \in Readers : ReadIsCounted(u)'
    <3>1. /\ \A u \in Readers \ {v} : reader'[u] = reader[u]
          /\ reader'[v].root = r /\ reader'[v].missing = Missing(r)
      BY <2>1 DEF Read, GraphInv, TypeOK
    <3>2. Unended(r)' = Unended(r)
      BY <2>1 DEF Read, rows, Unended, Present
    <3>3. ReadIsCounted(v)'
      BY <3>1, <3>2, ReadIsAccurate DEF ReadIsCounted
    <3> QED
      BY <1>4, <3>1, <3>3
  <2>2. ASSUME NEW v \in Readers, WriteRead(v) PROVE \A u \in Readers : ReadIsCounted(u)'
    BY <1>4, <2>2 DEF WriteRead, GraphInv, TypeOK, NoAggregate, ReadIsCounted
  <2>3. CASE UNCHANGED reader
    BY <1>4, <2>3
  <2>4. ASSUME NEW w \in Workers, Step(w) \/ Crash(w) \/ \E j \in Jobs : Claim(w, j) PROVE UNCHANGED reader
    BY <2>4 DEF Step, ItemStep, RunStep, Summarize, Count, CountOwn, Write, Load, Dispatched, Lookup,
       Checked, Defer, Attach, Dispatch, Check, Raise, Complete, Crash, Claim
  <2> QED
    BY <2>1, <2>2, <2>3, <2>4 DEF Next, vars, rows, SubmitRun, SubmitBatch, Age, Cancel, Retry, Sweep,
       Select, RemoveEligible
<1> QED
  BY <1>1, <1>2, <1>5, <1>6 DEF CountInv, Counted

LEMMA CountAlways == ~Zombies => (Spec => [](GraphInv /\ CountInv))
<1> SUFFICES ASSUME ~Zombies PROVE Spec => [](GraphInv /\ CountInv)
  OBVIOUS
<1>1. GraphInv /\ CountInv /\ [Next]_vars => (GraphInv /\ CountInv)'
  BY NextGraph, NextCount
<1> QED
  BY <1>1, InitGraph, InitCount, PTL DEF Spec

(* Every step satisfies NoItemIsForgotten, unless a slot outlives the      *)
(* sweep of its row: a batch is completed, by whoever completes it, when   *)
(* all its items have ended or been summarized.                            *)
THEOREM BatchesWaitForTheirItems == ~Zombies => (Spec => NoItemIsForgotten)
<1> SUFFICES ASSUME ~Zombies PROVE Spec => NoItemIsForgotten
  OBVIOUS
<1> DEFINE Waits == \A r \in Roots :
                      status[r] # "completed" /\ status'[r] = "completed"
                        => \A c \in Kids[r] : status'[c] # "absent" => c \in ended'
<1>1. GraphInv /\ CountInv /\ [Next]_vars => Waits
  BY NextCount DEF Evolution, Completes, HasEnded
<1>2. GraphInv /\ CountInv /\ [Next]_vars => [Waits]_vars
  BY <1>1
<1> QED
  BY <1>2, CountAlways, PTL DEF Spec, NoItemIsForgotten

=============================================================================
