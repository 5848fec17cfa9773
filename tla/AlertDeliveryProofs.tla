------------------------- MODULE AlertDeliveryProofs -------------------------
(***************************************************************************)
(* Theorems about AlertDelivery, for every set of events and workers and   *)
(* every retry policy.  One inductive invariant, Inv, carries the safety   *)
(* properties; it adds to them why a recovered lease can never be mistaken *)
(* for the one it replaced.                                                *)
(***************************************************************************)
EXTENDS AlertDelivery, TLAPS

(* What a row may not be: leased although its envelope is corrupt, or      *)
(* without the key that its event was given.                               *)
RowsSound ==
  \A e \in Events :
    /\ delivery[e].status # "none" => delivery[e].key = 1
    /\ delivery[e].status = "none" /\ event[e] # "removed" => keys[e] = 0
    /\ e \in corrupt => delivery[e].status # "leased"
    /\ e \in corrupt /\ delivery[e].status = "pending" => delivery[e].attempts = 0

(* A lease as young as leases can be is the one its row has, or its row    *)
(* is not due: it waits, is settled or is gone with its event.             *)
FreshLeasesHold ==
  \A c \in claims : c.left = LeaseTime =>
    \/ delivery[c.event].status = "leased" /\ delivery[c.event].left = LeaseTime
    \/ delivery[c.event].status = "pending" /\ delivery[c.event].wait > 0
    \/ delivery[c.event].status \in Settled
    \/ delivery[c.event].status = "none" /\ event[c.event] = "removed"

(* Two unexpired claims of an event were claimed at different times.       *)
LeasesDiffer ==
  \A c1, c2 \in claims :
    c1.event = c2.event /\ c1.left = c2.left /\ c1.left > 0 => c1 = c2

(* Every claim and every acceptance is of the first key of its event.      *)
OneKey ==
  /\ \A c \in claims : c.key = 1
  /\ \A r \in received : r[2] = 1

Typed == TypeOK /\ RowsSound

Inv == Typed /\ FreshLeasesHold /\ LeasesDiffer /\ OneKey /\ RetriesComeInTime

-----------------------------------------------------------------------------
(* Lemmas about rows.                                                      *)

(* A settled row is a row, and it does not wait for anything.              *)
LEMMA SettleTyped ==
  ASSUME NEW row \in Row, NEW s \in Settled
  PROVE  /\ Settle(row, s) \in Row
         /\ Settle(row, s).status = s
         /\ Settle(row, s).wait = 0
         /\ Settle(row, s).key = row.key
<1>1. row.attempts \in 0..MaxAttempts /\ row.key \in 0..MaxKeys /\ 0 \in 0..LeaseTime
  BY PolicyAssumption DEF Row
<1> QED
  BY <1>1 DEF Settle, Row, Settled, Statuses

(* A failed attempt is followed by a positive delay.                       *)
LEMMA DelayPositive ==
  ASSUME NEW n \in 1..MaxAttempts, NEW hint \in Nat
  PROVE  RetryDelay(n, hint) \in Nat \ {0}
<1>1. BaseBackoff * 2^(n - 1) \in Nat \ {0}
  BY BackoffAssumption
<1> DEFINE exp == BaseBackoff * 2^(n - 1)
<1>2. exp \in Nat \ {0}
  BY <1>1
<1> HIDE DEF exp
<1>3. RetryDelay(n, hint) = Larger(Least(exp, MaxBackoff), Least(hint, MaxRetryAfter))
  BY DEF RetryDelay, exp
<1>4. MaxBackoff \in Nat \ {0} /\ MaxRetryAfter \in Nat
  BY PolicyAssumption
<1> QED
  BY <1>2, <1>3, <1>4 DEF Larger, Least

(* What a claim makes of a due row: it is settled, or leased afresh.       *)
LEMMA ClaimedTyped ==
  ASSUME Typed, NEW e \in Due
  PROVE  /\ Claimed(e) \in Row
         /\ Claimed(e).wait = 0
         /\ Claimed(e).key = delivery[e].key
         /\ \/ Claimed(e).status \in Settled
            \/ /\ Claimed(e).status = "leased"
               /\ Claimed(e).left = LeaseTime
               /\ Claimed(e).attempts \in 1..MaxAttempts
               /\ e \notin corrupt
<1>1. e \in Events /\ delivery[e] \in Row /\ delivery[e].wait = 0
      /\ delivery[e].status \in {"pending", "leased"}
  BY DEF Typed, TypeOK, Due
<1>2. CASE e \in corrupt
  <2>1. delivery[e].attempts = 0
    BY <1>1, <1>2 DEF Typed, RowsSound
  <2>2. [delivery[e] EXCEPT !.attempts = @ + 1] \in Row
    BY <1>1, <2>1, PolicyAssumption DEF Row
  <2>3. Claimed(e) = Settle([delivery[e] EXCEPT !.attempts = @ + 1], "permanent_failure")
    BY <1>2 DEF Claimed
  <2> QED
    BY <1>1, <2>2, <2>3, SettleTyped DEF Settled, Row
<1>3. CASE e \notin corrupt /\ (delivery[e].attempts >= MaxAttempts \/ delivery[e].age >= MaxAge)
  <2>1. Claimed(e) = Settle(delivery[e], "exhausted")
    BY <1>3 DEF Claimed
  <2> QED
    BY <1>1, <2>1, SettleTyped DEF Settled
<1>4. CASE e \notin corrupt /\ ~(delivery[e].attempts >= MaxAttempts \/ delivery[e].age >= MaxAge)
  <2>1. Claimed(e) = Lease(delivery[e])
    BY <1>4 DEF Claimed
  <2>2. delivery[e].attempts + 1 \in 1..MaxAttempts
    BY <1>1, <1>4, PolicyAssumption DEF Row
  <2>3. Claimed(e) =
          [status |-> "leased", attempts |-> delivery[e].attempts + 1,
           wait |-> 0, left |-> LeaseTime, age |-> delivery[e].age,
           key |-> delivery[e].key]
    BY <1>1, <2>1 DEF Lease, Row
  <2>4. /\ delivery[e].age \in Nat /\ delivery[e].key \in 0..MaxKeys
        /\ LeaseTime \in 0..LeaseTime
    BY <1>1, PolicyAssumption DEF Row
  <2> QED
    BY <1>4, <2>2, <2>3, <2>4 DEF Row, Statuses
<1> QED
  BY <1>2, <1>3, <1>4

(* What a failed attempt makes of its row: it is settled, or it waits, and *)
(* not beyond the life of its delivery.                                    *)
LEMMA FailedTyped ==
  ASSUME NEW row \in Row, NEW c \in ClaimRecord, NEW hint \in Nat
  PROVE  /\ Failed(row, c, hint) \in Row
         /\ Failed(row, c, hint).key = row.key
         /\ \/ Failed(row, c, hint).status \in Settled /\ Failed(row, c, hint).wait = 0
            \/ /\ Failed(row, c, hint).status = "pending"
               /\ Failed(row, c, hint).wait > 0
               /\ Failed(row, c, hint).age + Failed(row, c, hint).wait <= MaxAge
<1> DEFINE delay == RetryDelay(c.attempts, hint)
<1>1. delay \in Nat \ {0}
  BY DelayPositive DEF ClaimRecord
<1>2. CASE c.answer = "permanent"
  <2>1. Failed(row, c, hint) = Settle(row, "permanent_failure")
    BY <1>2 DEF Failed
  <2> QED
    BY <2>1, SettleTyped DEF Settled
<1>3. CASE c.answer # "permanent" /\ ShouldExhaust(c.attempts, row.age, delay)
  <2>1. Failed(row, c, hint) = Settle(row, "exhausted")
    BY <1>3 DEF Failed
  <2> QED
    BY <2>1, SettleTyped DEF Settled
<1>4. CASE c.answer # "permanent" /\ ~ShouldExhaust(c.attempts, row.age, delay)
  <2>1. Failed(row, c, hint) = [row EXCEPT !.status = "pending", !.left = 0, !.wait = delay]
    BY <1>4 DEF Failed
  <2>2. row.age + delay <= MaxAge
    BY <1>1, <1>4, PolicyAssumption DEF ShouldExhaust, Row
  <2> HIDE DEF delay
  <2>3. Failed(row, c, hint) =
          [status |-> "pending", attempts |-> row.attempts, wait |-> delay,
           left |-> 0, age |-> row.age, key |-> row.key]
    BY <2>1 DEF Row
  <2>4. /\ row.attempts \in 0..MaxAttempts /\ row.key \in 0..MaxKeys
        /\ 0 \in 0..LeaseTime /\ row.age \in Nat
    BY PolicyAssumption DEF Row
  <2> QED
    BY <1>1, <2>2, <2>3, <2>4 DEF Row, Statuses
<1> QED
  BY <1>2, <1>3, <1>4

(* Time leaves a row what it is, and counts it down.                       *)
LEMMA LaterTyped ==
  ASSUME NEW row \in Row
  PROVE  /\ Later(row) \in Row
         /\ Later(row).status = row.status
         /\ Later(row).key = row.key
         /\ Later(row).attempts = row.attempts
         /\ Later(row).left = CountDown(row.left)
         /\ Later(row).wait = CountDown(row.wait)
         /\ Later(row).age \in Nat /\ Later(row).age <= row.age + 1
<1>1. Older(row) \in Nat /\ Older(row) <= row.age + 1
  <2>1. row.age \in Nat /\ Keep(row.status) \in Nat
    BY PolicyAssumption DEF Row, Keep
  <2> QED
    BY <2>1, PolicyAssumption DEF Older, Least
<1>2. CountDown(row.left) \in 0..LeaseTime /\ CountDown(row.wait) \in Nat
  BY PolicyAssumption DEF CountDown, Row
<1> QED
  BY <1>1, <1>2 DEF Later, Row


-----------------------------------------------------------------------------
(* The invariant.                                                          *)

(* Nothing has happened to any row yet.                                    *)
LEMMA InitInv == Init => Inv
<1> SUFFICES ASSUME Init PROVE Inv
  OBVIOUS
<1>1. NoRow \in Row
  BY PolicyAssumption DEF NoRow, Unclaimed, Row, Statuses
<1>2. TypeOK
  BY <1>1, AlertSetsAssumption, PolicyAssumption DEF Init, TypeOK
<1>3. RowsSound
  BY DEF Init, RowsSound, NoRow, Unclaimed
<1> QED
  BY <1>2, <1>3 DEF Init, Inv, Typed, FreshLeasesHold, LeasesDiffer, OneKey,
                    RetriesComeInTime, NoRow, Unclaimed

(* Classification makes an event ready and touches nothing else.           *)
LEMMA ClassifyInv ==
  ASSUME Inv, NEW e \in Events, Classify(e)
  PROVE  Inv'
<1> USE DEF Inv, Typed, TypeOK
<1>1. TypeOK'
  BY DEF Classify
<1>2. RowsSound'
  BY DEF Classify, RowsSound
<1>3. FreshLeasesHold' /\ LeasesDiffer' /\ OneKey' /\ RetriesComeInTime'
  BY DEF Classify, FreshLeasesHold, LeasesDiffer, OneKey, RetriesComeInTime, ClaimRecord
<1> QED
  BY <1>1, <1>2, <1>3

(* A new row gets the first key of its event, and no claim is that young.  *)
LEMMA EnsureInv ==
  ASSUME Inv, NEW e \in Events, Ensure(e)
  PROVE  Inv'
<1> DEFINE new == Unclaimed("pending", keys[e] + 1)
<1>1. keys[e] = 0
  BY DEF Ensure, Inv, Typed, RowsSound
<1>2. new = [status |-> "pending", attempts |-> 0, wait |-> 0, left |-> 0,
             age |-> 0, key |-> 1]
  BY <1>1 DEF Unclaimed
<1>3. new \in Row /\ new.status = "pending" /\ new.attempts = 0 /\ new.key = 1
      /\ new.wait = 0
  BY <1>2, PolicyAssumption DEF Row, Statuses
<1>4. delivery' = [delivery EXCEPT ![e] = new]
      /\ keys' = [keys EXCEPT ![e] = 1]
      /\ UNCHANGED <<event, claims, received, corrupt>>
  BY <1>1 DEF Ensure
<1> HIDE DEF new
<1>5. TypeOK'
  BY <1>3, <1>4, PolicyAssumption DEF Inv, Typed, TypeOK
<1>6. RowsSound'
  BY <1>3, <1>4 DEF Inv, Typed, TypeOK, RowsSound
<1>7. FreshLeasesHold'
  <2>1. \A c \in claims : c.event = e => c.left # LeaseTime
    BY DEF Inv, FreshLeasesHold, Ensure, Settled
  <2> QED
    BY <1>4, <2>1 DEF Inv, Typed, TypeOK, FreshLeasesHold, ClaimRecord
<1>8. LeasesDiffer' /\ OneKey'
  BY <1>4 DEF Inv, LeasesDiffer, OneKey
<1>9. RetriesComeInTime'
  BY <1>3, <1>4 DEF Inv, Typed, TypeOK, RetriesComeInTime
<1> QED
  BY <1>5, <1>6, <1>7, <1>8, <1>9 DEF Inv, Typed

(* A drain leases due rows only, and no claim on a due row is as young as  *)
(* the lease that it gives.                                                *)
LEMMA DrainInv ==
  ASSUME Inv, NEW w \in Workers, NEW batch \in SUBSET Due, Drain(w, batch)
  PROVE  Inv'
<1> DEFINE leased == {e \in batch : Claimed(e).status = "leased"}
           claim(e) == [worker |-> w, event |-> e, attempts |-> Claimed(e).attempts,
                        left |-> LeaseTime, key |-> delivery[e].key, answer |-> "none"]
<1>1. /\ delivery' = [e \in Events |-> IF e \in batch THEN Claimed(e) ELSE delivery[e]]
      /\ claims' = claims \cup {claim(e) : e \in leased}
      /\ UNCHANGED <<event, keys, received, corrupt>>
  BY DEF Drain
<1>2. \A e \in batch :
        /\ Claimed(e) \in Row
        /\ Claimed(e).wait = 0
        /\ Claimed(e).key = delivery[e].key
        /\ \/ Claimed(e).status \in Settled
           \/ /\ Claimed(e).status = "leased"
              /\ Claimed(e).left = LeaseTime
              /\ Claimed(e).attempts \in 1..MaxAttempts
              /\ e \notin corrupt
  BY ClaimedTyped DEF Inv
<1>3. \A e \in batch :
        /\ e \in Events /\ delivery[e].wait = 0 /\ delivery[e].key = 1
        /\ delivery[e].status = "pending" \/ delivery[e].left = 0
        /\ delivery[e].status \in {"pending", "leased"}
  BY DEF Due, Inv, Typed, RowsSound
<1>4. \A c \in claims : c \in ClaimRecord /\ c.event \in Events
  BY DEF Inv, Typed, TypeOK, ClaimRecord
<1>5. \A c \in claims : c.event \in batch => c.left # LeaseTime
  BY <1>3, PolicyAssumption DEF Inv, FreshLeasesHold, Settled
<1>6. \A e \in leased : claim(e) \in ClaimRecord
  <2>1. 1 \in 1..MaxKeys /\ LeaseTime \in 0..LeaseTime
    BY PolicyAssumption
  <2> QED
    BY <1>2, <1>3, <2>1 DEF ClaimRecord, Answers, Settled
<1>7. TypeOK'
  <2>1. delivery' \in [Events -> Row]
    BY <1>1, <1>2 DEF Inv, Typed, TypeOK
  <2>2. claims' \subseteq ClaimRecord
    BY <1>1, <1>4, <1>6
  <2> QED
    BY <1>1, <2>1, <2>2 DEF Inv, Typed, TypeOK
<1>8. RowsSound'
  <2> SUFFICES ASSUME NEW e \in Events
               PROVE  /\ delivery'[e].status # "none" => delivery'[e].key = 1
                      /\ delivery'[e].status = "none" /\ event[e] # "removed" => keys[e] = 0
                      /\ e \in corrupt => delivery'[e].status # "leased"
                      /\ e \in corrupt /\ delivery'[e].status = "pending"
                           => delivery'[e].attempts = 0
    BY <1>1 DEF RowsSound
  <2>1. CASE e \in batch
    BY <1>1, <1>2, <1>3, <2>1 DEF Settled
  <2>2. CASE e \notin batch
    BY <1>1, <2>2 DEF Inv, Typed, RowsSound
  <2> QED
    BY <2>1, <2>2
<1>9. FreshLeasesHold'
  <2> SUFFICES ASSUME NEW c \in claims', c.left = LeaseTime
               PROVE  \/ delivery'[c.event].status = "leased"
                         /\ delivery'[c.event].left = LeaseTime
                      \/ delivery'[c.event].status = "pending"
                         /\ delivery'[c.event].wait > 0
                      \/ delivery'[c.event].status \in Settled
                      \/ delivery'[c.event].status = "none"
                         /\ event'[c.event] = "removed"
    BY DEF FreshLeasesHold
  <2>1. CASE c \in claims
    <3>1. c.event \notin batch /\ c.event \in Events
      BY <1>4, <1>5, <2>1
    <3>2. delivery'[c.event] = delivery[c.event] /\ event'[c.event] = event[c.event]
      BY <1>1, <3>1
    <3> QED
      BY <2>1, <3>2 DEF Inv, FreshLeasesHold
  <2>2. CASE c \in {claim(e) : e \in leased}
    <3>1. PICK e \in leased : c = claim(e)
      BY <2>2
    <3>2. c.event = e /\ e \in batch /\ e \in Events
      BY <1>3, <3>1
    <3>3. delivery'[e] = Claimed(e) /\ Claimed(e).status = "leased"
          /\ Claimed(e).left = LeaseTime
      BY <1>1, <1>2, <3>1, <3>2 DEF Settled
    <3> QED
      BY <3>2, <3>3
  <2> QED
    BY <1>1, <2>1, <2>2
<1>10. LeasesDiffer'
  <2> SUFFICES ASSUME NEW c1 \in claims', NEW c2 \in claims',
                      c1.event = c2.event, c1.left = c2.left, c1.left > 0
               PROVE  c1 = c2
    BY DEF LeasesDiffer
  <2>1. \A c \in {claim(e) : e \in leased} :
          c.left = LeaseTime /\ c.event \in batch /\ c = claim(c.event)
    OBVIOUS
  <2>2. CASE c1 \in claims /\ c2 \in claims
    BY <2>2 DEF Inv, LeasesDiffer
  <2>3. CASE c1 \in {claim(e) : e \in leased} /\ c2 \in {claim(e) : e \in leased}
    BY <2>1, <2>3
  <2>4. CASE c1 \in claims /\ c2 \in {claim(e) : e \in leased}
    BY <1>5, <2>1, <2>4
  <2>5. CASE c2 \in claims /\ c1 \in {claim(e) : e \in leased}
    BY <1>5, <2>1, <2>5
  <2> QED
    BY <1>1, <2>2, <2>3, <2>4, <2>5
<1>11. OneKey'
  <2>1. \A e \in leased : claim(e).key = 1
    BY <1>3
  <2> QED
    BY <1>1, <2>1 DEF Inv, OneKey
<1>12. RetriesComeInTime'
  BY <1>1, <1>2 DEF Inv, RetriesComeInTime
<1> QED
  BY <1>7, <1>8, <1>9, <1>10, <1>11, <1>12 DEF Inv, Typed

(* A post changes no row, and the claim it answers keeps its lease.        *)
LEMMA DeliverInv ==
  ASSUME Inv, NEW c \in claims, NEW answer \in Answers, NEW accepted \in BOOLEAN,
         Post(c, answer, accepted)
  PROVE  Inv'
<1> DEFINE d == [c EXCEPT !.answer = answer]
<1>1. c \in ClaimRecord
  BY DEF Inv, Typed, TypeOK
<1>2. d \in ClaimRecord /\ d.event = c.event /\ d.left = c.left /\ d.key = c.key
  BY <1>1 DEF ClaimRecord
<1>3. /\ claims' = (claims \ {c}) \cup {d}
      /\ received' \subseteq received \cup {<<c.event, c.key>>}
      /\ UNCHANGED <<event, delivery, keys, corrupt>>
  BY DEF Post
<1> HIDE DEF d
<1>4. c.key = 1 /\ c.event \in Events /\ 1 \in 1..MaxKeys
  BY <1>1, PolicyAssumption DEF Inv, OneKey, ClaimRecord
<1>5. TypeOK'
  BY <1>2, <1>3, <1>4 DEF Inv, Typed, TypeOK
<1>6. RowsSound' /\ RetriesComeInTime'
  BY <1>3 DEF Inv, Typed, RowsSound, RetriesComeInTime
<1>7. FreshLeasesHold'
  <2> SUFFICES ASSUME NEW x \in claims', x.left = LeaseTime
               PROVE  \E y \in claims : y.event = x.event /\ y.left = LeaseTime
    BY <1>3 DEF Inv, FreshLeasesHold
  <2> QED
    BY <1>2, <1>3
<1>8. LeasesDiffer'
  BY <1>2, <1>3 DEF Inv, LeasesDiffer
<1>9. OneKey'
  <2>1. \A r \in received' : r \in received \/ r = <<c.event, c.key>>
    BY <1>3
  <2> QED
    BY <1>2, <1>3, <1>4, <2>1 DEF Inv, OneKey
<1> QED
  BY <1>5, <1>6, <1>7, <1>8, <1>9 DEF Inv, Typed

(* A result settles the row of its claim or makes it wait, if the claim    *)
(* still holds the lease.                                                  *)
LEMMA ReportInv ==
  ASSUME Inv, NEW c \in claims, NEW hint \in 0..MaxRetryAfter, Record(c, hint)
  PROVE  Inv'
<1> DEFINE e == c.event
           result == IF c.answer = "success" THEN Settle(delivery[e], "delivered")
                     ELSE Failed(delivery[e], c, hint)
<1>1. c \in ClaimRecord /\ e \in Events /\ delivery[e] \in Row
  BY DEF Inv, Typed, TypeOK, ClaimRecord
<1>2. /\ result \in Row
      /\ result.key = delivery[e].key
      /\ \/ result.status \in Settled /\ result.wait = 0
         \/ /\ result.status = "pending"
            /\ result.wait > 0
            /\ result.age + result.wait <= MaxAge
  <2>1. hint \in Nat
    BY PolicyAssumption
  <2> QED
    BY <1>1, <2>1, FailedTyped, SettleTyped DEF Settled
<1>3. /\ claims' = claims \ {c}
      /\ UNCHANGED <<event, keys, received, corrupt>>
      /\ \/ delivery' = delivery
         \/ delivery' = [delivery EXCEPT ![e] = result] /\ delivery[e].status = "leased"
  BY DEF Record, HoldsLease
<1> HIDE DEF result
<1>4. CASE delivery' = delivery
  BY <1>3, <1>4 DEF Inv, Typed, TypeOK, RowsSound, FreshLeasesHold, LeasesDiffer,
                    OneKey, RetriesComeInTime
<1>5. CASE delivery' = [delivery EXCEPT ![e] = result] /\ delivery[e].status = "leased"
  <2>1. /\ delivery'[e] = result
        /\ \A x \in Events : x # e => delivery'[x] = delivery[x]
        /\ e \notin corrupt /\ delivery[e].key = 1
    BY <1>1, <1>5 DEF Inv, Typed, TypeOK, RowsSound
  <2> HIDE DEF e
  <2>2. TypeOK'
    BY <1>1, <1>2, <1>3, <1>5 DEF Inv, Typed, TypeOK
  <2>3. RowsSound'
    BY <1>2, <1>3, <2>1 DEF Inv, Typed, RowsSound, Settled
  <2>4. FreshLeasesHold'
    <3> SUFFICES ASSUME NEW x \in claims, x.left = LeaseTime
                 PROVE  \/ delivery'[x.event].status = "leased"
                           /\ delivery'[x.event].left = LeaseTime
                        \/ delivery'[x.event].status = "pending"
                           /\ delivery'[x.event].wait > 0
                        \/ delivery'[x.event].status \in Settled
                        \/ delivery'[x.event].status = "none"
                           /\ event'[x.event] = "removed"
      BY <1>3 DEF FreshLeasesHold
    <3>1. x.event \in Events
      BY DEF Inv, Typed, TypeOK, ClaimRecord
    <3>2. CASE x.event = e
      BY <1>2, <2>1, <3>2
    <3>3. CASE x.event # e
      BY <1>3, <2>1, <3>1, <3>3 DEF Inv, FreshLeasesHold
    <3> QED
      BY <3>2, <3>3
  <2>5. LeasesDiffer' /\ OneKey'
    BY <1>3 DEF Inv, LeasesDiffer, OneKey
  <2>6. RetriesComeInTime'
    BY <1>2, <2>1 DEF Inv, RetriesComeInTime
  <2> QED
    BY <2>2, <2>3, <2>4, <2>5, <2>6 DEF Inv, Typed
<1> QED
  BY <1>3, <1>4, <1>5

(* A worker that dies only takes its claims with it.                       *)
LEMMA AbandonInv ==
  ASSUME Inv, NEW w \in Workers, Abandon(w)
  PROVE  Inv'
<1>1. claims' \subseteq claims /\ UNCHANGED <<event, delivery, keys, received, corrupt>>
  BY DEF Abandon
<1> QED
  BY <1>1 DEF Inv, Typed, TypeOK, RowsSound, FreshLeasesHold, LeasesDiffer,
              OneKey, RetriesComeInTime

(* A removed event never gets a row again, so its old claims stay harmless.*)
LEMMA CleanupInv ==
  ASSUME Inv, NEW e \in Events, Cleanup(e)
  PROVE  Inv'
<1>1. NoRow \in Row /\ NoRow.status = "none" /\ NoRow.wait = 0
  BY PolicyAssumption DEF NoRow, Unclaimed, Row, Statuses
<1>2. /\ delivery' = [delivery EXCEPT ![e] = NoRow]
      /\ event' = [event EXCEPT ![e] = "removed"]
      /\ UNCHANGED <<keys, claims, received, corrupt>>
  BY DEF Cleanup
<1>3. TypeOK'
  BY <1>1, <1>2 DEF Inv, Typed, TypeOK
<1>4. /\ delivery'[e] = NoRow /\ event'[e] = "removed"
      /\ \A x \in Events : x # e => delivery'[x] = delivery[x] /\ event'[x] = event[x]
  BY <1>2 DEF Inv, Typed, TypeOK
<1>5. RowsSound'
  BY <1>1, <1>2, <1>4 DEF Inv, Typed, RowsSound
<1>6. FreshLeasesHold'
  <2> SUFFICES ASSUME NEW x \in claims, x.left = LeaseTime
               PROVE  \/ delivery'[x.event].status = "leased"
                         /\ delivery'[x.event].left = LeaseTime
                      \/ delivery'[x.event].status = "pending"
                         /\ delivery'[x.event].wait > 0
                      \/ delivery'[x.event].status \in Settled
                      \/ delivery'[x.event].status = "none"
                         /\ event'[x.event] = "removed"
    BY <1>2 DEF FreshLeasesHold
  <2>1. x.event \in Events
    BY DEF Inv, Typed, TypeOK, ClaimRecord
  <2>2. CASE x.event = e
    BY <1>1, <1>4, <2>2
  <2>3. CASE x.event # e
    BY <1>4, <2>1, <2>3 DEF Inv, FreshLeasesHold
  <2> QED
    BY <2>2, <2>3
<1>7. LeasesDiffer' /\ OneKey'
  BY <1>2 DEF Inv, LeasesDiffer, OneKey
<1>8. RetriesComeInTime'
  BY <1>1, <1>4 DEF Inv, RetriesComeInTime
<1> QED
  BY <1>3, <1>5, <1>6, <1>7, <1>8 DEF Inv, Typed

(* Time ages every lease and every claim alike, and no claim is as young   *)
(* as a new lease any more.                                                *)
LEMMA TickInv ==
  ASSUME Inv, Tick
  PROVE  Inv'
<1> DEFINE later(c) == [c EXCEPT !.left = CountDown(c.left)]
<1>1. /\ delivery' = [e \in Events |-> Later(delivery[e])]
      /\ claims' = {later(c) : c \in claims}
      /\ UNCHANGED <<event, keys, received, corrupt>>
  BY DEF Tick
<1>2. \A e \in Events :
        /\ delivery'[e] = Later(delivery[e])
        /\ delivery'[e] \in Row
        /\ delivery'[e].status = delivery[e].status
        /\ delivery'[e].key = delivery[e].key
        /\ delivery'[e].attempts = delivery[e].attempts
        /\ delivery'[e].wait = CountDown(delivery[e].wait)
        /\ delivery'[e].age \in Nat /\ delivery'[e].age <= delivery[e].age + 1
  BY <1>1, LaterTyped DEF Inv, Typed, TypeOK
<1>3. \A c \in claims :
        /\ c \in ClaimRecord /\ c.left \in 0..LeaseTime
        /\ later(c) \in ClaimRecord
        /\ later(c).event = c.event /\ later(c).key = c.key
        /\ later(c).left = CountDown(c.left)
  <2> SUFFICES ASSUME NEW c \in claims
               PROVE  /\ c \in ClaimRecord /\ c.left \in 0..LeaseTime
                      /\ later(c) \in ClaimRecord
                      /\ later(c).event = c.event /\ later(c).key = c.key
                      /\ later(c).left = CountDown(c.left)
    OBVIOUS
  <2>1. c \in ClaimRecord /\ c.left \in 0..LeaseTime
    BY DEF Inv, Typed, TypeOK, ClaimRecord
  <2>2. CountDown(c.left) \in 0..LeaseTime
    BY <2>1, PolicyAssumption DEF CountDown
  <2> QED
    BY <2>1, <2>2 DEF ClaimRecord
<1> HIDE DEF later
<1>4. TypeOK'
  <2>1. delivery' \in [Events -> Row]
    BY <1>1, <1>2
  <2>2. claims' \subseteq ClaimRecord
    BY <1>1, <1>3
  <2> QED
    BY <1>1, <2>1, <2>2 DEF Inv, Typed, TypeOK
<1>5. RowsSound'
  BY <1>1, <1>2 DEF Inv, Typed, RowsSound
<1>6. FreshLeasesHold'
  <2>1. \A c \in claims : later(c).left # LeaseTime
    <3> SUFFICES ASSUME NEW c \in claims PROVE later(c).left # LeaseTime
      OBVIOUS
    <3>1. c.left \in 0..LeaseTime /\ later(c).left = CountDown(c.left)
      BY <1>3
    <3> QED
      BY <3>1, PolicyAssumption DEF CountDown
  <2> QED
    BY <1>1, <2>1 DEF FreshLeasesHold
<1>7. LeasesDiffer'
  <2> SUFFICES ASSUME NEW d1 \in claims', NEW d2 \in claims',
                      d1.event = d2.event, d1.left = d2.left, d1.left > 0
               PROVE  d1 = d2
    BY DEF LeasesDiffer
  <2>1. PICK c1 \in claims : d1 = later(c1)
    BY <1>1
  <2>2. PICK c2 \in claims : d2 = later(c2)
    BY <1>1
  <2>3. /\ c1.left \in 0..LeaseTime /\ c2.left \in 0..LeaseTime
        /\ CountDown(c1.left) = CountDown(c2.left) /\ CountDown(c1.left) > 0
        /\ c1.event = c2.event
    BY <1>3, <2>1, <2>2
  <2>4. c1.left = c2.left /\ c1.left > 0
    BY <2>3, PolicyAssumption DEF CountDown
  <2>5. c1 = c2
    BY <2>3, <2>4 DEF Inv, LeasesDiffer
  <2> QED
    BY <2>1, <2>2, <2>5
<1>8. OneKey'
  BY <1>1, <1>3 DEF Inv, OneKey
<1>9. RetriesComeInTime'
  <2> SUFFICES ASSUME NEW e \in Events, delivery'[e].wait > 0
               PROVE  delivery'[e].age + delivery'[e].wait <= MaxAge
    BY DEF RetriesComeInTime
  <2>1. delivery[e].wait \in Nat /\ delivery[e].age \in Nat
    BY DEF Inv, Typed, TypeOK, Row
  <2>2. delivery[e].wait > 0 /\ delivery'[e].wait = delivery[e].wait - 1
    BY <1>2, <2>1 DEF CountDown
  <2>3. delivery[e].age + delivery[e].wait <= MaxAge
    BY <2>2 DEF Inv, RetriesComeInTime
  <2> QED
    BY <1>2, <2>1, <2>2, <2>3, PolicyAssumption
<1> QED
  BY <1>4, <1>5, <1>6, <1>7, <1>8, <1>9 DEF Inv, Typed

(* Every step of the system keeps the invariant.                           *)
LEMMA NextInv == Inv /\ [Next]_vars => Inv'
<1> SUFFICES ASSUME Inv, [Next]_vars PROVE Inv'
  OBVIOUS
<1>1. CASE \E e \in Events : Classify(e)
  BY <1>1, ClassifyInv
<1>2. CASE \E e \in Events : Ensure(e)
  BY <1>2, EnsureInv
<1>3. CASE \E w \in Workers : \E batch \in SUBSET Due \ {{}} : Drain(w, batch)
  BY <1>3, DrainInv
<1>4. CASE \E c \in claims : Deliver(c)
  <2>1. PICK c \in claims, answer \in Answers, accepted \in BOOLEAN :
          Post(c, answer, accepted)
    BY <1>4 DEF Deliver
  <2> QED
    BY <2>1, DeliverInv
<1>5. CASE \E c \in claims : Report(c)
  <2>1. PICK c \in claims, hint \in 0..MaxRetryAfter : Record(c, hint)
    BY <1>5 DEF Report
  <2> QED
    BY <2>1, ReportInv
<1>6. CASE \E w \in Workers : Abandon(w)
  BY <1>6, AbandonInv
<1>7. CASE \E e \in Events : Cleanup(e)
  BY <1>7, CleanupInv
<1>8. CASE Tick
  BY <1>8, TickInv
<1>9. CASE UNCHANGED vars
  BY <1>9 DEF vars, Inv, Typed, TypeOK, RowsSound, FreshLeasesHold, LeasesDiffer,
              OneKey, RetriesComeInTime
<1> QED
  BY <1>1, <1>2, <1>3, <1>4, <1>5, <1>6, <1>7, <1>8, <1>9 DEF Next

(* The invariant holds in every reachable state.                           *)
LEMMA Invariance == Spec => []Inv
  BY InitInv, NextInv, PTL DEF Spec

-----------------------------------------------------------------------------
(* What the invariant and the steps say of the code.                       *)

(* Every reachable state is typed: attempts never pass workflow_alert_max_ *)
(* attempts, and no lease is longer than workflow_alert_lease_seconds.     *)
THEOREM TypeCorrectness == Spec => []TypeOK
<1>1. Inv => TypeOK
  BY DEF Inv, Typed
<1> QED
  BY <1>1, Invariance, PTL

(* The WHERE clause of the result writes lets through at most one of all   *)
(* claims, however many workers, crashes and recovered leases there are.   *)
THEOREM LeasesAreExclusive == Spec => []LeaseIsExclusive
<1>1. Inv => LeaseIsExclusive
  BY DEF Inv, LeaseIsExclusive, LeasesDiffer, HoldsLease
<1> QED
  BY <1>1, Invariance, PTL

(* The receiver can collapse everything it is sent about an event, through *)
(* retries, recovered leases and retention.                                *)
THEOREM NotificationsAreUnique == Spec => []OneNotificationPerAlert
<1>1. Inv => OneNotificationPerAlert
  <2> SUFFICES ASSUME Inv, NEW r1 \in received, NEW r2 \in received, r1[1] = r2[1]
               PROVE  r1 = r2
    BY DEF OneNotificationPerAlert
  <2>1. r1 \in Events \X (1..MaxKeys) /\ r2 \in Events \X (1..MaxKeys)
    BY DEF Inv, Typed, TypeOK
  <2>2. r1[2] = 1 /\ r2[2] = 1
    BY DEF Inv, OneKey
  <2> QED
    BY <2>1, <2>2
<1> QED
  BY <1>1, Invariance, PTL

(* No retry schedule puts an attempt off beyond the life of its delivery.  *)
THEOREM RetriesAreInTime == Spec => []RetriesComeInTime
<1>1. Inv => RetriesComeInTime
  BY DEF Inv
<1> QED
  BY <1>1, Invariance, PTL

(* What a step may do to a settled delivery: nothing, or remove it.        *)
LEMMA NextKeepsSettled ==
  ASSUME Inv, [Next]_vars, NEW e \in Events, delivery[e].status \in Settled
  PROVE  delivery'[e].status = delivery[e].status \/ event'[e] = "removed"
<1>1. /\ delivery \in [Events -> Row] /\ event \in [Events -> {"pending", "ready", "removed"}]
      /\ delivery[e].status \notin {"none", "pending", "leased"}
  BY DEF Inv, Typed, TypeOK, Settled
<1>2. CASE \E x \in Events : Classify(x)
  BY <1>2 DEF Classify
<1>3. CASE \E x \in Events : Ensure(x)
  BY <1>1, <1>3 DEF Ensure
<1>4. CASE \E w \in Workers : \E batch \in SUBSET Due \ {{}} : Drain(w, batch)
  <2>1. e \notin Due
    BY <1>1 DEF Due
  <2> QED
    BY <1>4, <2>1 DEF Drain
<1>5. CASE \E c \in claims : Deliver(c)
  BY <1>5 DEF Deliver, Post
<1>6. CASE \E c \in claims : Report(c)
  BY <1>1, <1>6 DEF Report, Record, HoldsLease
<1>7. CASE \E w \in Workers : Abandon(w)
  BY <1>7 DEF Abandon
<1>8. CASE \E x \in Events : Cleanup(x)
  BY <1>1, <1>8 DEF Cleanup
<1>9. CASE Tick
  <2>1. delivery'[e] = Later(delivery[e])
    BY <1>9 DEF Tick
  <2> QED
    BY <1>1, <2>1, LaterTyped
<1>10. CASE UNCHANGED vars
  BY <1>10 DEF vars
<1> QED
  BY <1>2, <1>3, <1>4, <1>5, <1>6, <1>7, <1>8, <1>9, <1>10 DEF Next

(* However late the answers of other attempts come in, a settled delivery  *)
(* stays as it was settled until it is removed with its event.             *)
THEOREM SettlementIsFinal == Spec => SettledIsFinal
<1>1. Inv /\ [Next]_vars =>
        [\A e \in Events :
           delivery[e].status \in Settled =>
             \/ delivery'[e].status = delivery[e].status
             \/ event'[e] = "removed"]_vars
  BY NextKeepsSettled
<1> QED
  BY <1>1, Invariance, PTL DEF Spec, SettledIsFinal

=============================================================================
