---------------------------- MODULE AlertDelivery ----------------------------
(***************************************************************************)
(* Delivery of workflow alerts to the webhook.  A terminal event that was  *)
(* classified as ready gets one delivery row.  Workers claim due rows in a *)
(* committed batch, post the envelope outside any transaction, and write   *)
(* each result back only while the exact lease of the claim still stands.  *)
(* Events leave together with their settled deliveries.                    *)
(*                                                                         *)
(* Timestamps are kept relative to now, so that time never runs out: a row *)
(* and its claim count down together, and equal lease timestamps of a      *)
(* lease that has not expired are equal remainders greater than zero.      *)
(***************************************************************************)
EXTENDS Naturals, FiniteSets

CONSTANTS
  Events,        \* terminal events that call for an external alert
  Workers,       \* processes that run the alert maintenance tick
  Corruptible,   \* events whose stored envelope may no longer validate
  Window,        \* rows one drain may claim
  LeaseTime,     \* workflow_alert_lease_seconds
  MaxAttempts,   \* workflow_alert_max_attempts
  BaseBackoff, MaxBackoff, MaxRetryAfter, \* the retry schedule
  MaxAge,        \* workflow_alert_delivery_max_age_seconds
  Retention, ExhaustedRetention,
  MaxKeys        \* bound: deliveries created for one event

ASSUME AlertSetsAssumption == Corruptible \subseteq Events
ASSUME PolicyAssumption ==
  /\ Window \in Nat \ {0} /\ LeaseTime \in Nat \ {0}
  /\ MaxAttempts \in Nat \ {0} /\ MaxAge \in Nat \ {0}
  /\ BaseBackoff \in Nat \ {0} /\ MaxBackoff \in Nat /\ BaseBackoff <= MaxBackoff
  /\ MaxRetryAfter \in Nat \ {0}
  /\ Retention \in Nat /\ ExhaustedRetention \in Nat
  /\ Retention <= ExhaustedRetention
  /\ MaxKeys \in Nat \ {0}
(* The backoff of an attempt is a delay: what the proofs know of powers.   *)
ASSUME BackoffAssumption ==
  \A n \in 1..MaxAttempts : BaseBackoff * 2^(n - 1) \in Nat \ {0}

VARIABLES
  event,    \* [Events -> {"pending", "ready", "removed"}]
  delivery, \* [Events -> Row]: the webhook delivery of an event
  keys,     \* [Events -> 0..MaxKeys]: delivery ids generated for the event
  claims,   \* claims whose results are not written yet, in worker memory
  received, \* <<event, key>>: what the receiver has accepted
  corrupt   \* the events whose envelope does not; never changes

vars == <<event, delivery, keys, claims, received, corrupt>>

Settled  == {"delivered", "permanent_failure", "exhausted"}
Statuses == {"none", "pending", "leased"} \cup Settled
Answers  == {"none", "success", "retry", "permanent"}

(* A settled row is kept this long.                                        *)
Keep(status) == IF status = "exhausted" THEN ExhaustedRetention ELSE Retention

(* wait: until next_attempt_at; left: until lease_expires_at; age: since   *)
(* created_at of an open row, since updated_at of a settled one.           *)
Row == [status: Statuses, attempts: 0..MaxAttempts,
        wait: Nat, left: 0..LeaseTime, age: Nat, key: 0..MaxKeys]
Unclaimed(status, key) == [status |-> status, attempts |-> 0, wait |-> 0,
                           left |-> 0, age |-> 0, key |-> key]
NoRow == Unclaimed("none", 0)
ClaimRecord == [worker: Workers, event: Events, attempts: 1..MaxAttempts,
                left: 0..LeaseTime, key: 1..MaxKeys, answer: Answers]

TypeOK ==
  /\ event \in [Events -> {"pending", "ready", "removed"}]
  /\ delivery \in [Events -> Row]
  /\ keys \in [Events -> 0..MaxKeys]
  /\ claims \subseteq ClaimRecord
  /\ received \subseteq Events \X (1..MaxKeys)
  /\ corrupt \subseteq Events

Init ==
  /\ event = [e \in Events |-> "pending"]
  /\ delivery = [e \in Events |-> NoRow]
  /\ keys = [e \in Events |-> 0]
  /\ claims = {}
  /\ received = {}
  /\ corrupt \in SUBSET Corruptible

-----------------------------------------------------------------------------
(* The retry policy.                                                       *)

Least(a, b) == IF a < b THEN a ELSE b
Larger(a, b) == IF a > b THEN a ELSE b

(* calculate_retry_delay; a receiver that gives no hint hints at zero.     *)
RetryDelay(attempts, hint) ==
  Larger(Least(BaseBackoff * 2^(attempts - 1), MaxBackoff),
         Least(hint, MaxRetryAfter))

(* Mutation: only the attempts and the age reached so far count.           *)
ShouldExhaustByNow(attempts, age, delay) ==
  attempts >= MaxAttempts \/ age >= MaxAge

(* should_exhaust_delivery.                                                *)
ShouldExhaust(attempts, age, delay) ==
  attempts >= MaxAttempts \/ age >= MaxAge \/ age + delay > MaxAge

-----------------------------------------------------------------------------
(* Row updates.                                                            *)

Settle(row, status) ==
  [status |-> status, attempts |-> row.attempts, wait |-> 0, left |-> 0,
   age |-> 0, key |-> row.key]

Lease(row) ==
  [row EXCEPT !.status = "leased", !.attempts = @ + 1, !.left = LeaseTime]

(* ck_workflow_alert_deliveries_state, as far as the writers can break it. *)
Storable(row) == row.status \in {"leased"} \cup Settled => row.attempts >= 1

(* Mutation: an attempt that never reported is not counted.                *)
ClaimedWithoutCeiling(e) ==
  IF delivery[e].age >= MaxAge THEN Settle(delivery[e], "exhausted")
  ELSE Lease(delivery[e])

(* What one claim makes of a due row.                                      *)
Claimed(e) ==
  LET row == delivery[e] IN
  IF e \in corrupt
    THEN Settle([row EXCEPT !.attempts = @ + 1], "permanent_failure")
  ELSE IF row.attempts >= MaxAttempts \/ row.age >= MaxAge
    THEN Settle(row, "exhausted")
  ELSE Lease(row)

(* What a failed attempt makes of its row.                                 *)
Failed(row, c, hint) ==
  LET delay == RetryDelay(c.attempts, hint) IN
  IF c.answer = "permanent" THEN Settle(row, "permanent_failure")
  ELSE IF ShouldExhaust(c.attempts, row.age, delay) THEN Settle(row, "exhausted")
  ELSE [row EXCEPT !.status = "pending", !.left = 0, !.wait = delay]

(* The result writes' WHERE clause: the row is leased, to this claim, and  *)
(* the lease has not expired.                                              *)
HoldsLease(c) ==
  /\ delivery[c.event].key = c.key
  /\ delivery[c.event].status = "leased"
  /\ delivery[c.event].left = c.left
  /\ c.left > 0

-----------------------------------------------------------------------------
(* The maintenance tick.                                                   *)

(* Classification, which the operation queue models, found the event ready.*)
Classify(e) ==
  /\ event[e] = "pending"
  /\ event' = [event EXCEPT ![e] = "ready"]
  /\ UNCHANGED <<delivery, keys, claims, received, corrupt>>

(* Mutation: a conflict with a pending row updates it.                     *)
EnsureOverwriting(e) ==
  /\ event[e] = "ready"
  /\ delivery[e].status \in {"none", "pending"}
  /\ keys[e] < MaxKeys
  /\ delivery' = [delivery EXCEPT ![e] = Unclaimed("pending", keys[e] + 1)]
  /\ keys' = [keys EXCEPT ![e] = @ + 1]
  /\ UNCHANGED <<event, claims, received, corrupt>>

(* ensure_delivery: a row of its own for the event, unless there is one.   *)
Ensure(e) ==
  /\ event[e] = "ready"
  /\ delivery[e].status = "none"
  /\ keys[e] < MaxKeys
  /\ delivery' = [delivery EXCEPT ![e] = Unclaimed("pending", keys[e] + 1)]
  /\ keys' = [keys EXCEPT ![e] = @ + 1]
  /\ UNCHANGED <<event, claims, received, corrupt>>

(* Mutation: a pending row may be claimed whenever, a leased one never.    *)
DueUnleased == {e \in Events : delivery[e].status = "pending"}

(* Mutation: a lease is not waited for.                                    *)
DueRegardless ==
  {e \in Events : delivery[e].status \in {"pending", "leased"}
                  /\ delivery[e].wait = 0}

(* build_due_delivery_query.                                               *)
Due ==
  {e \in Events :
     /\ event[e] = "ready"
     /\ delivery[e].wait = 0
     /\ \/ delivery[e].status = "pending"
        \/ delivery[e].status = "leased" /\ delivery[e].left = 0}

(* claim_due_deliveries: one transaction for the batch.  If the database   *)
(* refuses one of its rows the batch rolls back, the tick raises, and the  *)
(* next tick finds what this one found.  A worker claims again only when   *)
(* all claims of its last drain are done with.                             *)
Drain(w, batch) ==
  LET leased == {e \in batch : Claimed(e).status = "leased"} IN
  /\ \A c \in claims : c.worker # w
  /\ batch \subseteq Due
  /\ Cardinality(batch) = Least(Window, Cardinality(Due))
  /\ \A e \in batch : Storable(Claimed(e))
  /\ delivery' = [e \in Events |-> IF e \in batch THEN Claimed(e) ELSE delivery[e]]
  /\ claims' = claims \cup
       {[worker |-> w, event |-> e, attempts |-> Claimed(e).attempts,
         left |-> LeaseTime, key |-> delivery[e].key, answer |-> "none"] : e \in leased}
  /\ UNCHANGED <<event, keys, received, corrupt>>

(* _deliver_workflow_alert_claim, for the receiver: it may accept what the *)
(* worker never hears of, and a success is always an acceptance.           *)
Post(c, answer, accepted) ==
  /\ c \in claims /\ c.answer = "none"
  /\ answer \in Answers \ {"none"}
  /\ answer = "success" => accepted
  /\ answer = "permanent" => ~accepted
  /\ received' = IF accepted THEN received \cup {<<c.event, c.key>>} ELSE received
  /\ claims' = (claims \ {c}) \cup {[c EXCEPT !.answer = answer]}
  /\ UNCHANGED <<event, delivery, keys, corrupt>>

(* Mutation: the result is written whoever holds the row.                  *)
RecordUnfenced(c, hint) ==
  /\ c \in claims /\ c.answer # "none"
  /\ delivery' = [delivery EXCEPT ![c.event] =
       IF @.status = "none" THEN @
       ELSE IF c.answer = "success" THEN Settle(@, "delivered")
       ELSE Failed(@, c, hint)]
  /\ claims' = claims \ {c}
  /\ UNCHANGED <<event, keys, received, corrupt>>

(* mark_delivery_succeeded and record_delivery_failure.                    *)
Record(c, hint) ==
  /\ c \in claims /\ c.answer # "none"
  /\ c.answer # "retry" => hint = 0
  /\ delivery' =
       IF HoldsLease(c)
         THEN [delivery EXCEPT ![c.event] =
                 IF c.answer = "success" THEN Settle(@, "delivered")
                 ELSE Failed(@, c, hint)]
         ELSE delivery
  /\ claims' = claims \ {c}
  /\ UNCHANGED <<event, keys, received, corrupt>>

(* The worker dies, is shut down, or a result write raises: the rest of    *)
(* its drain is cancelled, with or without posts under way.                *)
Abandon(w) ==
  /\ \E c \in claims : c.worker = w
  /\ claims' = {c \in claims : c.worker # w}
  /\ UNCHANGED <<event, delivery, keys, received, corrupt>>

(* _cleanup_terminal_workflow_alert_records, which takes a batch of such   *)
(* events; they have nothing to do with each other.                        *)
Cleanup(e) ==
  /\ event[e] = "ready"
  /\ delivery[e].status \in Settled
  /\ delivery[e].age > Keep(delivery[e].status)
  /\ event' = [event EXCEPT ![e] = "removed"]
  /\ delivery' = [delivery EXCEPT ![e] = NoRow]
  /\ UNCHANGED <<keys, claims, received, corrupt>>

-----------------------------------------------------------------------------
(* Time.  Ages stop where nothing depends on them any more.                *)

Older(row) ==
  IF row.status = "none" THEN 0
  ELSE IF row.status \in Settled THEN Least(row.age + 1, Keep(row.status) + 1)
  ELSE Least(row.age + 1, MaxAge)

CountDown(n) == IF n = 0 THEN 0 ELSE n - 1

Later(row) ==
  [row EXCEPT !.age = Older(row), !.wait = CountDown(row.wait),
              !.left = CountDown(row.left)]

Tick ==
  /\ delivery' = [e \in Events |-> Later(delivery[e])]
  /\ claims' = {[c EXCEPT !.left = CountDown(c.left)] : c \in claims}
  /\ UNCHANGED <<event, keys, received, corrupt>>

-----------------------------------------------------------------------------
Deliver(c) == \E answer \in Answers : \E accepted \in BOOLEAN :
                Post(c, answer, accepted)
Report(c) == \E hint \in 0..MaxRetryAfter : Record(c, hint)

Next ==
  \/ \E e \in Events : Classify(e)
  \/ \E e \in Events : Ensure(e)
  \/ \E w \in Workers : \E batch \in SUBSET Due \ {{}} : Drain(w, batch)
  \/ \E c \in claims : Deliver(c)
  \/ \E c \in claims : Report(c)
  \/ \E w \in Workers : Abandon(w)
  \/ \E e \in Events : Cleanup(e)
  \/ Tick

Spec == Init /\ [][Next]_vars

(* Every worker runs the tick again and again; the transport timeout ends  *)
(* each post.  Time passes.  Nothing obliges a worker to die.              *)
Drains(w) == \E batch \in SUBSET Due \ {{}} : Drain(w, batch)
Answered(w) == \E c \in claims : c.worker = w /\ (Deliver(c) \/ Report(c))

Fairness ==
  /\ WF_vars(Tick)
  /\ \A e \in Events : WF_vars(Ensure(e))
  /\ \A w \in Workers : WF_vars(Drains(w)) /\ WF_vars(Answered(w))

FairSpec == Spec /\ Fairness

-----------------------------------------------------------------------------
(* Properties.                                                             *)

(* At most one claim, of all that workers hold, can still write its result:*)
(* a lease that was recovered is never shared with the claim that lost it. *)
LeaseIsExclusive ==
  \A c1, c2 \in claims :
    c1.event = c2.event /\ HoldsLease(c1) /\ HoldsLease(c2) => c1 = c2

(* A delivery that was settled stays as it was settled until it is removed *)
(* with its event, however late the answers of other attempts come in.     *)
SettledIsFinal ==
  [][\A e \in Events :
       delivery[e].status \in Settled =>
         \/ delivery'[e].status = delivery[e].status
         \/ event'[e] = "removed"]_vars

(* Retries, recovered leases and retention notwithstanding, the receiver   *)
(* knows an event by one key and can collapse everything it is sent.       *)
OneNotificationPerAlert ==
  \A r1, r2 \in received : r1[1] = r2[1] => r1 = r2

(* A retry is never put off beyond the life of its delivery.               *)
RetriesComeInTime ==
  \A e \in Events :
    delivery[e].wait > 0 => delivery[e].age + delivery[e].wait <= MaxAge

(* No delivery ages out before its first claim.                            *)
Punctual ==
  \A e \in Events :
    delivery[e].status = "pending" /\ delivery[e].attempts = 0
      => delivery[e].age < MaxAge

(* Every alert is delivered, fails or is exhausted in the end, whatever    *)
(* dies on the way, if first claims come before deliveries are too old.    *)
EveryAlertSettles ==
  []Punctual => \A e \in Events :
    event[e] = "ready" ~> event[e] = "removed" \/ delivery[e].status \in Settled

-----------------------------------------------------------------------------
(* What the documents say and the code does otherwise.                     *)

(* When the age ceiling is reached, the delivery becomes exhausted.        *)
AgeCeilingExhausts ==
  \A e \in Events :
    (delivery[e].status = "pending" /\ delivery[e].age = MaxAge)
      ~> delivery[e].status = "exhausted"

=============================================================================
