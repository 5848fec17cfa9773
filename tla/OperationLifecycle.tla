------------------------- MODULE OperationLifecycle -------------------------
(***************************************************************************)
(* What the queue promises about one operation, seen by its submitter: a   *)
(* state, a claim generation, whether a stop was asked for, the outcomes   *)
(* recorded so far and the claims whose domain writes have committed.      *)
(* There are no workers, heartbeats, sweeps or crashes at this level.      *)
(***************************************************************************)
EXTENDS Naturals

CONSTANT Jobs

VARIABLES
  state,    \* [Jobs -> "absent", an active or a terminal status]
  claim,    \* [Jobs -> Nat]: how many times the operation was claimed
  asked,    \* [Jobs -> BOOLEAN]: the submitter asked it to stop
  outcomes, \* <<job, claim, terminal status>> ever recorded
  effects   \* <<job, claim>> whose domain writes have committed

avars == <<state, claim, asked, outcomes, effects>>

Ended == {"completed", "failed", "cancelled"}

AInit ==
  /\ state = [j \in Jobs |-> "absent"]
  /\ claim = [j \in Jobs |-> 0]
  /\ asked = [j \in Jobs |-> FALSE]
  /\ outcomes = {}
  /\ effects = {}

Submitted(j) ==
  /\ state[j] = "absent"
  /\ state' = [state EXCEPT ![j] = "queued"]
  /\ UNCHANGED <<claim, asked, outcomes, effects>>

(* An attempt begins: always a new claim.                                  *)
Begun(j) ==
  /\ state[j] = "queued"
  /\ state' = [state EXCEPT ![j] = "in_progress"]
  /\ claim' = [claim EXCEPT ![j] = @ + 1]
  /\ UNCHANGED <<asked, outcomes, effects>>

(* Running work ends.  Work that was asked to stop never completes, and    *)
(* only work that was asked to stop is cancelled.                          *)
Ends(j, s) ==
  /\ state[j] = "in_progress"
  /\ s = "completed" => ~asked[j]
  /\ s = "cancelled" => asked[j]
  /\ state' = [state EXCEPT ![j] = s]
  /\ outcomes' = outcomes \cup {<<j, claim[j], s>>}
  /\ UNCHANGED <<claim, asked, effects>>

(* Running work yields its claim to a later one.                           *)
Yielded(j) ==
  /\ state[j] = "in_progress"
  /\ state' = [state EXCEPT ![j] = "queued"]
  /\ UNCHANGED <<claim, asked, outcomes, effects>>

Asked(j) ==
  /\ ~asked[j]
  /\ asked' = [asked EXCEPT ![j] = TRUE]
  /\ \/ /\ state[j] = "in_progress"
        /\ UNCHANGED <<state, outcomes>>
     \/ /\ state[j] = "queued"
        /\ state' = [state EXCEPT ![j] = "cancelled"]
        /\ outcomes' = outcomes \cup {<<j, claim[j], "cancelled">>}
  /\ UNCHANGED <<claim, effects>>

(* Operations are requeued only after they failed or were cancelled, with  *)
(* their outcome on record.                                                *)
Requeued(S) ==
  /\ \A j \in S : /\ state[j] \in {"failed", "cancelled"}
                  /\ <<j, claim[j], state[j]>> \in outcomes
  /\ state' = [j \in Jobs |-> IF j \in S THEN "queued" ELSE state[j]]
  /\ asked' = [j \in Jobs |-> IF j \in S THEN FALSE ELSE asked[j]]
  /\ UNCHANGED <<claim, outcomes, effects>>

(* Domain data changes only for the current claim of running work that was *)
(* not asked to stop and has no outcome under that claim yet.              *)
Effect(j) ==
  /\ state[j] = "in_progress"
  /\ ~asked[j]
  /\ \A s \in Ended : <<j, claim[j], s>> \notin outcomes
  /\ effects' = effects \cup {<<j, claim[j]>>}
  /\ UNCHANGED <<state, claim, asked, outcomes>>

ANext ==
  \/ \E j \in Jobs : \/ Submitted(j) \/ Begun(j) \/ Yielded(j) \/ Asked(j)
                     \/ Effect(j)
                     \/ \E s \in Ended : Ends(j, s)
  \/ \E S \in SUBSET Jobs : Requeued(S)

ASpec == AInit /\ [][ANext]_avars

=============================================================================
