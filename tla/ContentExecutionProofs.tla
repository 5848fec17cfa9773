------------------------ MODULE ContentExecutionProofs ------------------------
(***************************************************************************)
(* Proofs about ContentExecution, for every set of content rows, jobs and  *)
(* reconciliation requests, whatever is asked of the system and however    *)
(* many claims and retries there are.                                      *)
(***************************************************************************)
EXTENDS ContentExecution, FiniteSetTheorems, TLAPS

-----------------------------------------------------------------------------
(* The inductive invariant.                                                *)

(* Every generation of an operation is one attempt, begun by its claim;    *)
(* only a forced operation resets its content.                             *)
Preparing == {"prepare", "delete", "reset"}
AttemptsAreClaimed ==
  \A j \in Jobs : \A g \in 1..MaxClaims :
    /\ stage[j][g] # "none" => g <= gen[j]
    /\ stage[j][g] \in Preparing => j \in Forced

(* A requeued operation has a retry less than it will have claims when it  *)
(* can be requeued again.                                                  *)
RetriesLag ==
  \A j \in Jobs :
    /\ retries[j] <= gen[j]
    /\ status[j] \in {"in_progress", "failed", "completed"} => retries[j] < gen[j]

(* Whoever owns content is an attempt of an operation on it.               *)
OwnersAreAttempts ==
  \A c \in Contents :
    \/ owner[c] = NoOwner
    \/ /\ owner[c].job \in Jobs /\ ContentOf[owner[c].job] = c
       /\ owner[c].gen \in 1..MaxClaims
       /\ owner[c].phase = PhaseOf(owner[c].job)

(* The attempt that made a summary is over, or has only its row to settle. *)
SummariesAreOver ==
  \A s \in summaries :
    s[2] \in Jobs => s[3] \in 1..MaxClaims /\ stage[s[2]][s[3]] \in {"completing", "over"}

(* Where every writer is fenced, content that has a summary stays complete.*)
SummariesAreFinal ==
  EveryWriterIsFenced =>
    /\ \A c \in Contents : direct[c] = NoCall
    /\ \A s \in summaries : content[s[1]] = "completed"
    /\ \A s, t \in summaries : s[1] = t[1] => s = t

ContentInv ==
  /\ TypeOK /\ scan = [r \in Runs |-> scan[r]]
  /\ AttemptsAreClaimed /\ RetriesLag /\ OwnersAreAttempts /\ SummariesAreOver
  /\ OwnerMatchesStatus /\ OutputEndsOwnership /\ SummariesAreFinal

-----------------------------------------------------------------------------
(* Facts about the constants and the phases.                               *)

LEMMA ConstantFacts ==
  /\ NoJob \notin Jobs /\ MaxClaims \in Nat /\ MaxClaims >= 1
  /\ \A j \in Jobs : ContentOf[j] \in Contents
BY OwnerAssumption, JobAssumption, LimitAssumption

LEMMA PhaseFacts ==
  /\ \A j \in Jobs : PhaseOf(j) \in Transitional
  /\ \A p \in Transitional :
       /\ p \in ContentStatus
       /\ Before(p) \in ContentStatus \ (Transitional \cup {"completed", "failed"})
       /\ After(p) \in ContentStatus \ (Transitional \cup {"failed"})
       /\ After(p) = "completed" <=> p = "processing"
       /\ After(p) # Before(p)
BY DEF PhaseOf, Transitional, Before, After, ContentStatus

LEMMA OwnerFacts ==
  /\ NoOwner \in Owner
  /\ \A j \in Jobs, g \in 1..MaxClaims :
       [job |-> j, gen |-> g, phase |-> PhaseOf(j)] \in Owner \ {NoOwner}
BY ConstantFacts, PhaseFacts DEF Owner, NoOwner

LEMMA KindFacts ==
  TypeOK => /\ Kind \in [Jobs -> {"url", "extract", "summary", "process"}]
            /\ Forced \subseteq Jobs
BY DEF TypeOK, Workload, Kind, Forced

-----------------------------------------------------------------------------
(* What the helpers of the model do.                                       *)

(* An attempt goes to s.                                                   *)
LEMMA GotoFacts ==
  ASSUME TypeOK, NEW j \in Jobs, NEW g \in 1..MaxClaims, NEW s \in Stage, Goto(j, g, s)
  PROVE  /\ stage' \in [Jobs -> [1..MaxClaims -> Stage]]
         /\ stage'[j][g] = s
         /\ \A k \in Jobs, h \in 1..MaxClaims : <<k, h>> # <<j, g>> => stage'[k][h] = stage[k][h]
BY DEF Goto, TypeOK

LEMMA SettleFacts ==
  ASSUME TypeOK, NEW j \in Jobs, NEW s \in JobStatus, SettleJob(j, s)
  PROVE  /\ status' \in [Jobs -> JobStatus] /\ fresh' \in [Jobs -> BOOLEAN]
         /\ status'[j] = s /\ \A k \in Jobs \ {j} : status'[k] = status[k]
BY DEF SettleJob, TypeOK

LEMMA WriteFacts ==
  ASSUME TypeOK, NEW c \in Contents, NEW s \in ContentStatus, NEW o \in Owner, OwnedWrite(c, s, o)
  PROVE  /\ content' \in [Contents -> ContentStatus] /\ owner' \in [Contents -> Owner]
         /\ content'[c] = s /\ owner'[c] = o
         /\ \A d \in Contents \ {c} : content'[d] = content[d] /\ owner'[d] = owner[d]
BY DEF OwnedWrite, TypeOK

LEMMA UnownedFacts ==
  ASSUME TypeOK, NEW c \in Contents, NEW s \in ContentStatus, NEW was, UnownedWrite(c, s, was)
  PROVE  /\ content' \in [Contents -> ContentStatus] /\ owner' \in [Contents -> Owner]
         /\ content'[c] = s \/ (was.status = s /\ content'[c] = content[c])
         /\ owner'[c] = NoOwner \/ (content'[c] = content[c] /\ owner'[c] = owner[c])
         /\ \A d \in Contents \ {c} : content'[d] = content[d] /\ owner'[d] = owner[d]
<1>1. CASE was.status = s
  BY <1>1 DEF UnownedWrite, TypeOK
<1>2. CASE was.status # s
  <2>1. PICK o \in Owner : OwnedWrite(c, s, o) /\ (o = NoOwner \/ (content[c] = s /\ o = owner[c]))
    BY <1>2, OwnerFacts DEF UnownedWrite, OwnerLeft, TypeOK
  <2> QED
    BY <2>1, WriteFacts
<1> QED
  BY <1>1, <1>2

LEMMA FoundFacts ==
  ASSUME TypeOK, NEW j \in Jobs, NEW g \in 1..MaxClaims
  PROVE  found[j][g] \in Found
<1>1. found \in [Jobs -> [1..MaxClaims -> Found]]
  BY DEF TypeOK
<1>2. found[j] \in [1..MaxClaims -> Found]
  BY <1>1
<1> QED
  BY <1>2

LEMMA RequeueFacts ==
  ASSUME ContentInv, NEW j \in Jobs, RequeueJob(j), status[j] \in {"failed", "in_progress"},
         gen' = gen
  PROVE  /\ status' \in [Jobs -> JobStatus] /\ fresh' \in [Jobs -> BOOLEAN]
         /\ cancelReq' \in [Jobs -> BOOLEAN] /\ retries' \in [Jobs -> 0..MaxClaims]
         /\ status'[j] = "queued" /\ \A k \in Jobs \ {j} : status'[k] = status[k]
         /\ RetriesLag'
<1>1. TypeOK /\ RetriesLag
  BY DEF ContentInv
<1>2. /\ status' \in [Jobs -> JobStatus] /\ fresh' \in [Jobs -> BOOLEAN]
      /\ status'[j] = "queued" /\ \A k \in Jobs \ {j} : status'[k] = status[k]
  BY <1>1, SettleFacts DEF RequeueJob, JobStatus
<1>3. cancelReq' \in [Jobs -> BOOLEAN]
  BY <1>1 DEF RequeueJob, TypeOK
<1>4. retries[j] + 1 <= gen[j] /\ gen[j] \in 0..MaxClaims /\ retries[j] \in 0..MaxClaims
  BY <1>1 DEF RetriesLag, TypeOK
<1>5. retries' = [retries EXCEPT ![j] = retries[j] + 1]
  BY DEF RequeueJob
<1>6. retries' \in [Jobs -> 0..MaxClaims]
  BY <1>1, <1>4, <1>5, ConstantFacts DEF TypeOK
<1>7. retries'[j] <= gen[j] /\ \A k \in Jobs \ {j} : retries'[k] = retries[k]
  BY <1>1, <1>4, <1>5 DEF TypeOK
<1> QED
  BY <1>1, <1>2, <1>3, <1>6, <1>7 DEF RetriesLag

-----------------------------------------------------------------------------
(* What a step leaves alone stays in order.                                *)

Content == OwnersAreAttempts /\ OwnerMatchesStatus /\ OutputEndsOwnership /\ SummariesAreFinal
Attempts == AttemptsAreClaimed /\ SummariesAreOver

LEMMA UnwrittenContent ==
  ASSUME ContentInv, UNCHANGED <<content_vars, workload>>
  PROVE  Content'
BY DEF ContentInv, content_vars, Content, OwnersAreAttempts, OwnerMatchesStatus, OutputEndsOwnership,
       SummariesAreFinal, EveryWriterIsFenced, Forced, PhaseOf, Kind

LEMMA UnmovedAttempts ==
  ASSUME ContentInv, UNCHANGED <<stage, gen, workload>>,
         summaries' \subseteq summaries \cup (Contents \X {NoJob} \X {0})
  PROVE  Attempts'
BY ConstantFacts DEF ContentInv, Attempts, AttemptsAreClaimed, SummariesAreOver, Forced

LEMMA UnclaimedRetries ==
  ASSUME ContentInv, UNCHANGED <<status, gen, retries>>
  PROVE  RetriesLag'
BY DEF ContentInv, RetriesLag

LEMMA SettledRetries ==
  ASSUME ContentInv, NEW j \in Jobs, NEW s \in JobStatus, SettleJob(j, s), UNCHANGED <<gen, retries>>,
         s = "cancelled" \/ status[j] = "in_progress"
  PROVE  RetriesLag'
BY SettleFacts DEF ContentInv, RetriesLag

LEMMA MovedAttempts ==
  ASSUME ContentInv, NEW j \in Jobs, NEW g \in 1..MaxClaims, NEW s \in Stage \ {"none"}, Goto(j, g, s),
         stage[j][g] \notin {"none", "over"}, UNCHANGED <<gen, workload>>,
         s \in Preparing => j \in Forced,
         stage[j][g] = "completing" => s = "over",
         summaries' \subseteq summaries \/ s = "completing",
         summaries' \subseteq summaries \cup {<<ContentOf[j], j, g>>}
  PROVE  Attempts'
<1>1. TypeOK /\ AttemptsAreClaimed /\ SummariesAreOver
  BY DEF ContentInv
<1>2. /\ stage'[j][g] = s
      /\ \A k \in Jobs, h \in 1..MaxClaims : <<k, h>> # <<j, g>> => stage'[k][h] = stage[k][h]
  BY <1>1, GotoFacts
<1>3. AttemptsAreClaimed'
  BY <1>1, <1>2 DEF AttemptsAreClaimed, Forced
<1>4. ASSUME NEW x \in summaries', x[2] \in Jobs
      PROVE  x[3] \in 1..MaxClaims /\ stage'[x[2]][x[3]] \in {"completing", "over"}
  <2>1. CASE x \in summaries
    BY <1>1, <1>2, <1>4, <2>1 DEF SummariesAreOver
  <2>2. CASE x \notin summaries
    BY <1>2, <1>4, <2>2
  <2> QED
    BY <2>1, <2>2
<1> QED
  BY <1>3, <1>4 DEF Attempts, SummariesAreOver

(* A writer without a claim: it takes the owner away, or there was none to *)
(* mismatch.                                                               *)
LEMMA UnownedContent ==
  ASSUME ContentInv, NEW c \in Contents, NEW s \in ContentStatus, NEW was, UnownedWrite(c, s, was),
         UNCHANGED workload, ~EveryWriterIsFenced,
         summaries' \subseteq summaries \cup (Contents \X {NoJob} \X {0})
  PROVE  Content'
<1>1. /\ TypeOK /\ OwnersAreAttempts /\ OwnerMatchesStatus /\ OutputEndsOwnership
  BY DEF ContentInv
<1>2. /\ owner'[c] = NoOwner \/ (content'[c] = content[c] /\ owner'[c] = owner[c])
      /\ \A d \in Contents \ {c} : content'[d] = content[d] /\ owner'[d] = owner[d]
  BY <1>1, UnownedFacts
<1>3. \A j \in Jobs : PhaseOf(j)' = PhaseOf(j)
  BY DEF PhaseOf, Kind
<1>4. OwnersAreAttempts'
  BY <1>1, <1>2, <1>3 DEF OwnersAreAttempts
<1>5. OwnerMatchesStatus'
  BY <1>1, <1>2 DEF OwnerMatchesStatus
<1>6. OutputEndsOwnership'
  <2>1. ASSUME NEW d \in Contents, owner'[d] # NoOwner
        PROVE  <<d, owner'[d].job, owner'[d].gen>> \notin summaries'
    <3>1. owner'[d] = owner[d]
      BY <1>2, <2>1
    <3>2. owner[d].job # NoJob /\ <<d, owner[d].job, owner[d].gen>> \notin summaries
      BY <1>1, <2>1, <3>1, ConstantFacts DEF OwnersAreAttempts, OutputEndsOwnership
    <3> QED
      BY <3>1, <3>2
  <2> QED
    BY <2>1 DEF OutputEndsOwnership
<1>7. SummariesAreFinal'
  BY DEF SummariesAreFinal, EveryWriterIsFenced, Forced
<1> QED
  BY <1>4, <1>5, <1>6, <1>7 DEF Content

(* A writer with one: it becomes the owner, fails what it owns, or gives   *)
(* it up, with a summary if that completes it.                             *)
LEMMA OwnedContent ==
  ASSUME ContentInv, NEW c \in Contents, NEW s \in ContentStatus, NEW o \in Owner, OwnedWrite(c, s, o),
         NEW x, x[1] = c, summaries' \in {summaries, summaries \cup {x}},
         summaries' # summaries => s = "completed" /\ o = NoOwner,
         UNCHANGED <<direct, workload>>,
         content[c] # "completed",
         \/ o = NoOwner
         \/ /\ o.job \in Jobs /\ ContentOf[o.job] = c /\ o.gen \in 1..MaxClaims
            /\ o.phase = PhaseOf(o.job) /\ s \in {o.phase, "failed"}
            /\ <<c, o.job, o.gen>> \notin summaries
  PROVE  Content'
<1>1. TypeOK /\ OwnersAreAttempts /\ OwnerMatchesStatus /\ OutputEndsOwnership /\ SummariesAreFinal
  BY DEF ContentInv
<1>2. /\ content'[c] = s /\ owner'[c] = o
      /\ \A d \in Contents \ {c} : content'[d] = content[d] /\ owner'[d] = owner[d]
  BY <1>1, WriteFacts
<1>3. \A j \in Jobs : PhaseOf(j)' = PhaseOf(j)
  BY DEF PhaseOf, Kind
<1>4. OwnersAreAttempts'
  BY <1>1, <1>2, <1>3 DEF OwnersAreAttempts
<1>5. OwnerMatchesStatus'
  BY <1>1, <1>2, ConstantFacts DEF OwnerMatchesStatus
<1>6. OutputEndsOwnership'
  <2>1. ASSUME NEW d \in Contents, owner'[d] # NoOwner
        PROVE  <<d, owner'[d].job, owner'[d].gen>> \notin summaries'
    <3>1. CASE d = c
      BY <1>2, <2>1, <3>1
    <3>2. CASE d # c
      <4>1. <<d, owner'[d].job, owner'[d].gen>> # x
        BY <3>2
      <4> QED
        BY <1>1, <1>2, <2>1, <3>2, <4>1 DEF OutputEndsOwnership
    <3> QED
      BY <3>1, <3>2
  <2> QED
    BY <2>1 DEF OutputEndsOwnership
<1>7. SummariesAreFinal'
  <2> SUFFICES ASSUME EveryWriterIsFenced'
               PROVE  /\ \A d \in Contents : direct'[d] = NoCall
                      /\ \A y \in summaries' : content'[y[1]] = "completed"
                      /\ \A y, z \in summaries' : y[1] = z[1] => y = z
    BY DEF SummariesAreFinal
  <2>1. EveryWriterIsFenced
    BY DEF EveryWriterIsFenced, Forced
  <2>2. \A y \in summaries : y[1] \in Contents \ {c} /\ content[y[1]] = "completed"
    BY <1>1, <2>1 DEF SummariesAreFinal, TypeOK, Summary
  <2>3. \A y \in summaries' : content'[y[1]] = "completed"
    BY <1>2, <2>2
  <2>4. \A y, z \in summaries' : y[1] = z[1] => y = z
    BY <1>1, <2>1, <2>2 DEF SummariesAreFinal
  <2> QED
    BY <1>1, <2>1, <2>3, <2>4 DEF SummariesAreFinal
<1> QED
  BY <1>4, <1>5, <1>6, <1>7 DEF Content

LEMMA Together ==
  ASSUME TypeOK', scan' = [r \in Runs |-> scan'[r]], Attempts', RetriesLag', Content'
  PROVE  ContentInv'
BY DEF ContentInv, Attempts, Content

-----------------------------------------------------------------------------
(* Every step preserves the invariant.                                     *)

LEMMA InitContent == Init => ContentInv
<1> SUFFICES ASSUME Init PROVE ContentInv
  OBVIOUS
<1>1. workload \in Workload
  BY WorkloadAssumption DEF Init
<1>2. \A c \in Contents : content[c] \in {"pending", "parsed"}
  BY <1>1 DEF Init, Workload
<1>3. content \in [Contents -> ContentStatus]
  BY <1>1 DEF Init, Workload, ContentStatus
<1>4. TypeOK
  <2>1. Unread \in Found /\ NoCall \in Call
    BY DEF Unread, Found, NoCall, Call
  <2> QED
    BY <1>1, <1>3, <2>1, OwnerFacts, ConstantFacts DEF Init, TypeOK, JobStatus, Stage
<1>5. AttemptsAreClaimed /\ RetriesLag /\ OwnersAreAttempts /\ SummariesAreOver
  BY DEF Init, AttemptsAreClaimed, Preparing, RetriesLag, OwnersAreAttempts, SummariesAreOver
<1>6. OwnerMatchesStatus /\ OutputEndsOwnership /\ SummariesAreFinal
  BY <1>2 DEF Init, OwnerMatchesStatus, OutputEndsOwnership, SummariesAreFinal
<1> QED
  BY <1>4, <1>5, <1>6 DEF Init, ContentInv

LEMMA QueueKeepsContent ==
  ASSUME ContentInv, NEW j \in Jobs
  PROVE  /\ Claim(j) => ContentInv'
         /\ Cancel(j) \/ Retry(j) \/ Sweep(j) \/ Heartbeat(j) \/ GoStale(j) => ContentInv'
<1>0. TypeOK /\ scan = [r \in Runs |-> scan[r]]
  BY DEF ContentInv
<1>1. ASSUME Claim(j) PROVE ContentInv'
  <2>1. /\ SettleJob(j, "in_progress") /\ gen' = [gen EXCEPT ![j] = @ + 1]
        /\ Goto(j, gen[j] + 1, "claimed") /\ status[j] = "queued" /\ gen[j] < MaxClaims
        /\ UNCHANGED <<content_vars, cancelReq, retries, found, scan, workload>>
    BY <1>1 DEF Claim
  <2>2. gen[j] \in 0..MaxClaims /\ gen[j] + 1 \in 1..MaxClaims
    BY <1>0, <2>1, ConstantFacts DEF TypeOK
  <2>3. /\ gen' \in [Jobs -> 0..MaxClaims] /\ gen'[j] = gen[j] + 1
        /\ \A k \in Jobs \ {j} : gen'[k] = gen[k]
    BY <1>0, <2>1, <2>2 DEF TypeOK
  <2>4. /\ status' \in [Jobs -> JobStatus] /\ fresh' \in [Jobs -> BOOLEAN]
        /\ status'[j] = "in_progress" /\ \A k \in Jobs \ {j} : status'[k] = status[k]
    BY <1>0, <2>1, SettleFacts DEF JobStatus
  <2>5. /\ stage' \in [Jobs -> [1..MaxClaims -> Stage]]
        /\ stage'[j][gen[j] + 1] = "claimed"
        /\ \A k \in Jobs, h \in 1..MaxClaims : <<k, h>> # <<j, gen[j] + 1>> => stage'[k][h] = stage[k][h]
    BY <1>0, <2>1, <2>2, GotoFacts DEF Stage
  <2>6. TypeOK'
    BY <1>0, <2>1, <2>3, <2>4, <2>5 DEF TypeOK, content_vars
  <2>7. AttemptsAreClaimed'
    <3>1. ASSUME NEW k \in Jobs PROVE gen[k] \in Nat /\ gen'[k] \in Nat /\ gen[k] <= gen'[k]
      <4>1. gen[k] \in 0..MaxClaims
        BY <1>0 DEF TypeOK
      <4>2. gen[k] \in Nat
        BY <4>1, ConstantFacts
      <4>3. CASE k = j
        BY <2>3, <4>2, <4>3
      <4>4. CASE k # j
        BY <2>3, <4>2, <4>4
      <4> QED
        BY <4>3, <4>4
    <3>2. ASSUME NEW k \in Jobs, NEW h \in 1..MaxClaims
          PROVE  /\ stage'[k][h] # "none" => h <= gen'[k]
                 /\ stage'[k][h] \in Preparing => k \in Forced'
      <4>1. CASE <<k, h>> = <<j, gen[j] + 1>>
        BY <2>2, <2>3, <2>5, <4>1 DEF Preparing
      <4>2. CASE <<k, h>> # <<j, gen[j] + 1>>
        <5>1. stage'[k][h] = stage[k][h]
          BY <2>5, <4>2
        <5>2. stage[k][h] # "none" => h <= gen[k]
          BY DEF ContentInv, AttemptsAreClaimed
        <5>3. stage[k][h] \in Preparing => k \in Forced'
          BY <2>1 DEF ContentInv, AttemptsAreClaimed, Forced
        <5> QED
          BY <3>1, <5>1, <5>2, <5>3
      <4> QED
        BY <4>1, <4>2
    <3> QED
      BY <3>2 DEF AttemptsAreClaimed
  <2>8. SummariesAreOver'
    <3>1. stage[j][gen[j] + 1] = "none"
      BY <2>2 DEF ContentInv, AttemptsAreClaimed
    <3> QED
      BY <2>1, <2>5, <3>1 DEF ContentInv, SummariesAreOver, content_vars
  <2>9. RetriesLag'
    BY <1>0, <2>1, <2>2, <2>3, <2>4 DEF ContentInv, RetriesLag, TypeOK
  <2> QED
    BY <1>0, <2>1, <2>6, <2>7, <2>8, <2>9, UnwrittenContent, Together DEF Attempts
<1>2. ASSUME Cancel(j) \/ Retry(j) \/ Sweep(j) \/ Heartbeat(j) \/ GoStale(j) PROVE ContentInv'
  <2>1. UNCHANGED <<content_vars, gen, stage, found, scan, workload>>
    BY <1>2 DEF Cancel, Retry, Sweep, Heartbeat, GoStale
  <2>2. /\ status' \in [Jobs -> JobStatus] /\ fresh' \in [Jobs -> BOOLEAN]
        /\ cancelReq' \in [Jobs -> BOOLEAN] /\ retries' \in [Jobs -> 0..MaxClaims]
        /\ RetriesLag'
    <3>1. CASE Cancel(j)
      BY <1>0, <2>1, <3>1, SettleFacts, SettledRetries DEF Cancel, JobStatus, TypeOK
    <3>2. CASE Retry(j)
      BY <2>1, <3>2, RequeueFacts DEF Retry
    <3>3. CASE Sweep(j)
      BY <1>0, <2>1, <3>3, SettleFacts, SettledRetries DEF Sweep, JobStatus, TypeOK
    <3>4. CASE Heartbeat(j) \/ GoStale(j)
      BY <1>0, <2>1, <3>4, UnclaimedRetries DEF Heartbeat, GoStale, TypeOK
    <3> QED
      BY <1>2, <3>1, <3>2, <3>3, <3>4
  <2>3. TypeOK'
    BY <1>0, <2>1, <2>2 DEF TypeOK, content_vars
  <2>4. Attempts' /\ Content'
    BY <2>1, UnmovedAttempts, UnwrittenContent DEF content_vars
  <2> QED
    BY <1>0, <2>1, <2>2, <2>3, <2>4, Together
<1> QED
  BY <1>1, <1>2

(* An attempt that does not write content.                                 *)
LEMMA SettlingKeepsContent ==
  ASSUME ContentInv, NEW j \in Jobs, NEW g \in 1..MaxClaims
  PROVE  Dispatch(j, g) \/ ResolveOwned(j, g) \/ Finish(j, g) => ContentInv'
<1> SUFFICES ASSUME Dispatch(j, g) \/ ResolveOwned(j, g) \/ Finish(j, g)
             PROVE  ContentInv'
  OBVIOUS
<1>0. TypeOK /\ scan = [r \in Runs |-> scan[r]]
  BY DEF ContentInv
<1>1. UNCHANGED <<content_vars, gen, cancelReq, retries, found, scan, workload>>
  BY DEF Dispatch, ResolveOwned, Finish, job_vars
<1>2. PICK s \in Stage \ {"none"} :
         Goto(j, g, s) /\ (s \in Preparing => j \in Forced) /\ (stage[j][g] = "completing" => s = "over")
  BY DEF Dispatch, ResolveOwned, Finish, Stage, Preparing
<1>3. stage[j][g] \notin {"none", "over"}
  BY DEF Dispatch, ResolveOwned, Finish
<1>4. /\ status' \in [Jobs -> JobStatus] /\ fresh' \in [Jobs -> BOOLEAN]
      /\ RetriesLag'
  <2>1. CASE UNCHANGED <<status, fresh>>
    BY <1>0, <1>1, <2>1, UnclaimedRetries DEF TypeOK
  <2>2. ASSUME NEW t \in JobStatus, status[j] = "in_progress", SettleJob(j, t)
        PROVE  /\ status' \in [Jobs -> JobStatus] /\ fresh' \in [Jobs -> BOOLEAN]
               /\ RetriesLag'
    BY <1>0, <1>1, <2>2, SettleFacts, SettledRetries
  <2> QED
    BY <2>1, <2>2 DEF Dispatch, ResolveOwned, Finish, HoldsRow, JobStatus, job_vars
<1>5. stage' \in [Jobs -> [1..MaxClaims -> Stage]]
  BY <1>0, <1>2, GotoFacts
<1>6. TypeOK'
  BY <1>0, <1>1, <1>4, <1>5 DEF TypeOK, content_vars
<1>7. Attempts'
  BY <1>1, <1>2, <1>3, MovedAttempts DEF content_vars
<1> QED
  BY <1>0, <1>1, <1>4, <1>6, <1>7, UnwrittenContent, Together

(* The read and the delete of a forced preparation, not committed yet.     *)
LEMMA PreparingKeepsContent ==
  ASSUME ContentInv, NEW j \in Jobs, NEW g \in 1..MaxClaims
  PROVE  PrepareRead(j, g) \/ PrepareDelete(j, g) => ContentInv'
<1> SUFFICES ASSUME PrepareRead(j, g) \/ PrepareDelete(j, g)
             PROVE  ContentInv'
  OBVIOUS
<1>0. TypeOK /\ scan = [r \in Runs |-> scan[r]]
  BY DEF ContentInv
<1>1. /\ UNCHANGED <<content_vars, job_vars, scan, workload>>
      /\ stage[j][g] \in Preparing
  BY DEF PrepareRead, PrepareDelete, Preparing
<1>2. PICK s \in {"delete", "reset"} : Goto(j, g, s)
  BY DEF PrepareRead, PrepareDelete
<1>3. s \in Stage \ {"none"} /\ stage[j][g] \notin {"none", "over", "completing"}
  BY <1>1, <1>2 DEF Stage, Preparing
<1>4. j \in Forced
  BY <1>1 DEF ContentInv, AttemptsAreClaimed
<1>5. found' \in [Jobs -> [1..MaxClaims -> Found]]
  <2>1. CASE PrepareRead(j, g)
    <3>1. [Unread EXCEPT !.status = content[ContentOf[j]],
                         !.owned = owner[ContentOf[j]] # NoOwner] \in Found
      BY <1>0, ConstantFacts DEF TypeOK, Found, Unread
    <3> QED
      BY <1>0, <2>1, <3>1 DEF PrepareRead, TypeOK
  <2>2. CASE PrepareDelete(j, g)
    <3>1. [found[j][g] EXCEPT !.deleted = SummariesOf(ContentOf[j])] \in Found
      <4>1. SummariesOf(ContentOf[j]) \in SUBSET Summary
        BY <1>0 DEF TypeOK, SummariesOf
      <4>2. found[j][g] \in Found
        BY <1>0, FoundFacts
      <4>3. PICK X \in SUBSET Summary : X = SummariesOf(ContentOf[j])
        BY <4>1
      <4>4. [found[j][g] EXCEPT !.deleted = X] \in Found
        BY <4>2 DEF Found
      <4> QED
        BY <4>3, <4>4
    <3>2. found' = [found EXCEPT ![j][g] =
                      [found[j][g] EXCEPT !.deleted = SummariesOf(ContentOf[j])]]
      BY <2>2 DEF PrepareDelete
    <3> QED
      BY <1>0, <3>1, <3>2 DEF TypeOK
  <2> QED
    BY <2>1, <2>2
<1>6. stage' \in [Jobs -> [1..MaxClaims -> Stage]]
  BY <1>0, <1>2, <1>3, GotoFacts
<1>7. TypeOK'
  BY <1>0, <1>1, <1>5, <1>6 DEF TypeOK, content_vars, job_vars
<1>8. Attempts'
  BY <1>1, <1>2, <1>3, <1>4, MovedAttempts DEF content_vars, job_vars
<1> QED
  BY <1>0, <1>1, <1>7, <1>8, UnwrittenContent, UnclaimedRetries, Together DEF content_vars, job_vars

(* The commit of a forced preparation.                                     *)
LEMMA ResetKeepsContent ==
  ASSUME ContentInv, NEW j \in Jobs, NEW g \in 1..MaxClaims, PrepareReset(j, g)
  PROVE  ContentInv'
<1>0. TypeOK /\ scan = [r \in Runs |-> scan[r]]
  BY DEF ContentInv
<1> DEFINE c == ContentOf[j]
           was == found[j][g]
<1>1. /\ stage[j][g] = "reset" /\ summaries' = summaries \ was.deleted
      /\ UnownedWrite(c, "parsed", was) /\ Goto(j, g, "acquire")
      /\ UNCHANGED <<direct, job_vars, found, scan, workload>> /\ c \in Contents
  BY ConstantFacts DEF PrepareReset
<1>2. ~EveryWriterIsFenced
  BY <1>1 DEF ContentInv, AttemptsAreClaimed, EveryWriterIsFenced, Preparing
<1> HIDE DEF c, was
<1>3. Content'
  BY <1>1, <1>2, UnownedContent DEF ContentStatus
<1>4. Attempts'
  BY <1>1, MovedAttempts DEF Stage, Preparing, job_vars
<1>5. content' \in [Contents -> ContentStatus] /\ owner' \in [Contents -> Owner]
  BY <1>0, <1>1, UnownedFacts DEF ContentStatus
<1>6. stage' \in [Jobs -> [1..MaxClaims -> Stage]]
  BY <1>0, <1>1, GotoFacts DEF Stage
<1>7. TypeOK'
  BY <1>0, <1>1, <1>5, <1>6 DEF TypeOK, job_vars
<1> QED
  BY <1>0, <1>1, <1>3, <1>4, <1>7, UnclaimedRetries, Together DEF job_vars

(* Where a caller without a claim is at work, not every writer is fenced.  *)
LEMMA CallsAreUnfenced ==
  ASSUME ContentInv, NEW c \in Contents, direct[c].at # "none"
  PROVE  ~EveryWriterIsFenced
BY DEF ContentInv, SummariesAreFinal, NoCall

(* A call that only reads.                                                 *)
LEMMA CallReadsKeepContent ==
  ASSUME ContentInv, NEW c \in Contents
  PROVE  /\ \A phase \in Transitional : DirectRead(c, phase) => ContentInv'
         /\ DirectLook(c) \/ DirectReread(c) => ContentInv'
<1>0. TypeOK /\ scan = [r \in Runs |-> scan[r]]
  BY DEF ContentInv
<1>1. ASSUME ~EveryWriterIsFenced, direct' \in [Contents -> Call],
             UNCHANGED <<content, owner, summaries, job_vars, stage, found, scan, workload>>
      PROVE  ContentInv'
  <2>1. TypeOK'
    BY <1>0, <1>1 DEF TypeOK, job_vars
  <2>2. Content'
    BY <1>1 DEF ContentInv, Content, OwnersAreAttempts, OwnerMatchesStatus, OutputEndsOwnership,
                SummariesAreFinal, EveryWriterIsFenced, Forced, PhaseOf, Kind
  <2> QED
    BY <1>0, <1>1, <2>1, <2>2, UnmovedAttempts, UnclaimedRetries, Together DEF job_vars
<1>2. ASSUME NEW phase \in Transitional, DirectRead(c, phase) PROVE ContentInv'
  <2>1. ~EveryWriterIsFenced
    BY <1>2 DEF DirectRead, EveryWriterIsFenced
  <2>2. [at |-> IF phase = "parsing" THEN "starting" ELSE "looking",
         phase |-> phase, status |-> content[c], owned |-> owner[c] # NoOwner] \in Call
    BY <1>0 DEF TypeOK, Call
  <2>3. direct' \in [Contents -> Call]
    BY <1>0, <1>2, <2>2 DEF DirectRead, TypeOK
  <2> QED
    BY <1>1, <1>2, <2>1, <2>3 DEF DirectRead
<1>3. ASSUME DirectLook(c) \/ DirectReread(c) PROVE ContentInv'
  <2>1. ~EveryWriterIsFenced
    BY <1>3, CallsAreUnfenced DEF DirectLook, DirectReread
  <2>2. direct[c] \in Call /\ content[c] \in ContentStatus
    BY <1>0 DEF TypeOK
  <2>3. PICK call \in Call : direct' = [direct EXCEPT ![c] = call]
    <3>1. CASE DirectLook(c)
      <4>1. PICK call \in {[direct[c] EXCEPT !.at = "starting"], NoCall,
                           [direct[c] EXCEPT !.at = "noting"]} :
                   direct' = [direct EXCEPT ![c] = call]
        BY <3>1 DEF DirectLook
      <4>2. call \in Call
        <5>1. direct[c] \in Call \ {NoCall}
          BY <2>2, <3>1 DEF DirectLook, NoCall
        <5> QED
          BY <4>1, <5>1 DEF Call
      <4> QED
        BY <4>1, <4>2
    <3>2. CASE DirectReread(c)
      <4>1. PICK was \in {content[c], direct[c].status} :
                   direct' = [direct EXCEPT ![c] = [direct[c] EXCEPT
                               !.at = "failing", !.status = was, !.owned = owner[c] # NoOwner]]
        BY <3>2 DEF DirectReread, CallGoes
      <4>2. [direct[c] EXCEPT !.at = "failing", !.status = was,
                              !.owned = owner[c] # NoOwner] \in Call
        <5>1. direct[c] \in Call \ {NoCall}
          BY <2>2, <3>2 DEF DirectReread, NoCall
        <5>2. was \in ContentStatus
          BY <2>2, <4>1, <5>1 DEF Call
        <5> QED
          BY <5>1, <5>2 DEF Call
      <4> QED
        BY <4>1, <4>2
    <3> QED
      BY <1>3, <3>1, <3>2
  <2>4. direct' \in [Contents -> Call]
    BY <1>0, <2>3 DEF TypeOK
  <2> QED
    BY <1>1, <1>3, <2>1, <2>4 DEF DirectLook, DirectReread
<1> QED
  BY <1>2, <1>3

(* A call that writes.                                                     *)
LEMMA CallWritesKeepContent ==
  ASSUME ContentInv, NEW c \in Contents
  PROVE  /\ DirectNote(c) \/ DirectStart(c) => ContentInv'
         /\ \A s \in ContentStatus : DirectEnd(c, s) => ContentInv'
<1>0. TypeOK /\ scan = [r \in Runs |-> scan[r]]
  BY DEF ContentInv
<1>1. ASSUME NEW s \in ContentStatus, UnownedWrite(c, s, direct[c]), direct[c].at # "none",
             NEW call \in Call, direct' = [direct EXCEPT ![c] = call],
             summaries' \subseteq summaries \cup (Contents \X {NoJob} \X {0}),
             UNCHANGED <<job_vars, stage, found, scan, workload>>
      PROVE  ContentInv'
  <2>1. ~EveryWriterIsFenced
    BY <1>1, CallsAreUnfenced
  <2>2. Content'
    BY <1>1, <2>1, UnownedContent
  <2>3. Attempts'
    BY <1>1, UnmovedAttempts DEF job_vars
  <2>4. content' \in [Contents -> ContentStatus] /\ owner' \in [Contents -> Owner]
    BY <1>0, <1>1, UnownedFacts
  <2>5. summaries' \subseteq Summary
    BY <1>0, <1>1, ConstantFacts DEF TypeOK, Summary
  <2>6. direct' \in [Contents -> Call]
    BY <1>0, <1>1 DEF TypeOK
  <2>7. TypeOK'
    BY <1>0, <1>1, <2>4, <2>5, <2>6 DEF TypeOK, job_vars
  <2> QED
    BY <1>0, <1>1, <2>2, <2>3, <2>7, UnclaimedRetries, Together DEF job_vars
<1>2. NoCall \in Call /\ direct[c] \in Call
  BY <1>0 DEF TypeOK, Call, NoCall
<1>3. ASSUME DirectNote(c) PROVE ContentInv'
  BY <1>1, <1>2, <1>3 DEF DirectNote, ContentStatus
<1>4. ASSUME DirectStart(c) PROVE ContentInv'
  <2>1. direct[c].phase \in Transitional /\ direct[c].phase \in ContentStatus
    BY <1>2, <1>4, PhaseFacts DEF DirectStart, Call, NoCall
  <2>2. [direct[c] EXCEPT !.at = "computing", !.status = direct[c].phase,
           !.owned = direct[c].owned /\ direct[c].status = direct[c].phase] \in Call
    BY <1>2, <1>4, <2>1 DEF DirectStart, Call, NoCall
  <2>3. /\ UnownedWrite(c, direct[c].phase, direct[c]) /\ direct[c].at # "none"
        /\ direct' = [direct EXCEPT ![c] =
             [direct[c] EXCEPT !.at = "computing", !.status = direct[c].phase,
                !.owned = direct[c].owned /\ direct[c].status = direct[c].phase]]
        /\ UNCHANGED <<summaries, job_vars, stage, found, scan, workload>>
    BY <1>4 DEF DirectStart, CallGoes
  <2> QED
    BY <1>1, <2>1, <2>2, <2>3
<1>5. ASSUME NEW s \in ContentStatus, DirectEnd(c, s) PROVE ContentInv'
  <2>1. summaries' \subseteq summaries \cup (Contents \X {NoJob} \X {0})
    BY <1>5 DEF DirectEnd
  <2> QED
    BY <1>1, <1>2, <1>5, <2>1 DEF DirectEnd
<1> QED
  BY <1>3, <1>4, <1>5

(* A transaction of an attempt that claims or gives up content.            *)
LEMMA OwnersKeepContent ==
  ASSUME ContentInv, NEW j \in Jobs, NEW g \in 1..MaxClaims
  PROVE  Acquire(j, g) \/ CommitOutput(j, g) \/ CommitFailure(j, g) => ContentInv'
<1> DEFINE c == ContentOf[j]
           mine == [job |-> j, gen |-> g, phase |-> PhaseOf(j)]
<1> SUFFICES ASSUME Acquire(j, g) \/ CommitOutput(j, g) \/ CommitFailure(j, g)
             PROVE  ContentInv'
  OBVIOUS
<1>0. /\ TypeOK /\ scan = [r \in Runs |-> scan[r]]
      /\ OwnersAreAttempts /\ OwnerMatchesStatus /\ SummariesAreOver
  BY DEF ContentInv
<1>1. /\ UNCHANGED <<job_vars, found, scan, workload>>
      /\ stage[j][g] \in {"acquire", "working"} /\ c \in Contents
  BY ConstantFacts DEF Acquire, CommitOutput, CommitFailure
<1>2. /\ <<c, j, g>> \notin summaries /\ mine \in Owner \ {NoOwner} /\ PhaseOf(j) \in Transitional
      /\ mine.job = j /\ mine.gen = g /\ mine.phase = PhaseOf(j)
  <2>1. <<c, j, g>> \notin summaries
    BY <1>0, <1>1 DEF SummariesAreOver
  <2> QED
    BY <2>1, OwnerFacts, PhaseFacts
<1> HIDE DEF c, mine
<1>3. PICK s \in Stage \ ({"none"} \cup Preparing) :
         Goto(j, g, s) /\ (summaries' # summaries => s = "completing")
  BY DEF Acquire, CommitOutput, CommitFailure, Refused, content_vars, Stage, Preparing
<1>4. summaries' \in {summaries, summaries \cup {<<c, j, g>>}}
  BY DEF Acquire, CommitOutput, CommitFailure, Refused, content_vars, c
<1>5. \/ UNCHANGED content_vars
      \/ /\ OwnedWrite(c, PhaseOf(j), mine) /\ UNCHANGED <<summaries, direct>>
         /\ content[c] # "completed"
      \/ /\ OwnedWrite(c, After(PhaseOf(j)), NoOwner) /\ owner[c] = mine /\ UNCHANGED direct
         /\ summaries' = IF PhaseOf(j) = "processing" THEN summaries \cup {<<c, j, g>>}
                                                      ELSE summaries
      \/ /\ OwnedWrite(c, "failed", mine) /\ owner[c] = mine /\ UNCHANGED <<summaries, direct>>
  <2>1. ASSUME InitialOwner(j) \/ RenewedOwner(j, g) PROVE content[c] # "completed"
    BY <1>2, <2>1, PhaseFacts DEF InitialOwner, RenewedOwner, Transitional, c
  <2>2. CASE Acquire(j, g)
    BY <2>1, <2>2 DEF Acquire, Refused, c, mine
  <2>3. CASE CommitOutput(j, g)
    BY <2>3 DEF CommitOutput, Refused, OwnsContent, c, mine
  <2>4. CASE CommitFailure(j, g)
    BY <2>4 DEF CommitFailure, Refused, OwnsContent, c, mine
  <2> QED
    BY <2>2, <2>3, <2>4
<1>6. owner[c] = mine => content[c] \in {PhaseOf(j), "failed"} /\ content[c] # "completed"
  BY <1>0, <1>1, <1>2 DEF OwnerMatchesStatus, Transitional
<1>7. UNCHANGED workload /\ <<c, j, g>>[1] = c /\ ContentOf[j] = c
  BY <1>1 DEF c
<1>8. Content' /\ content' \in [Contents -> ContentStatus] /\ owner' \in [Contents -> Owner]
                /\ direct' = direct
  <2>1. CASE UNCHANGED content_vars
    BY <1>0, <1>1, <2>1, UnwrittenContent DEF TypeOK, content_vars
  <2>2. CASE /\ OwnedWrite(c, PhaseOf(j), mine) /\ UNCHANGED <<summaries, direct>>
             /\ content[c] # "completed"
    <3>1. PhaseOf(j) \in ContentStatus \ {"completed"}
      BY <1>2, PhaseFacts DEF Transitional
    <3>2. Content'
      BY <1>1, <1>2, <1>7, <2>2, <3>1, OwnedContent
    <3> QED
      BY <1>0, <1>1, <1>2, <2>2, <3>1, <3>2, WriteFacts
  <2>3. CASE /\ OwnedWrite(c, After(PhaseOf(j)), NoOwner) /\ owner[c] = mine /\ UNCHANGED direct
             /\ summaries' = IF PhaseOf(j) = "processing" THEN summaries \cup {<<c, j, g>>}
                                                          ELSE summaries
    <3>1. /\ After(PhaseOf(j)) \in ContentStatus /\ NoOwner \in Owner
          /\ After(PhaseOf(j)) = "completed" <=> PhaseOf(j) = "processing"
      BY <1>2, PhaseFacts, OwnerFacts
    <3>2. After(PhaseOf(j)) = "completed" => \E y \in summaries' : y[1] = c
      <4>1. PhaseOf(j) = "processing" => <<c, j, g>> \in summaries'
        BY <2>3
      <4> QED
        BY <1>7, <3>1, <4>1
    <3>3. summaries' # summaries => After(PhaseOf(j)) = "completed"
      BY <2>3, <3>1
    <3>4. Content'
      BY <1>1, <1>4, <1>6, <1>7, <2>3, <3>1, <3>2, <3>3, OwnedContent
    <3> QED
      BY <1>0, <1>1, <2>3, <3>1, <3>4, WriteFacts
  <2>4. CASE OwnedWrite(c, "failed", mine) /\ owner[c] = mine /\ UNCHANGED <<summaries, direct>>
    <3>1. "failed" \in ContentStatus
      BY DEF ContentStatus
    <3>2. Content'
      BY <1>1, <1>2, <1>6, <1>7, <2>4, <3>1, OwnedContent
    <3> QED
      BY <1>0, <1>1, <1>2, <2>4, <3>1, <3>2, WriteFacts
  <2> QED
    BY <1>5, <2>1, <2>2, <2>3, <2>4
<1>9. Attempts'
  BY <1>1, <1>3, <1>4, <1>7, MovedAttempts DEF job_vars
<1>10. TypeOK'
  <2>1. stage' \in [Jobs -> [1..MaxClaims -> Stage]]
    BY <1>0, <1>3, GotoFacts
  <2>2. <<c, j, g>> \in Summary
    BY <1>1 DEF Summary
  <2>3. summaries' \subseteq Summary
    BY <1>0, <1>4, <2>2 DEF TypeOK
  <2> QED
    BY <1>0, <1>1, <1>8, <2>1, <2>3 DEF TypeOK, job_vars
<1>11. RetriesLag'
  BY <1>1, UnclaimedRetries DEF job_vars
<1> QED
  BY <1>0, <1>1, <1>8, <1>9, <1>10, <1>11, Together

(* What a reconciliation decides to do, it does to the claim that owns the *)
(* row, and that is neither waiting nor running.                           *)
LEMMA DecisionFacts ==
  ASSUME ContentInv, NEW c \in Contents, Decision(c) # "none"
  PROVE  /\ owner[c] # NoOwner /\ owner[c].job \in Jobs
         /\ owner[c].gen = gen[owner[c].job]
         /\ content[c] \in {"failed", owner[c].phase}
         /\ status[owner[c].job] # "queued"
         /\ status[owner[c].job] = "in_progress" =>
              ~fresh[owner[c].job] /\ Decision(c) \in {"cancel", "reclaim"}
         /\ Decision(c) = "reclaim" => status[owner[c].job] = "in_progress"
         /\ Decision(c) = "retry" => status[owner[c].job] = "failed"
         /\ Decision(c) = "project" /\ owner[c].phase = "processing" =>
              <<c, owner[c].job, owner[c].gen>> \in summaries
<1>1. ExactOwner(c) /\ status[owner[c].job] # "queued"
  BY DEF Decision
<1>2. owner[c] # NoOwner /\ owner[c].gen = gen[owner[c].job] /\ content[c] \in {"failed", owner[c].phase}
  BY <1>1 DEF ExactOwner
<1>3. owner[c].job \in Jobs
  BY <1>2 DEF ContentInv, OwnersAreAttempts
<1>4. CASE status[owner[c].job] = "in_progress"
  <2>1. Decision(c) = DecideRunning(owner[c].job)
    BY <1>1, <1>4 DEF Decision
  <2> QED
    BY <1>1, <1>2, <1>3, <1>4, <2>1 DEF DecideRunning
<1>5. CASE status[owner[c].job] # "in_progress"
  <2>1. Decision(c) = DecideSettled(c, owner[c].job)
    BY <1>1, <1>5 DEF Decision
  <2>2. Decision(c) # "reclaim" /\ (Decision(c) = "retry" => status[owner[c].job] = "failed")
    BY <2>1 DEF DecideSettled
  <2>3. Decision(c) = "project" /\ owner[c].phase = "processing" =>
          <<c, owner[c].job, owner[c].gen>> \in summaries
    BY <1>2, <2>1 DEF DecideSettled
  <2> QED
    BY <1>1, <1>2, <1>3, <1>5, <2>2, <2>3
<1> QED
  BY <1>4, <1>5

LEMMA ReleaseFacts ==
  ASSUME ContentInv, NEW c \in Contents, NEW decision, decision = Decision(c), decision # "none",
         Release(c, decision), UNCHANGED <<summaries, direct, workload>>
  PROVE  /\ Content'
         /\ content' \in [Contents -> ContentStatus] /\ owner' \in [Contents -> Owner]
<1> DEFINE s == IF decision = "project" THEN After(owner[c].phase) ELSE Before(owner[c].phase)
<1>1. /\ OwnedWrite(c, s, NoOwner) /\ owner[c].phase \in Transitional
      /\ owner[c] # NoOwner /\ TypeOK /\ content[c] # "completed"
  <2>1. OwnedWrite(c, s, NoOwner)
    BY DEF Release
  <2>2. owner[c] # NoOwner /\ owner[c].job \in Jobs /\ content[c] \in {"failed", owner[c].phase}
    BY DecisionFacts
  <2>3. TypeOK /\ owner[c].phase = PhaseOf(owner[c].job)
    BY <2>2 DEF ContentInv, OwnersAreAttempts
  <2>4. owner[c].phase \in Transitional
    BY <2>2, <2>3, PhaseFacts
  <2>5. content[c] # "completed"
    BY <2>2, <2>4 DEF Transitional
  <2> QED
    BY <2>1, <2>2, <2>3, <2>4, <2>5
<1>2. s \in ContentStatus /\ (s = "completed" => decision = "project" /\ owner[c].phase = "processing")
  BY <1>1, PhaseFacts
<1>3. s = "completed" => \E y \in summaries' : y[1] = c
  <2>1. s = "completed" => <<c, owner[c].job, owner[c].gen>> \in summaries'
    BY <1>2, DecisionFacts
  <2>2. <<c, owner[c].job, owner[c].gen>>[1] = c
    OBVIOUS
  <2> QED
    BY <2>1, <2>2
<1> HIDE DEF s
<1>4. NoOwner \in Owner /\ <<c, NoJob, 0>>[1] = c
  BY OwnerFacts
<1>5. Content'
  BY <1>1, <1>2, <1>3, <1>4, OwnedContent
<1> QED
  BY <1>1, <1>2, <1>4, <1>5, WriteFacts

LEMMA ReconciliationKeepsContent ==
  ASSUME ContentInv, NEW r \in Runs
  PROVE  /\ \A c \in Contents : Scan(r, c) => ContentInv'
         /\ Apply(r) \/ Skip(r) => ContentInv'
<1>0. TypeOK /\ scan = [q \in Runs |-> scan[q]]
  BY DEF ContentInv
<1>1. ASSUME NEW c \in Contents, Scan(r, c) PROVE ContentInv'
  <2>1. /\ scan' = [scan EXCEPT ![r] = Evidence(c)]
        /\ UNCHANGED <<content_vars, job_vars, stage, found, workload>>
    BY <1>1 DEF Scan
  <2>2. Evidence(c).content = c /\ Evidence(c).owner = owner[c]
    BY DEF Evidence
  <2>3. \A q \in Runs : scan'[q] = IF q = r THEN Evidence(c) ELSE scan[q]
    BY <1>0, <2>1
  <2>4. scan' = [q \in Runs |-> scan'[q]]
    BY <1>0, <2>1
  <2>5. TypeOK'
    BY <1>0, <2>1, <2>2, <2>3 DEF TypeOK, content_vars, job_vars
  <2> QED
    BY <2>1, <2>4, <2>5, UnmovedAttempts, UnwrittenContent, UnclaimedRetries, Together
    DEF content_vars, job_vars
<1>2. ASSUME Apply(r) \/ Skip(r)
      PROVE  /\ scan' = [q \in Runs |-> scan'[q]]
             /\ \A q \in Runs : scan'[q] = NoScan \/ scan'[q] = scan[q]
  BY <1>0, <1>2 DEF Apply, Skip
<1>3. ASSUME Skip(r) PROVE ContentInv'
  <2>1. TypeOK'
    BY <1>0, <1>2, <1>3 DEF Skip, TypeOK, content_vars, job_vars
  <2> QED
    BY <1>2, <1>3, <2>1, UnmovedAttempts, UnwrittenContent, UnclaimedRetries, Together
    DEF Skip, content_vars, job_vars
<1>4. ASSUME Apply(r) PROVE ContentInv'
  <2>1. PICK c \in Contents : c = scan[r].content
    BY <1>0, <1>4 DEF Apply, TypeOK
  <2>2. PICK j : j = owner[c].job
    OBVIOUS
  <2>3. PICK d : d = Decision(c)
    OBVIOUS
  <2>4. UNCHANGED <<summaries, direct, gen, stage, found, workload>>
    BY <1>4 DEF Apply
  <2>5. /\ Repair(c) /\ d # "none" /\ j \in Jobs
        /\ d = "reclaim" => status[j] = "in_progress"
        /\ d = "retry" => status[j] = "failed"
    BY <1>4, <2>1, <2>2, <2>3, DecisionFacts DEF Apply, Repair
  <2>6. /\ status' \in [Jobs -> JobStatus] /\ fresh' \in [Jobs -> BOOLEAN]
        /\ cancelReq' \in [Jobs -> BOOLEAN] /\ retries' \in [Jobs -> 0..MaxClaims]
        /\ RetriesLag'
    <3>1. CASE RequeueJob(j) /\ d \in {"reclaim", "retry"}
      BY <2>4, <2>5, <3>1, RequeueFacts
    <3>2. CASE SettleJob(j, "cancelled") /\ UNCHANGED <<cancelReq, retries>>
      BY <1>0, <2>4, <2>5, <3>2, SettleFacts, SettledRetries DEF JobStatus, TypeOK
    <3>3. CASE UNCHANGED <<status, fresh, cancelReq, retries>>
      BY <1>0, <2>4, <3>3, UnclaimedRetries DEF TypeOK
    <3> QED
      BY <2>2, <2>3, <2>5, <3>1, <3>2, <3>3 DEF Repair
  <2>7. Content' /\ content' \in [Contents -> ContentStatus] /\ owner' \in [Contents -> Owner]
    <3>1. CASE UNCHANGED <<content, owner>>
      BY <1>0, <2>4, <3>1, UnwrittenContent DEF content_vars, TypeOK
    <3>2. CASE OwnedWrite(c, "failed", owner[c])
      <4>1. /\ owner[c] \in Owner /\ owner[c] # NoOwner /\ "failed" \in ContentStatus
            /\ owner[c].job \in Jobs /\ ContentOf[owner[c].job] = c
            /\ owner[c].gen \in 1..MaxClaims /\ owner[c].phase = PhaseOf(owner[c].job)
            /\ content[c] # "completed" /\ <<c, owner[c].job, owner[c].gen>> \notin summaries
        <5>1. owner[c] # NoOwner /\ owner[c].job \in Jobs /\ content[c] \in {"failed", owner[c].phase}
          BY <2>3, <2>5, DecisionFacts
        <5>2. owner[c] \in Owner
          BY <1>0 DEF TypeOK
        <5>3. /\ ContentOf[owner[c].job] = c /\ owner[c].gen \in 1..MaxClaims
              /\ owner[c].phase = PhaseOf(owner[c].job)
          BY <5>1 DEF ContentInv, OwnersAreAttempts
        <5>4. <<c, owner[c].job, owner[c].gen>> \notin summaries
          BY <5>1 DEF ContentInv, OutputEndsOwnership
        <5>5. owner[c].phase \in Transitional
          BY <5>1, <5>3, PhaseFacts
        <5>6. content[c] # "completed"
          BY <5>1, <5>5 DEF Transitional
        <5> QED
          BY <5>1, <5>2, <5>3, <5>4, <5>6 DEF ContentStatus
      <4>2. <<c, NoJob, 0>>[1] = c
        OBVIOUS
      <4>3. Content'
        BY <2>4, <3>2, <4>1, <4>2, OwnedContent
      <4> QED
        BY <1>0, <3>2, <4>1, <4>3, WriteFacts
    <3>3. CASE Release(c, d)
      BY <2>3, <2>4, <2>5, <3>3, ReleaseFacts
    <3> QED
      BY <2>3, <2>5, <3>1, <3>2, <3>3 DEF Repair
  <2>8. TypeOK'
    BY <1>0, <1>2, <1>4, <2>4, <2>6, <2>7 DEF TypeOK
  <2> QED
    BY <1>2, <1>4, <2>4, <2>6, <2>7, <2>8, UnmovedAttempts, Together
<1> QED
  BY <1>1, <1>3, <1>4

LEMMA NextContent == ContentInv /\ [Next]_vars => ContentInv'
<1> SUFFICES ASSUME ContentInv, [Next]_vars PROVE ContentInv'
  OBVIOUS
<1>1. CASE UNCHANGED vars
  <2>1. TypeOK' /\ scan' = [r \in Runs |-> scan'[r]]
    BY <1>1 DEF ContentInv, TypeOK, vars, content_vars, job_vars
  <2> QED
    BY <1>1, <2>1, UnmovedAttempts, UnwrittenContent, UnclaimedRetries, Together
    DEF vars, content_vars, job_vars
<1>2. ASSUME NEW j \in Jobs, NEW g \in 1..MaxClaims, AttemptStep(j, g) PROVE ContentInv'
  BY <1>2, SettlingKeepsContent, PreparingKeepsContent, ResetKeepsContent, OwnersKeepContent
  DEF AttemptStep
<1>3. ASSUME NEW c \in Contents,
             \/ \E phase \in Transitional : DirectRead(c, phase)
             \/ DirectLook(c) \/ DirectNote(c) \/ DirectStart(c) \/ DirectReread(c)
             \/ \E s \in ContentStatus : DirectEnd(c, s)
      PROVE  ContentInv'
  BY <1>3, CallReadsKeepContent, CallWritesKeepContent
<1> QED
  BY <1>1, <1>2, <1>3, QueueKeepsContent, ReconciliationKeepsContent DEF Next

LEMMA ContentAlways == Spec => []ContentInv
  BY InitContent, NextContent, PTL DEF Spec

(* Content, its owners, jobs, attempts and requests are typed: whichever   *)
(* writer was last, a row is left in a status the database knows, and its  *)
(* owner in a phase of parsing or processing.                              *)
THEOREM ContentTypeCorrect == Spec => []TypeOK
<1>1. ContentInv => TypeOK
  BY DEF ContentInv
<1> QED
  BY <1>1, ContentAlways, PTL

(* Every write of content keeps ck_contents_status_owner_complete:         *)
(* OwnerMatchesStatus holds in every reachable state, callers without a    *)
(* claim and forced resets included.                                       *)
THEOREM OwnersMatchStatuses == Spec => []OwnerMatchesStatus
<1>1. ContentInv => OwnerMatchesStatus
  BY DEF ContentInv
<1> QED
  BY <1>1, ContentAlways, PTL

(* An attempt whose summary is stored owns nothing any more, whoever else  *)
(* writes the row: OutputEndsOwnership holds in every reachable state.     *)
THEOREM OutputsEndOwnership == Spec => []OutputEndsOwnership
<1>1. ContentInv => OutputEndsOwnership
  BY DEF ContentInv
<1> QED
  BY <1>1, ContentAlways, PTL

(* No retry, of a client or of a reconciliation, is counted twice for one  *)
(* claim: RetriesFollowClaims holds in every reachable state.              *)
THEOREM RetriesAreEarned == Spec => []RetriesFollowClaims
<1>1. ContentInv => RetriesFollowClaims
  BY DEF ContentInv, RetriesLag, RetriesFollowClaims
<1> QED
  BY <1>1, ContentAlways, PTL

(* Content is summarized once: OneSummaryPerContent holds in every         *)
(* reachable state, for any number of competing operations.                *)
THEOREM SummariesAreUnique == Spec => []OneSummaryPerContent
<1>1. ContentInv => OneSummaryPerContent
  <2> SUFFICES ASSUME ContentInv, EveryWriterIsFenced, NEW c \in Contents
               PROVE  Cardinality({s \in summaries : s[1] = c}) <= 1
    BY DEF OneSummaryPerContent, SummariesOf
  <2>1. \A s, t \in summaries : s[1] = t[1] => s = t
    BY DEF ContentInv, SummariesAreFinal
  <2>2. CASE {s \in summaries : s[1] = c} = {}
    BY <2>2, FS_EmptySet
  <2>3. CASE {s \in summaries : s[1] = c} # {}
    <3>1. PICK x \in summaries : x[1] = c
      BY <2>3
    <3>2. {s \in summaries : s[1] = c} = {x}
      BY <2>1, <3>1
    <3> QED
      BY <3>2, FS_Singleton
  <2> QED
    BY <2>2, <2>3
<1> QED
  BY <1>1, ContentAlways, PTL

-----------------------------------------------------------------------------
(* What a forced preparation may take from completed content.              *)

(* An attempt has deleted nothing before its DELETE, and nothing of another*)
(* row; only some workloads have callers without a claim.                  *)
DeletionsAreOrdered ==
  \A j \in Jobs : \A g \in 1..MaxClaims :
    /\ stage[j][g] \in {"none", "claimed", "prepare", "delete"} => found[j][g].deleted = {}
    /\ \A s \in found[j][g].deleted : s[1] = ContentOf[j]

CallsAreAsked == \A c \in Contents : direct[c].at # "none" => workload.direct # {}

(* So does whoever is about to note content as completed.                  *)
NotedHasOutput ==
  \A c \in Contents : direct[c].at = "noting" => SummariesOf(c) # {} \/ DeletedBehind(c)

OutputInv == DeletionsAreOrdered /\ CallsAreAsked /\ NotedHasOutput /\ CompletedHasOutput

(* Steps of the preparations, and all others, as far as found can tell.    *)
LEMMA FoundMoves ==
  ASSUME ContentInv, [Next]_vars
  PROVE  /\ workload' = workload
         /\ \/ UNCHANGED <<stage, found>>
            \/ \E j \in Jobs, g \in 1..MaxClaims :
                 \/ PrepareRead(j, g) \/ PrepareDelete(j, g)
                 \/ \E s \in Stage \ {"none", "delete", "reset"} :
                      /\ Goto(j, g, s) /\ found' = found
                      /\ s \in {"claimed", "prepare"} => stage[j][g] \in {"none", "claimed"}
<1>1. CASE UNCHANGED vars
  BY <1>1 DEF vars
<1>2. ASSUME NEW j \in Jobs, Claim(j)
      PROVE  /\ workload' = workload /\ found' = found
             /\ gen[j] + 1 \in 1..MaxClaims /\ Goto(j, gen[j] + 1, "claimed")
             /\ stage[j][gen[j] + 1] = "none"
  <2>1. gen[j] \in 0..MaxClaims /\ gen[j] < MaxClaims
    BY <1>2 DEF Claim, ContentInv, TypeOK
  <2>2. gen[j] + 1 \in 1..MaxClaims /\ ~(gen[j] + 1 <= gen[j])
    BY <2>1, ConstantFacts
  <2> QED
    BY <1>2, <2>2 DEF Claim, ContentInv, AttemptsAreClaimed
<1>3. ASSUME NEW j \in Jobs, Cancel(j) \/ Retry(j) \/ Heartbeat(j) \/ GoStale(j) \/ Sweep(j)
      PROVE  UNCHANGED <<stage, found, workload>>
  BY <1>3 DEF Cancel, Retry, Heartbeat, GoStale, Sweep
<1>4. ASSUME NEW j \in Jobs, NEW g \in 1..MaxClaims, AttemptStep(j, g)
      PROVE  /\ workload' = workload
             /\ \/ UNCHANGED <<stage, found>>
                \/ PrepareRead(j, g) \/ PrepareDelete(j, g)
                \/ \E s \in Stage \ {"none", "delete", "reset"} :
                      /\ Goto(j, g, s) /\ found' = found
                      /\ s \in {"claimed", "prepare"} => stage[j][g] \in {"none", "claimed"}
  <2>1. CASE PrepareRead(j, g) \/ PrepareDelete(j, g)
    BY <2>1 DEF PrepareRead, PrepareDelete
  <2>2. CASE Dispatch(j, g) \/ ResolveOwned(j, g) \/ Finish(j, g) \/ PrepareReset(j, g)
    BY <2>2 DEF Dispatch, ResolveOwned, Finish, PrepareReset, Stage
  <2>3. CASE Acquire(j, g) \/ CommitOutput(j, g) \/ CommitFailure(j, g)
    BY <2>3 DEF Acquire, CommitOutput, CommitFailure, Refused, Stage
  <2> QED
    BY <1>4, <2>1, <2>2, <2>3 DEF AttemptStep
<1>5. ASSUME NEW c \in Contents,
             \/ \E phase \in Transitional : DirectRead(c, phase)
             \/ DirectLook(c) \/ DirectNote(c) \/ DirectStart(c) \/ DirectReread(c)
             \/ \E s \in ContentStatus : DirectEnd(c, s)
      PROVE  UNCHANGED <<stage, found, workload>>
  BY <1>5 DEF DirectRead, DirectLook, DirectNote, DirectStart, DirectReread, DirectEnd
<1>6. ASSUME NEW r \in Runs, Apply(r) \/ Skip(r) \/ \E c \in Contents : Scan(r, c)
      PROVE  UNCHANGED <<stage, found, workload>>
  BY <1>6 DEF Apply, Skip, Scan
<1>7. "claimed" \in Stage \ {"none", "delete", "reset"}
  BY DEF Stage
<1> QED
  BY <1>1, <1>2, <1>3, <1>4, <1>5, <1>6, <1>7 DEF Next

(* What has been deleted stays on record.                                  *)
LEMMA DeletionsStay ==
  ASSUME ContentInv, DeletionsAreOrdered, [Next]_vars
  PROVE  /\ DeletionsAreOrdered'
         /\ \A c \in Contents : DeletedBehind(c) => DeletedBehind(c)'
<1>0. TypeOK
  BY DEF ContentInv
<1>1. workload' = workload /\ Forced' = Forced /\ Forced \subseteq Jobs
  BY <1>0, FoundMoves, KindFacts DEF Forced
<1>2. ASSUME \A j \in Jobs, g \in 1..MaxClaims :
               \/ stage'[j][g] = stage[j][g] /\ found'[j][g] = found[j][g]
               \/ /\ stage[j][g] \in {"none", "claimed", "prepare", "delete"}
                  /\ found'[j][g].deleted = {}
               \/ /\ stage[j][g] = "delete" /\ stage'[j][g] = "reset"
                  /\ \A s \in found'[j][g].deleted : s[1] = ContentOf[j]
               \/ /\ found'[j][g] = found[j][g]
                  /\ stage'[j][g] \notin {"none", "claimed", "prepare", "delete", "reset"}
      PROVE  /\ DeletionsAreOrdered'
             /\ \A c \in Contents : DeletedBehind(c) => DeletedBehind(c)'
  <2>1. DeletionsAreOrdered'
    BY <1>2 DEF DeletionsAreOrdered
  <2>2. ASSUME NEW c \in Contents, DeletedBehind(c) PROVE DeletedBehind(c)'
    <3>1. PICK j \in Forced, g \in 1..MaxClaims :
            /\ ContentOf[j] = c /\ stage[j][g] # "reset" /\ found[j][g].deleted # {}
            /\ found[j][g].status = "parsed" \/ workload.direct # {}
      BY <2>2 DEF DeletedBehind
    <3>2. stage[j][g] \notin {"none", "claimed", "prepare", "delete"}
      BY <1>1, <3>1 DEF DeletionsAreOrdered
    <3>3. stage'[j][g] # "reset" /\ found'[j][g] = found[j][g]
      BY <1>1, <1>2, <3>1, <3>2
    <3> QED
      BY <1>1, <3>1, <3>3 DEF DeletedBehind
  <2> QED
    BY <2>1, <2>2
<1>3. CASE UNCHANGED <<stage, found>>
  BY <1>2, <1>3
<1>4. ASSUME NEW j \in Jobs, NEW g \in 1..MaxClaims, NEW s \in Stage \ {"none", "delete", "reset"},
             Goto(j, g, s), found' = found,
             s \in {"claimed", "prepare"} => stage[j][g] \in {"none", "claimed"}
      PROVE  /\ DeletionsAreOrdered'
             /\ \A c \in Contents : DeletedBehind(c) => DeletedBehind(c)'
  <2>1. stage'[j][g] = s /\ \A k \in Jobs, h \in 1..MaxClaims :
                              <<k, h>> # <<j, g>> => stage'[k][h] = stage[k][h]
    BY <1>0, <1>4, GotoFacts
  <2>2. stage[j][g] \in {"none", "claimed"} => found'[j][g].deleted = {}
    BY <1>4 DEF DeletionsAreOrdered
  <2> QED
    BY <1>2, <1>4, <2>1, <2>2
<1>5. ASSUME NEW j \in Jobs, NEW g \in 1..MaxClaims, PrepareRead(j, g)
      PROVE  /\ DeletionsAreOrdered'
             /\ \A c \in Contents : DeletedBehind(c) => DeletedBehind(c)'
  <2>1. \A k \in Jobs, h \in 1..MaxClaims : <<k, h>> # <<j, g>> =>
          stage'[k][h] = stage[k][h] /\ found'[k][h] = found[k][h]
    BY <1>0, <1>5 DEF PrepareRead, Goto, TypeOK
  <2>2. stage[j][g] = "prepare" /\ found'[j][g].deleted = {}
    BY <1>0, <1>5 DEF PrepareRead, Unread, TypeOK
  <2> QED
    BY <1>2, <2>1, <2>2
<1>6. ASSUME NEW j \in Jobs, NEW g \in 1..MaxClaims, PrepareDelete(j, g)
      PROVE  /\ DeletionsAreOrdered'
             /\ \A c \in Contents : DeletedBehind(c) => DeletedBehind(c)'
  <2>1. \A k \in Jobs, h \in 1..MaxClaims : <<k, h>> # <<j, g>> =>
          stage'[k][h] = stage[k][h] /\ found'[k][h] = found[k][h]
    BY <1>0, <1>6 DEF PrepareDelete, Goto, TypeOK
  <2>2. stage[j][g] = "delete" /\ stage'[j][g] = "reset"
    BY <1>0, <1>6 DEF PrepareDelete, Goto, TypeOK
  <2>3. found'[j][g].deleted = SummariesOf(ContentOf[j])
    <3>1. PICK X : X = SummariesOf(ContentOf[j])
      OBVIOUS
    <3>2. found' = [found EXCEPT ![j][g].deleted = X]
      BY <1>6, <3>1 DEF PrepareDelete
    <3>3. found'[j][g] = [found[j][g] EXCEPT !.deleted = X]
      BY <1>0, <3>2 DEF TypeOK
    <3>4. found'[j][g].deleted = X
      BY <1>0, <3>3, FoundFacts DEF Found
    <3> QED
      BY <3>1, <3>4
  <2> QED
    BY <1>2, <2>1, <2>2, <2>3 DEF SummariesOf
<1> QED
  BY <1>3, <1>4, <1>5, <1>6, FoundMoves

(* Nobody but a preparation takes a summary away, and nobody else completes*)
(* content, or sets out to note it as completed, without one.              *)
Shown(c) ==
  /\ content'[c] = "completed" =>
       content[c] = "completed" \/ direct[c].at = "noting" \/ SummariesOf(c)' # {}
  /\ direct'[c].at = "noting" => direct[c].at = "noting" \/ SummariesOf(c)' # {}
  /\ direct'[c].at # "none" => direct[c].at # "none" \/ workload.direct # {}

LEMMA OutputMoves ==
  ASSUME ContentInv, [Next]_vars
  PROVE  /\ \A c \in Contents : Shown(c)
         /\ \/ summaries \subseteq summaries'
            \/ \E j \in Jobs, g \in 1..MaxClaims : PrepareReset(j, g)
<1>0. TypeOK
  BY DEF ContentInv
<1>1. ASSUME UNCHANGED content_vars
      PROVE  (\A c \in Contents : Shown(c)) /\ summaries \subseteq summaries'
  BY <1>1 DEF Shown, content_vars
<1>2. ASSUME NEW d \in Contents, NEW s \in ContentStatus, NEW o \in Owner, OwnedWrite(d, s, o),
             direct' = direct, summaries \subseteq summaries',
             s = "completed" => SummariesOf(d)' # {}
      PROVE  (\A c \in Contents : Shown(c)) /\ summaries \subseteq summaries'
  <2>1. content'[d] = s /\ \A c \in Contents \ {d} : content'[c] = content[c]
    BY <1>0, <1>2, WriteFacts
  <2> QED
    BY <1>2, <2>1 DEF Shown
<1>3. ASSUME NEW d \in Contents, NEW s \in ContentStatus, NEW was, UnownedWrite(d, s, was),
             s = "completed" => direct[d].at = "noting" \/ SummariesOf(d)' # {},
             NEW call \in Call, direct' = [direct EXCEPT ![d] = call],
             call.at # "noting", direct[d].at # "none"
      PROVE  \A c \in Contents : Shown(c)
  <2>1. /\ content'[d] = s \/ content'[d] = content[d]
        /\ \A c \in Contents \ {d} : content'[c] = content[c]
    BY <1>0, <1>3, UnownedFacts
  <2>2. direct'[d] = call /\ \A c \in Contents \ {d} : direct'[c] = direct[c]
    BY <1>0, <1>3 DEF TypeOK
  <2> QED
    BY <1>3, <2>1, <2>2 DEF Shown
<1>4. ASSUME NEW j \in Jobs,
             Claim(j) \/ Cancel(j) \/ Retry(j) \/ Heartbeat(j) \/ GoStale(j) \/ Sweep(j)
      PROVE  UNCHANGED content_vars
  BY <1>4 DEF Claim, Cancel, Retry, Heartbeat, GoStale, Sweep
<1>5. ASSUME NEW j \in Jobs, NEW g \in 1..MaxClaims,
             \/ Dispatch(j, g) \/ PrepareRead(j, g) \/ PrepareDelete(j, g)
             \/ ResolveOwned(j, g) \/ Finish(j, g)
      PROVE  UNCHANGED content_vars
  BY <1>5 DEF Dispatch, PrepareRead, PrepareDelete, ResolveOwned, Finish
<1>6. ASSUME NEW j \in Jobs, NEW g \in 1..MaxClaims, PrepareReset(j, g)
      PROVE  \A c \in Contents : Shown(c)
  <2>1. /\ UnownedWrite(ContentOf[j], "parsed", found[j][g]) /\ direct' = direct
        /\ ContentOf[j] \in Contents /\ "parsed" \in ContentStatus
    BY <1>6, ConstantFacts DEF PrepareReset, ContentStatus
  <2>2. \A c \in Contents : content'[c] = "parsed" \/ content'[c] = content[c]
    BY <1>0, <2>1, UnownedFacts
  <2> QED
    BY <2>1, <2>2 DEF Shown
<1>7. ASSUME NEW j \in Jobs, NEW g \in 1..MaxClaims,
             Acquire(j, g) \/ CommitOutput(j, g) \/ CommitFailure(j, g)
      PROVE  (\A c \in Contents : Shown(c)) /\ summaries \subseteq summaries'
  <2> DEFINE d == ContentOf[j]
             mine == [job |-> j, gen |-> g, phase |-> PhaseOf(j)]
  <2>1. d \in Contents /\ PhaseOf(j) \in Transitional /\ mine \in Owner /\ NoOwner \in Owner
    BY ConstantFacts, PhaseFacts, OwnerFacts
  <2> HIDE DEF mine
  <2>2. CASE UNCHANGED content_vars
    BY <1>1, <2>2
  <2>3. CASE OwnedWrite(d, PhaseOf(j), mine) /\ UNCHANGED <<summaries, direct>>
    <3>1. PhaseOf(j) \in ContentStatus /\ PhaseOf(j) # "completed"
      BY <2>1, PhaseFacts DEF Transitional
    <3> QED
      BY <1>2, <2>1, <2>3, <3>1
  <2>4. CASE /\ OwnedWrite(d, After(PhaseOf(j)), NoOwner) /\ direct' = direct
             /\ summaries' = IF PhaseOf(j) = "processing" THEN summaries \cup {<<d, j, g>>}
                                                          ELSE summaries
    <3>1. /\ After(PhaseOf(j)) \in ContentStatus
          /\ After(PhaseOf(j)) = "completed" => PhaseOf(j) = "processing"
      BY <2>1, PhaseFacts
    <3>2. PhaseOf(j) = "processing" => <<d, j, g>> \in SummariesOf(d)'
      BY <2>4 DEF SummariesOf
    <3> HIDE DEF d
    <3>3. After(PhaseOf(j)) = "completed" => SummariesOf(d)' # {}
      BY <3>1, <3>2
    <3>4. summaries \subseteq summaries'
      BY <2>4
    <3> QED
      BY <1>2, <2>1, <2>4, <3>1, <3>3, <3>4
  <2>5. CASE OwnedWrite(d, "failed", owner[d]) /\ UNCHANGED <<summaries, direct>>
    <3>1. "failed" \in ContentStatus /\ owner[d] \in Owner
      BY <1>0, <2>1 DEF ContentStatus, TypeOK
    <3> QED
      BY <1>2, <2>1, <2>5, <3>1
  <2>6. CASE Acquire(j, g)
    BY <2>2, <2>3, <2>6 DEF Acquire, Refused, mine
  <2>7. CASE CommitOutput(j, g)
    BY <2>2, <2>4, <2>7 DEF CommitOutput, Refused
  <2>8. CASE CommitFailure(j, g)
    BY <2>2, <2>5, <2>8 DEF CommitFailure, Refused
  <2> QED
    BY <1>7, <2>6, <2>7, <2>8
<1>8. ASSUME NEW d \in Contents, DirectLook(d) \/ DirectReread(d) \/ \E p \in Transitional : DirectRead(d, p)
      PROVE  (\A c \in Contents : Shown(c)) /\ summaries \subseteq summaries'
  <2>1. UNCHANGED <<content, summaries>>
    BY <1>8 DEF DirectLook, DirectReread, DirectRead
  <2>2. \A c \in Contents \ {d} : direct'[c] = direct[c]
    BY <1>0, <1>8 DEF DirectLook, DirectReread, DirectRead, CallGoes, TypeOK
  <2>3. /\ direct'[d].at = "noting" => SummariesOf(d) # {}
        /\ direct'[d].at # "none" => direct[d].at # "none" \/ workload.direct # {}
    <3>1. CASE DirectLook(d)
      <4>1. direct[d] \in Call \ {NoCall} /\ direct[d].at = "looking"
        BY <1>0, <3>1 DEF DirectLook, TypeOK, NoCall
      <4>2. \/ direct'[d] = [direct[d] EXCEPT !.at = "starting"]
            \/ direct'[d] = NoCall
            \/ SummariesOf(d) # {}
        BY <1>0, <3>1 DEF DirectLook, TypeOK
      <4>3. direct'[d].at = "noting" => SummariesOf(d) # {}
        BY <4>1, <4>2 DEF Call, NoCall
      <4> QED
        BY <4>1, <4>3
    <3>2. CASE DirectReread(d)
      <4>1. direct[d] \in Call \ {NoCall} /\ direct[d].at = "computing"
        BY <1>0, <3>2 DEF DirectReread, TypeOK, NoCall
      <4>2. direct'[d].at = "failing"
        BY <1>0, <3>2, <4>1 DEF DirectReread, CallGoes, TypeOK, Call
      <4> QED
        BY <4>1, <4>2
    <3>3. CASE \E p \in Transitional : DirectRead(d, p)
      <4>1. workload.direct # {}
        BY <3>3 DEF DirectRead
      <4>2. direct'[d].at \in {"starting", "looking"}
        BY <1>0, <3>3 DEF DirectRead, TypeOK
      <4> QED
        BY <4>1, <4>2
    <3> QED
      BY <1>8, <3>1, <3>2, <3>3
  <2>4. \A c \in Contents : SummariesOf(c)' = SummariesOf(c)
    BY <2>1 DEF SummariesOf
  <2> QED
    BY <2>1, <2>2, <2>3, <2>4 DEF Shown
<1>9. ASSUME NEW d \in Contents, DirectNote(d) \/ DirectStart(d) \/ \E s \in ContentStatus : DirectEnd(d, s)
      PROVE  (\A c \in Contents : Shown(c)) /\ summaries \subseteq summaries'
  <2>1. NoCall \in Call /\ NoCall.at # "noting" /\ direct[d] \in Call
    BY <1>0 DEF TypeOK, Call, NoCall
  <2>2. CASE DirectNote(d)
    <3>1. "completed" \in ContentStatus
      BY DEF ContentStatus
    <3> QED
      BY <1>3, <2>1, <2>2, <3>1 DEF DirectNote
  <2>3. CASE DirectStart(d)
    <3>1. direct[d] \in Call \ {NoCall}
      BY <2>1, <2>3 DEF DirectStart, NoCall
    <3>2. /\ direct[d].phase \in Transitional /\ direct[d].phase \in ContentStatus
          /\ direct[d].phase # "completed"
      BY <3>1, PhaseFacts DEF Call, Transitional
    <3>3. PICK call : call = [direct[d] EXCEPT !.at = "computing", !.status = direct[d].phase,
                        !.owned = direct[d].owned /\ direct[d].status = direct[d].phase]
      OBVIOUS
    <3>4. call \in Call /\ call.at # "noting"
      BY <3>1, <3>2, <3>3 DEF Call
    <3>5. /\ UnownedWrite(d, direct[d].phase, direct[d]) /\ direct[d].at # "none"
          /\ direct' = [direct EXCEPT ![d] = call] /\ summaries' = summaries
      BY <2>3, <3>3 DEF DirectStart, CallGoes
    <3> QED
      BY <1>3, <3>2, <3>4, <3>5
  <2>4. ASSUME NEW s \in ContentStatus, DirectEnd(d, s)
        PROVE  (\A c \in Contents : Shown(c)) /\ summaries \subseteq summaries'
    <3>1. s = "completed" => <<d, NoJob, 0>> \in SummariesOf(d)'
      BY <2>4 DEF DirectEnd, SummariesOf
    <3>2. summaries \subseteq summaries'
      BY <2>4 DEF DirectEnd
    <3>3. s = "completed" => SummariesOf(d)' # {}
      BY <3>1
    <3> QED
      BY <1>3, <2>1, <2>4, <3>2, <3>3 DEF DirectEnd
  <2> QED
    BY <1>9, <2>2, <2>3, <2>4
<1>10. ASSUME NEW r \in Runs, Skip(r) \/ \E d \in Contents : Scan(r, d)
       PROVE  UNCHANGED content_vars
  BY <1>10 DEF Skip, Scan
<1>11. ASSUME NEW r \in Runs, Apply(r)
       PROVE  (\A c \in Contents : Shown(c)) /\ summaries \subseteq summaries'
  <2>1. PICK d \in Contents : d = scan[r].content
    BY <1>0, <1>11 DEF Apply, TypeOK
  <2>2. Repair(d) /\ Decision(d) # "none" /\ UNCHANGED <<summaries, direct>>
    BY <1>11, <2>1 DEF Apply, Repair
  <2>3. CASE UNCHANGED <<content, owner>>
    BY <1>1, <2>2, <2>3 DEF content_vars
  <2>4. CASE OwnedWrite(d, "failed", owner[d])
    <3>1. "failed" \in ContentStatus /\ owner[d] \in Owner
      BY <1>0 DEF ContentStatus, TypeOK
    <3> QED
      BY <1>2, <2>2, <2>4, <3>1
  <2>5. CASE Release(d, Decision(d))
    <3> DEFINE s == IF Decision(d) = "project" THEN After(owner[d].phase)
                    ELSE Before(owner[d].phase)
    <3>1. OwnedWrite(d, s, NoOwner)
      BY <2>5 DEF Release
    <3>2. owner[d].phase \in Transitional
      <4>1. owner[d] # NoOwner /\ owner[d].job \in Jobs
        BY <2>2, DecisionFacts
      <4>2. owner[d].phase = PhaseOf(owner[d].job)
        BY <4>1 DEF ContentInv, OwnersAreAttempts
      <4> QED
        BY <4>1, <4>2, PhaseFacts
    <3>3. /\ s \in ContentStatus /\ NoOwner \in Owner
          /\ s = "completed" => Decision(d) = "project" /\ owner[d].phase = "processing"
      BY <3>2, PhaseFacts, OwnerFacts
    <3>4. s = "completed" => <<d, owner[d].job, owner[d].gen>> \in summaries
      BY <2>2, <3>3, DecisionFacts
    <3>5. s = "completed" => SummariesOf(d)' # {}
      BY <2>2, <3>4 DEF SummariesOf
    <3> HIDE DEF s
    <3> QED
      BY <1>2, <2>2, <3>1, <3>3, <3>5
  <2> QED
    BY <2>2, <2>3, <2>4, <2>5 DEF Repair
<1>12. ASSUME NEW j \in Jobs, NEW g \in 1..MaxClaims, AttemptStep(j, g)
       PROVE  /\ \A c \in Contents : Shown(c)
              /\ summaries \subseteq summaries' \/ PrepareReset(j, g)
  BY <1>1, <1>5, <1>6, <1>7, <1>12 DEF AttemptStep
<1>13. CASE UNCHANGED vars
  BY <1>1, <1>13 DEF vars
<1> QED
  BY <1>1, <1>4, <1>8, <1>9, <1>10, <1>11, <1>12, <1>13 DEF Next

(* A preparation that takes the last summary of a row has read it as parsed*)
(* or writes that it is.                                                   *)
LEMMA ResetsAreSeen ==
  ASSUME ContentInv, OutputInv, NEW j \in Jobs, NEW g \in 1..MaxClaims, PrepareReset(j, g),
         NEW c \in Contents, SummariesOf(c) # {}, SummariesOf(c)' = {},
         content'[c] = "completed" \/ workload.direct # {}
  PROVE  DeletedBehind(c)'
<1>0. TypeOK
  BY DEF ContentInv
<1>1. /\ stage[j][g] = "reset" /\ summaries' = summaries \ found[j][g].deleted
      /\ UnownedWrite(ContentOf[j], "parsed", found[j][g]) /\ Goto(j, g, "acquire")
      /\ found' = found /\ workload' = workload /\ ContentOf[j] \in Contents
  BY ConstantFacts DEF PrepareReset
<1>2. PICK x \in found[j][g].deleted : x[1] = c
  BY <1>1 DEF SummariesOf
<1>3. ContentOf[j] = c
  BY <1>2 DEF OutputInv, DeletionsAreOrdered
<1>4. j \in Forced
  BY <1>1 DEF ContentInv, AttemptsAreClaimed, Preparing
<1>5. stage'[j][g] # "reset"
  BY <1>0, <1>1, GotoFacts DEF Stage
<1>6. found[j][g].status = "parsed" \/ workload.direct # {}
  <2>1. CASE found[j][g].status # "parsed"
    <3>1. content'[c] = "parsed"
      BY <1>0, <1>1, <1>3, <2>1, UnownedFacts DEF ContentStatus
    <3> QED
      BY <3>1
  <2> QED
    BY <2>1
<1>7. j \in Forced' /\ found'[j][g] = found[j][g] /\ workload' = workload
  BY <1>1, <1>4 DEF Forced
<1> QED
  BY <1>2, <1>3, <1>5, <1>6, <1>7 DEF DeletedBehind

LEMMA NextOutput == ContentInv /\ OutputInv /\ [Next]_vars => OutputInv'
<1> SUFFICES ASSUME ContentInv, OutputInv, [Next]_vars PROVE OutputInv'
  OBVIOUS
<1>1. /\ DeletionsAreOrdered' /\ workload' = workload
      /\ \A c \in Contents : DeletedBehind(c) => DeletedBehind(c)'
  BY DeletionsStay, FoundMoves DEF OutputInv
<1>2. CallsAreAsked'
  BY <1>1, OutputMoves DEF OutputInv, CallsAreAsked, Shown
<1>3. ASSUME NEW c \in Contents, content'[c] = "completed" \/ direct'[c].at = "noting"
      PROVE  SummariesOf(c)' # {} \/ DeletedBehind(c)'
  <2>1. CASE SummariesOf(c) = {}
    <3>1. SummariesOf(c)' # {} \/ content[c] = "completed" \/ direct[c].at = "noting"
      BY <1>3, OutputMoves DEF Shown
    <3>2. content[c] = "completed" \/ direct[c].at = "noting" => DeletedBehind(c)
      BY <2>1 DEF OutputInv, NotedHasOutput, CompletedHasOutput
    <3> QED
      BY <1>1, <3>1, <3>2
  <2>2. CASE SummariesOf(c) # {} /\ summaries \subseteq summaries'
    BY <2>2 DEF SummariesOf
  <2>3. ASSUME SummariesOf(c) # {}, NEW j \in Jobs, NEW g \in 1..MaxClaims, PrepareReset(j, g)
        PROVE  SummariesOf(c)' # {} \/ DeletedBehind(c)'
    <3>1. content'[c] = "completed" \/ workload.direct # {}
      BY <1>1, <1>2, <1>3 DEF CallsAreAsked
    <3> QED
      BY <2>3, <3>1, ResetsAreSeen
  <2> QED
    BY <2>1, <2>2, <2>3, OutputMoves
<1> QED
  BY <1>1, <1>2, <1>3 DEF OutputInv, NotedHasOutput, CompletedHasOutput

LEMMA InitOutput == Init => OutputInv
<1> SUFFICES ASSUME Init PROVE OutputInv
  OBVIOUS
<1>1. \A c \in Contents : content[c] \in {"pending", "parsed"}
  BY WorkloadAssumption DEF Init, Workload
<1>2. \A j \in Jobs, g \in 1..MaxClaims : found[j][g].deleted = {}
  BY DEF Init, Unread
<1>3. \A c \in Contents : direct[c].at = "none"
  BY DEF Init, NoCall
<1> QED
  BY <1>1, <1>2, <1>3
  DEF OutputInv, DeletionsAreOrdered, CallsAreAsked, NotedHasOutput, CompletedHasOutput

(* No commit, retry, reconciliation or caller without a claim leaves       *)
(* completed content without a summary: CompletedHasOutput holds in every  *)
(* reachable state, and where it names an attempt, a forced preparation has*)
(* deleted a summary stored since it read the row.                         *)
THEOREM CompletedContentIsShown == Spec => []CompletedHasOutput
<1>1. Spec => [](ContentInv /\ OutputInv)
  BY InitContent, NextContent, InitOutput, NextOutput, PTL DEF Spec
<1>2. OutputInv => CompletedHasOutput
  BY DEF OutputInv
<1> QED
  BY <1>1, <1>2, PTL

-----------------------------------------------------------------------------
(* What a step may do to owned content.                                    *)

(* Where every writer is fenced, owned content is written only by the      *)
(* attempt that owns it, by a later claim of the same operation, or by a   *)
(* reconciliation that has decided to.                                     *)
LEMMA OwnedContentIsFenced ==
  ASSUME ContentInv, [Next]_vars, EveryWriterIsFenced, NEW c \in Contents, owner[c] # NoOwner,
         content'[c] # content[c] \/ owner'[c] # owner[c]
  PROVE  LET o == owner[c] IN
         \/ /\ stage[o.job][o.gen] = "working" /\ stage'[o.job][o.gen] # "working"
            /\ owner'[c] # NoOwner \/ content'[c] = After(o.phase)
         \/ owner'[c] # NoOwner /\ o.gen < gen[o.job]
         \/ Decision(c) # "none" /\ Repair(c) /\ gen' = gen
<1>0. /\ TypeOK /\ owner[c].job \in Jobs /\ owner[c].gen \in 1..MaxClaims
      /\ owner[c].phase = PhaseOf(owner[c].job) /\ ContentOf[owner[c].job] = c
  BY DEF ContentInv, OwnersAreAttempts
<1>1. ASSUME NEW j \in Jobs, Claim(j) \/ Cancel(j) \/ Retry(j) \/ Heartbeat(j) \/ GoStale(j) \/ Sweep(j)
      PROVE  UNCHANGED <<content, owner>>
  BY <1>1 DEF Claim, Cancel, Retry, Heartbeat, GoStale, Sweep, content_vars
<1>2. ASSUME NEW j \in Jobs, NEW g \in 1..MaxClaims, Dispatch(j, g) \/ ResolveOwned(j, g) \/ Finish(j, g)
      PROVE  UNCHANGED <<content, owner>>
  BY <1>2 DEF Dispatch, ResolveOwned, Finish, content_vars
<1>3. ASSUME NEW j \in Jobs, NEW g \in 1..MaxClaims
      PROVE  ~PrepareRead(j, g) /\ ~PrepareDelete(j, g) /\ ~PrepareReset(j, g)
  BY DEF PrepareRead, PrepareDelete, PrepareReset, Preparing, ContentInv, AttemptsAreClaimed,
         EveryWriterIsFenced
<1>4. ASSUME NEW d \in Contents
      PROVE  /\ \A p \in Transitional : ~DirectRead(d, p)
             /\ ~DirectLook(d) /\ ~DirectNote(d) /\ ~DirectStart(d) /\ ~DirectReread(d)
             /\ \A s \in ContentStatus : ~DirectEnd(d, s)
  <2>1. direct[d].at = "none" /\ workload.direct = {}
    BY CallsAreUnfenced DEF EveryWriterIsFenced
  <2> QED
    BY <2>1 DEF DirectRead, DirectLook, DirectNote, DirectStart, DirectReread, DirectEnd
<1>5. ASSUME NEW j \in Jobs, NEW g \in 1..MaxClaims, Acquire(j, g)
      PROVE  owner'[c] # NoOwner /\ owner[c].gen < gen[owner[c].job]
  <2>1. /\ OwnedWrite(ContentOf[j], PhaseOf(j), [job |-> j, gen |-> g, phase |-> PhaseOf(j)])
        /\ InitialOwner(j) \/ RenewedOwner(j, g)
        /\ HoldsRow(j, g)
    BY <1>5 DEF Acquire, Refused, content_vars
  <2>2. ContentOf[j] = c
    BY <2>1 DEF OwnedWrite, TypeOK, ContentInv
  <2>3. owner'[c] = [job |-> j, gen |-> g, phase |-> PhaseOf(j)]
    BY <1>0, <2>1, <2>2 DEF OwnedWrite, TypeOK
  <2>4. owner[c].job = j /\ owner[c].gen < g /\ gen[j] = g
    BY <2>1, <2>2 DEF InitialOwner, RenewedOwner, HoldsRow
  <2>5. owner'[c] # NoOwner
    BY <2>3, OwnerFacts
  <2> QED
    BY <2>4, <2>5
<1>6. ASSUME NEW j \in Jobs, NEW g \in 1..MaxClaims, CommitOutput(j, g) \/ CommitFailure(j, g)
      PROVE  /\ stage[owner[c].job][owner[c].gen] = "working"
             /\ stage'[owner[c].job][owner[c].gen] # "working"
             /\ owner'[c] # NoOwner \/ content'[c] = After(owner[c].phase)
  <2>1. /\ OwnsContent(j, g) /\ stage[j][g] = "working"
        /\ \/ OwnedWrite(ContentOf[j], After(PhaseOf(j)), NoOwner)
           \/ OwnedWrite(ContentOf[j], "failed", owner[ContentOf[j]])
        /\ Goto(j, g, "completing") \/ Goto(j, g, "failing")
    BY <1>6 DEF CommitOutput, CommitFailure, Refused, content_vars
  <2>2. ContentOf[j] = c
    BY <2>1 DEF OwnedWrite, TypeOK, ContentInv
  <2>3. owner[c].job = j /\ owner[c].gen = g
    BY <2>1, <2>2 DEF OwnsContent
  <2>4. stage'[j][g] \in {"completing", "failing"}
    BY <1>0, <2>1, GotoFacts DEF Stage
  <2>5. owner'[c] # NoOwner \/ content'[c] = After(owner[c].phase)
    BY <1>0, <2>1, <2>2, <2>3 DEF OwnedWrite, TypeOK
  <2> QED
    BY <2>1, <2>3, <2>4, <2>5
<1>7. ASSUME NEW r \in Runs, Apply(r)
      PROVE  Decision(c) # "none" /\ Repair(c) /\ gen' = gen
  <2>1. PICK d \in Contents : d = scan[r].content
    BY <1>0, <1>7 DEF Apply, TypeOK
  <2>2. Repair(d) /\ Decision(d) # "none" /\ gen' = gen
    BY <1>7, <2>1 DEF Apply, Repair
  <2>3. d = c
    BY <1>0, <2>2 DEF Repair, Release, OwnedWrite, TypeOK
  <2> QED
    BY <2>2, <2>3
<1>8. ASSUME NEW r \in Runs, Skip(r) \/ \E d \in Contents : Scan(r, d)
      PROVE  UNCHANGED <<content, owner>>
  BY <1>8 DEF Skip, Scan, content_vars
<1> QED
  BY <1>1, <1>2, <1>3, <1>4, <1>5, <1>6, <1>7, <1>8 DEF Next, AttemptStep, vars, content_vars

(* Where every writer is fenced, no step of another attempt, of the sweep, *)
(* a client or a reconciliation changes content whose owner is queued or   *)
(* runs with a fresh heartbeat: the guards of acquisition, output, failure *)
(* and _decide leave it to that attempt (ActiveOwnerIsUndisturbed).        *)
THEOREM OwnersAreUndisturbed == Spec => ActiveOwnerIsUndisturbed
<1> DEFINE Step == EveryWriterIsFenced => \A c \in Contents :
       LET o == owner[c] IN
       (/\ o # NoOwner
        /\ o.gen = gen[o.job]
        /\ status[o.job] = "queued" \/ (status[o.job] = "in_progress" /\ fresh[o.job])
        /\ content'[c] # content[c] \/ owner'[c] # o)
         => stage'[o.job][o.gen] # stage[o.job][o.gen]
<1>1. ContentInv /\ [Next]_vars => Step
  <2> SUFFICES ASSUME ContentInv, [Next]_vars, EveryWriterIsFenced, NEW c \in Contents,
                      owner[c] # NoOwner, owner[c].gen = gen[owner[c].job],
                      \/ status[owner[c].job] = "queued"
                      \/ status[owner[c].job] = "in_progress" /\ fresh[owner[c].job],
                      content'[c] # content[c] \/ owner'[c] # owner[c]
               PROVE  stage'[owner[c].job][owner[c].gen] # stage[owner[c].job][owner[c].gen]
    OBVIOUS
  <2>1. Decision(c) = "none"
    BY DecisionFacts
  <2>2. ~(owner[c].gen < gen[owner[c].job])
    BY ConstantFacts DEF ContentInv, TypeOK, OwnersAreAttempts
  <2> QED
    BY <2>1, <2>2, OwnedContentIsFenced
<1>2. ContentInv /\ [Next]_vars => [Step]_vars
  BY <1>1
<1> QED
  BY <1>2, ContentAlways, PTL DEF Spec, ActiveOwnerIsUndisturbed

(* Where every writer is fenced, content goes back to the state another    *)
(* operation may take it from only by a reconciliation's repair, and this  *)
(* leaves no claim that could still write it (ReturnedContentIsFree).      *)
THEOREM ReturnsAreFree == Spec => ReturnedContentIsFree
<1> DEFINE Step == EveryWriterIsFenced => \A c \in Contents :
       LET o == owner[c] IN
       (o # NoOwner /\ owner'[c] = NoOwner /\ content'[c] = Before(o.phase))
         => ~(status'[o.job] = "in_progress" /\ gen'[o.job] = o.gen)
<1>1. ContentInv /\ [Next]_vars => Step
  <2> SUFFICES ASSUME ContentInv, [Next]_vars, EveryWriterIsFenced, NEW c \in Contents,
                      owner[c] # NoOwner, owner'[c] = NoOwner, content'[c] = Before(owner[c].phase),
                      status'[owner[c].job] = "in_progress"
               PROVE  FALSE
    OBVIOUS
  <2>1. After(owner[c].phase) # Before(owner[c].phase) /\ TypeOK
    BY PhaseFacts DEF ContentInv, OwnersAreAttempts
  <2>2. Decision(c) # "none" /\ Repair(c)
    BY <2>1, OwnedContentIsFenced
  <2>3. Release(c, Decision(c)) /\ Decision(c) \in {"restore", "cancel"}
    BY <2>1, <2>2 DEF Repair, Release, OwnedWrite, TypeOK
  <2>4. owner[c].job \in Jobs
    BY <2>2, DecisionFacts
  <2>5. CASE Decision(c) = "cancel" /\ status[owner[c].job] = "in_progress"
    <3>1. SettleJob(owner[c].job, "cancelled")
      BY <2>2, <2>5 DEF Repair
    <3> QED
      BY <2>1, <2>4, <3>1, SettleFacts DEF JobStatus
  <2>6. CASE ~(Decision(c) = "cancel" /\ status[owner[c].job] = "in_progress")
    <3>1. status' = status /\ status[owner[c].job] # "in_progress"
      BY <2>2, <2>3, <2>6, DecisionFacts DEF Repair
    <3> QED
      BY <3>1
  <2> QED
    BY <2>5, <2>6
<1>2. ContentInv /\ [Next]_vars => [Step]_vars
  BY <1>1
<1> QED
  BY <1>2, ContentAlways, PTL DEF Spec, ReturnedContentIsFree
=============================================================================
