-------------------------- MODULE OrderRouterProofs --------------------------
(***************************************************************************)
(* Machine-checked proofs about OrderRouter, for every number of threads,  *)
(* intents, venues and passes and every value of the thresholds.           *)
(***************************************************************************)
EXTENDS OrderRouter, SequenceTheorems, FiniteSetTheorems, TLAPS

-----------------------------------------------------------------------------
(* the breaker's operations *)

\* Trimming the window and appending an outcome yields a breaker that differs
\* in its window only (push_outcome).
LEMMA PushType ==
  ASSUME NEW b \in Breaker, NEW t \in Nat, NEW e \in BOOLEAN
  PROVE  /\ PushOutcome(b, t, e) \in Breaker
         /\ PushOutcome(b, t, e).state = b.state
<1> DEFINE Entry == [at : Nat, err : BOOLEAN]
           old == {k \in DOMAIN b.recent : b.recent[k].at < t - ErrorWindow}
           kept == SubSeq(b.recent, Cardinality(old) + 1, Len(b.recent))
<1>1. b.recent \in Seq(Entry) /\ Len(b.recent) \in Nat
         /\ DOMAIN b.recent = 1..Len(b.recent)
  BY LenProperties DEF Breaker
<1>2. IsFiniteSet(old) /\ Cardinality(old) \in Nat
  <2>1. IsFiniteSet(1..Len(b.recent))
    BY <1>1, FS_Interval
  <2>2. old \in SUBSET (1..Len(b.recent))
    BY <1>1
  <2> QED  BY <2>1, <2>2, FS_Subset, FS_CardinalityType
<1>3. kept \in Seq(Entry)
  <2> HIDE DEF old
  <2>0. \A k \in 1..Len(b.recent) : b.recent[k] \in Entry
    BY <1>1, ElementOfSeq
  <2>1. \A k \in (Cardinality(old) + 1)..Len(b.recent) : b.recent[k] \in Entry
    BY <1>1, <1>2, <2>0
  <2> QED  BY <1>1, <1>2, <2>1, SubSeqProperties
<1>4. Append(kept, [at |-> t, err |-> e]) \in Seq(Entry)
  <2> HIDE DEF kept
  <2> QED  BY <1>3, AppendProperties
<1>5. PushOutcome(b, t, e)
        = [b EXCEPT !.recent = Append(kept, [at |-> t, err |-> e])]
  BY DEF PushOutcome
<1> HIDE DEF kept
<1> QED  BY <1>4, <1>5 DEF Breaker

\* record_success and record_failure keep the breaker well formed and leave
\* the half-open state whatever it was entered for.
LEMMA RecordType ==
  ASSUME NEW b \in Breaker, NEW t \in Nat
  PROVE  /\ RecordSuccess(b, t) \in Breaker
         /\ RecordFailure(b, t) \in Breaker
         /\ RecordSuccess(b, t).state # "half_open"
         /\ RecordFailure(b, t).state # "half_open"
<1>1. /\ PushOutcome(b, t, FALSE) \in Breaker
      /\ PushOutcome(b, t, TRUE) \in Breaker
  BY PushType
<1>2. /\ RecordSuccess(b, t) \in Breaker
      /\ RecordSuccess(b, t).state # "half_open"
  BY <1>1 DEF RecordSuccess, Breaker, BreakerStates, Instant
<1>3. /\ RecordFailure(b, t) \in Breaker
      /\ RecordFailure(b, t).state # "half_open"
  <2> DEFINE p == PushOutcome(b, t, TRUE)
             elapsed == p.windowStart # NoTime
                          /\ t - p.windowStart >= ErrorWindow
             count == (IF elapsed THEN 0 ELSE p.failures) + 1
             start == IF elapsed \/ p.windowStart = NoTime
                      THEN t ELSE p.windowStart
             counted == [p EXCEPT !.failures = count, !.windowStart = start]
             reopened == [p EXCEPT !.state = "open", !.openedAt = t,
                                   !.failures = 0, !.probe = FALSE]
             opened == [counted EXCEPT !.state = "open", !.openedAt = t]
  <2>0. p \in Breaker
    BY <1>1
  <2>1. count \in Nat /\ start \in Instant
    <3> HIDE DEF p
    <3> QED  BY <2>0 DEF Breaker, Instant
  <2>2. RecordFailure(b, t) =
          IF p.state = "half_open" THEN reopened
          ELSE IF p.state = "closed"
                  /\ (count >= Threshold \/ ErrorRateExceeded(p.recent))
               THEN opened ELSE counted
    BY Zenon DEF RecordFailure
  <2> HIDE DEF p, count, start
  <2>3. reopened \in Breaker /\ reopened.state = "open"
    BY <2>0 DEF Breaker, BreakerStates, Instant
  <2>4. counted \in Breaker /\ counted.state = p.state
    BY <2>0, <2>1 DEF Breaker, BreakerStates
  <2>5. opened \in Breaker /\ opened.state = "open"
    BY <2>0, <2>1 DEF Breaker, BreakerStates, Instant
  <2> QED
    <3> HIDE DEF reopened, counted, opened
    <3> QED  BY <2>2, <2>3, <2>4, <2>5
<1> QED  BY <1>2, <1>3

\* allow_request keeps the breaker well formed, and only a request that it
\* admits can move a breaker to half-open.
LEMMA AllowType ==
  ASSUME NEW b \in Breaker, NEW t \in Nat
  PROVE  /\ AfterAllow(b, t) \in Breaker
         /\ AfterAllow(b, t).state = "half_open" =>
              b.state = "half_open" \/ AllowRequest(b, t)
BY DEF AfterAllow, Breaker, BreakerStates

\* A breaker starts closed and well formed (CircuitBreaker::new).
LEMMA NewType == NewBreaker \in Breaker /\ NewBreaker.state = "closed"
<1>1. << >> \in Seq([at : Nat, err : BOOLEAN])
  BY EmptySeq
<1> QED  BY <1>1 DEF NewBreaker, Breaker, BreakerStates, Instant, NoTime
-----------------------------------------------------------------------------
(* types and stages *)

\* What the stage of a submission says about its intent and its result, and
\* the stage of a pass about the order it is looking at.
StageOK ==
  /\ \A t \in Threads :
       /\ pc[t] = "idle" <=> work[t] = NoIntent
       /\ pc[t] = "record" => result[t] \in Answers
       /\ pc[t] = "begin_unknown" => result[t] = "timeout"
       /\ pc[t] = "audit_live" => result[t] \in {"accepted", "timeout"}
       /\ pc[t] = "finish" => result[t] \in Outcomes
  /\ \A r \in Reconcilers :
       /\ rpc[r] \in {"query", "observe"} => current[r] \in Intents
       /\ rpc[r] = "observe" => sighting[r] \in {"open", "filled", "closed",
                                                  "not_found"}

TypeInv == TypeOK /\ StageOK

\* A router that has just started has well-typed tables, and no thread or
\* pass holds an intent it did not take.
LEMMA TypeInit == Init => TypeInv
<1> SUFFICES ASSUME Init PROVE TypeInv  OBVIOUS
<1>1. breakers \in [Venues -> Breaker]
  BY NewType DEF Init
<1>2. TypeOK
  BY <1>1, RouterAssumption
     DEF Init, TypeOK, Stages, VenueStates, ReconStatus
<1>3. StageOK
  BY DEF Init, StageOK
<1> QED  BY <1>2, <1>3 DEF TypeInv

\* The events the router builds are events of the audit sink.
LEMMA EventType ==
  ASSUME NEW i \in Intents, NEW phase \in Phases, NEW verdict \in {"allow", "deny"}
  PROVE  Event(i, phase, verdict) \in AuditEvent
BY DEF Event, AuditEvent

\* No operation of submit, reconcile_unknowns or the venue leaves the types or
\* the stages a thread can be in.
LEMMA TypeNext == TypeInv /\ [Next]_vars => TypeInv'
<1> SUFFICES ASSUME TypeInv, [Next]_vars PROVE TypeInv'
  OBVIOUS
<1> USE RouterAssumption
<1> USE DEF TypeInv, TypeOK, StageOK, submitVars, reconVars, passVars
<1>1. ASSUME NEW t \in Threads, NEW i \in Intents, Reserve(t, i) PROVE TypeInv'
  BY <1>1 DEF Reserve, Stages
<1>2. ASSUME NEW t \in Threads, NEW i \in Intents, Replay(t, i) PROVE TypeInv'
  BY <1>2 DEF Replay
<1>3. ASSUME NEW t \in Threads, Authorize(t) PROVE TypeInv'
  <2>1. work[t] \in Intents
    BY <1>3 DEF Authorize
  <2>2. audit' \subseteq AuditEvent
    BY <1>3, <2>1, EventType DEF Authorize, Audited, AuditFails, Decide, Goto, Phases
  <2> QED
    BY <1>3, <2>1, <2>2 DEF Authorize, Audited, AuditFails, Decide, Goto, Stages, Outcomes,
                             Refusals
<1>4. ASSUME NEW t \in Threads, EvaluateRisk(t) PROVE TypeInv'
  <2>1. work[t] \in Intents
    BY <1>4 DEF EvaluateRisk
  <2>2. audit' \subseteq AuditEvent
    BY <1>4, <2>1, EventType DEF EvaluateRisk, Audited, AuditFails, Decide, Goto, Phases
  <2> QED
    BY <1>4, <2>1, <2>2 DEF EvaluateRisk, Audited, AuditFails, Decide, Goto, Stages, Outcomes,
                             Refusals
<1>5. ASSUME NEW t \in Threads, CheckBreaker(t) PROVE TypeInv'
  <2>1. work[t] \in Intents
    BY <1>5 DEF CheckBreaker
  <2>2. breakers' \in [Venues -> Breaker]
    BY <1>5, <2>1, AllowType DEF CheckBreaker
  <2> QED
    BY <1>5, <2>1, <2>2 DEF CheckBreaker, Decide, Goto, Stages, Outcomes, Refusals
<1>6. ASSUME NEW t \in Threads, Dispatch(t) PROVE TypeInv'
  BY <1>6 DEF Dispatch, Goto, Stages, Answers, VenueStates
<1>7. ASSUME NEW t \in Threads, AdapterReturns(t) PROVE TypeInv'
  BY <1>7 DEF AdapterReturns, AdapterAnswers, Stages, Answers
<1>8. ASSUME NEW t \in Threads, RecordAnswer(t) PROVE TypeInv'
  <2>1. work[t] \in Intents
    BY <1>8 DEF RecordAnswer
  <2>2. breakers' \in [Venues -> Breaker]
    BY <1>8, <2>1, RecordType DEF RecordAnswer
  <2> QED
    BY <1>8, <2>1, <2>2 DEF RecordAnswer, Decide, Goto, Stages, Outcomes, Refusals
<1>9. ASSUME NEW t \in Threads, BeginUnknown(t) PROVE TypeInv'
  BY <1>9 DEF BeginUnknown, Goto, Stages, ReconStatus
<1>10. ASSUME NEW t \in Threads, AuditLive(t) PROVE TypeInv'
  <2>1. work[t] \in Intents
    BY <1>10 DEF AuditLive
  <2>2. audit' \subseteq AuditEvent
    BY <1>10, <2>1, EventType DEF AuditLive, Audited, AuditFails, Decide, Goto, Phases
  <2> QED
    BY <1>10, <2>1, <2>2 DEF AuditLive, Audited, AuditFails, Decide, Stages, Outcomes
<1>11. ASSUME NEW t \in Threads, AuthorizePaper(t) PROVE TypeInv'
  <2>1. work[t] \in Intents
    BY <1>11 DEF AuthorizePaper
  <2>2. audit' \subseteq AuditEvent
    BY <1>11, <2>1, EventType DEF AuthorizePaper, Audited, AuditFails, Decide, Goto, Phases
  <2> QED
    BY <1>11, <2>1, <2>2 DEF AuthorizePaper, Audited, AuditFails, Decide, Goto, Stages, Outcomes
<1>12. ASSUME NEW t \in Threads, SubmitPaper(t) PROVE TypeInv'
  BY <1>12 DEF SubmitPaper, Decide, Stages, Outcomes
<1>13. ASSUME NEW t \in Threads, Finish(t) PROVE TypeInv'
  BY <1>13 DEF Finish, Stages
<1>14. ASSUME NEW r \in Reconcilers, StartPass(r) PROVE TypeInv'
  BY <1>14 DEF StartPass, Pending
<1>15. ASSUME NEW r \in Reconcilers, NextTarget(r) PROVE TypeInv'
  BY <1>15 DEF NextTarget, NextAttempt
<1>16. ASSUME NEW r \in Reconcilers, EndPass(r) PROVE TypeInv'
  BY <1>16 DEF EndPass
<1>17. ASSUME NEW r \in Reconcilers, Query(r) PROVE TypeInv'
  BY <1>17 DEF Query, Observations, ReconStatus
<1>18. ASSUME NEW r \in Reconcilers, QueryTimeout(r) PROVE TypeInv'
  BY <1>18 DEF QueryTimeout
<1>19. ASSUME NEW r \in Reconcilers, QueryError(r) PROVE TypeInv'
  <2>1. breakers' \in [Venues -> Breaker]
    BY <1>19, RecordType DEF QueryError
  <2> QED  BY <1>19, <2>1 DEF QueryError
<1>20. ASSUME NEW r \in Reconcilers, Observe(r) PROVE TypeInv'
  <2>1. current[r] \in Intents
    BY <1>20 DEF Observe
  <2>2. audit' \subseteq AuditEvent
    BY <1>20, <2>1, EventType DEF Observe, Audited, Phases
  <2> QED
    BY <1>20, <2>1, <2>2 DEF Observe, Audited, Reconciled, Resolved, ReconStatus
<1>21. ASSUME NEW i \in Intents, VenueReceives(i) \/ VenueFinishes(i)
       PROVE  TypeInv'
  BY <1>21 DEF VenueReceives, VenueFinishes, VenueStates
<1>22. CASE Tick
  BY <1>22 DEF Tick
<1>23. CASE UNCHANGED vars
  BY <1>23 DEF vars
<1> QED
  BY <1>1, <1>2, <1>3, <1>4, <1>5, <1>6, <1>7, <1>8, <1>9, <1>10, <1>11,
     <1>12, <1>13, <1>14, <1>15, <1>16, <1>17, <1>18, <1>19, <1>20, <1>21,
     <1>22, <1>23 DEF Next, SubmitStep, PassStep

\* The router's tables, threads and breakers keep their types.
THEOREM TypeCorrect == Spec => []TypeOK
<1>1. TypeInv => TypeOK
  BY DEF TypeInv
<1> QED  BY <1>1, TypeInit, TypeNext, PTL DEF Spec
-----------------------------------------------------------------------------
(* idempotency *)

\* An intent in processing has at most one thread, and a thread's intent is
\* in processing.
Ownership ==
  /\ \A t \in Threads : pc[t] # "idle" => intents[work[t]] = "processing"
  /\ \A t, u \in Threads : pc[t] # "idle" /\ work[t] = work[u] => t = u

\* The stages of a submission that has not acted yet.
BeforeEffect == {"authorize", "risk", "breaker", "dispatch",
                 "paper_authorize", "paper"}

EffectInv ==
  /\ \A i \in Intents : intents[i] = "absent" => effects[i] = 0
  /\ \A t \in Threads : pc[t] \in BeforeEffect => effects[work[t]] = 0
  /\ AtMostOneEffect

AnswerInv ==
  \A i \in Intents : /\ intents[i] \notin Outcomes => returned[i] = {}
                     /\ returned[i] \subseteq {intents[i]}

IdempotencyInv == TypeInv /\ Ownership /\ EffectInv /\ AnswerInv

\* An empty idempotency table has no owner, no effect and no answer.
LEMMA IdempotencyInit == Init => IdempotencyInv
<1> SUFFICES ASSUME Init PROVE IdempotencyInv  OBVIOUS
<1>1. Ownership /\ EffectInv /\ AnswerInv
  BY DEF Init, Ownership, EffectInv, AnswerInv, AtMostOneEffect, BeforeEffect
<1> QED  BY <1>1, TypeInit DEF IdempotencyInv

\* reserve and finish keep one owner per processed intent, so no step of
\* submit repeats an effect or changes an answer.
LEMMA IdempotencyNext == IdempotencyInv /\ [Next]_vars => IdempotencyInv'
<1> SUFFICES ASSUME IdempotencyInv, [Next]_vars PROVE IdempotencyInv'
  OBVIOUS
<1>0. TypeInv /\ TypeInv'
  BY TypeNext DEF IdempotencyInv
<1> DEFINE Parts == Ownership /\ EffectInv /\ AnswerInv
<1>a. \A t \in Threads : pc[t] # "idle" => work[t] \in Intents
  BY <1>0 DEF TypeInv, TypeOK, StageOK
<1> USE RouterAssumption, <1>0, <1>a
<1> USE DEF IdempotencyInv, TypeInv, TypeOK, Ownership, EffectInv, AnswerInv,
            AtMostOneEffect, BeforeEffect
<1>1. ASSUME NEW t \in Threads, NEW i \in Intents, Reserve(t, i) PROVE Parts'
  <2>1. intents[i] = "absent" /\ \A u \in Threads : work[u] # i
    BY <1>1 DEF Reserve, IsNew, StageOK
  <2>2. Ownership'
    BY <1>1, <2>1 DEF Reserve
  <2>3. EffectInv'
    BY <1>1, <2>1 DEF Reserve
  <2>4. AnswerInv'
    BY <1>1, <2>1 DEF Reserve, Outcomes, Refusals
  <2> QED  BY <2>2, <2>3, <2>4
<1>2. ASSUME NEW t \in Threads, NEW i \in Intents, Replay(t, i) PROVE Parts'
  BY <1>2 DEF Replay, submitVars
<1>3. ASSUME NEW t \in Threads, Authorize(t) PROVE Parts'
  BY <1>3 DEF Authorize, Audited, AuditFails, Decide, Goto
<1>4. ASSUME NEW t \in Threads, EvaluateRisk(t) PROVE Parts'
  BY <1>4 DEF EvaluateRisk, Audited, AuditFails, Decide, Goto
<1>5. ASSUME NEW t \in Threads, CheckBreaker(t) PROVE Parts'
  BY <1>5 DEF CheckBreaker, Decide, Goto
<1>6. ASSUME NEW t \in Threads, Dispatch(t) PROVE Parts'
  <2>1. Ownership' /\ AnswerInv'
    BY <1>6 DEF Dispatch, Goto
  <2>2. /\ effects[work[t]] = 0
        /\ \A u \in Threads : pc[u] # "idle" /\ work[u] = work[t] => u = t
    BY <1>6 DEF Dispatch
  <2>3. CASE VenueOf[work[t]] \in Adapters
    <3>1. /\ effects' = [effects EXCEPT ![work[t]] = 1]
          /\ pc' = [pc EXCEPT ![t] = "waiting"]
          /\ UNCHANGED <<work, intents>>
      BY <1>6, <2>2, <2>3 DEF Dispatch, Goto
    <3>2. intents[work[t]] = "processing" /\ work[t] \in Intents
      BY <1>6 DEF Dispatch
    <3> QED  BY <2>1, <2>2, <3>1, <3>2
  <2>4. CASE VenueOf[work[t]] \notin Adapters
    BY <1>6, <2>1, <2>4 DEF Dispatch
  <2> QED  BY <2>3, <2>4
<1>7. ASSUME NEW t \in Threads, AdapterReturns(t) PROVE Parts'
  BY <1>7 DEF AdapterReturns
<1>8. ASSUME NEW t \in Threads, RecordAnswer(t) PROVE Parts'
  BY <1>8 DEF RecordAnswer, Decide, Goto
<1>9. ASSUME NEW t \in Threads, BeginUnknown(t) PROVE Parts'
  BY <1>9 DEF BeginUnknown, Goto
<1>10. ASSUME NEW t \in Threads, AuditLive(t) PROVE Parts'
  BY <1>10 DEF AuditLive, Audited, AuditFails, Decide
<1>11. ASSUME NEW t \in Threads, AuthorizePaper(t) PROVE Parts'
  BY <1>11 DEF AuthorizePaper, Audited, AuditFails, Decide, Goto
<1>12. ASSUME NEW t \in Threads, SubmitPaper(t) PROVE Parts'
  BY <1>12 DEF SubmitPaper, Decide
<1>13. ASSUME NEW t \in Threads, Finish(t) PROVE Parts'
  BY <1>13 DEF Finish, StageOK, Outcomes, Refusals
<1>14. ASSUME UNCHANGED <<intents, pc, work, effects, returned>> PROVE Parts'
  BY <1>14
<1>15. ASSUME NEW r \in Reconcilers, PassStep(r) PROVE Parts'
  BY <1>14, <1>15 DEF PassStep, StartPass, NextTarget, EndPass, Query,
                      QueryTimeout, QueryError, Observe, submitVars
<1>16. ASSUME NEW i \in Intents, VenueReceives(i) \/ VenueFinishes(i)
       PROVE  Parts'
  BY <1>14, <1>16 DEF VenueReceives, VenueFinishes, submitVars
<1>17. ASSUME Tick \/ UNCHANGED vars PROVE Parts'
  BY <1>14, <1>17 DEF Tick, vars, submitVars
<1> HIDE DEF Parts
<1>18. Parts'
  BY ONLY [Next]_vars, <1>1, <1>2, <1>3, <1>4, <1>5, <1>6, <1>7, <1>8, <1>9, <1>10, <1>11,
     <1>12, <1>13, <1>15, <1>16, <1>17 DEF Next, SubmitStep
<1> QED  BY <1>18 DEF Parts

\* For any number of concurrent and repeated submissions, an intent reaches a
\* venue or the paper ledger at most once.
THEOREM SubmitOnce == Spec => []AtMostOneEffect
<1>1. IdempotencyInv => AtMostOneEffect
  BY DEF IdempotencyInv, EffectInv
<1> QED  BY <1>1, IdempotencyInit, IdempotencyNext, PTL DEF Spec

\* All submissions of an intent that return an outcome return the same one.
THEOREM OneAnswer == Spec => []SingleAnswer
<1>1. IdempotencyInv => SingleAnswer
  BY DEF IdempotencyInv, AnswerInv, SingleAnswer
<1> QED  BY <1>1, IdempotencyInit, IdempotencyNext, PTL DEF Spec
-----------------------------------------------------------------------------
(* the half-open probe *)

ProbeInv == TypeInv /\ ProbeOwned

\* No breaker of a new router is half-open.
LEMMA ProbeInit == Init => ProbeInv
BY TypeInit, NewType DEF Init, ProbeInv, ProbeOwned

\* Every step keeps a reporting submission behind each half-open breaker.
LEMMA ProbeNext == ProbeInv /\ [Next]_vars => ProbeInv'
<1> SUFFICES ASSUME ProbeInv, [Next]_vars PROVE ProbeInv'
  OBVIOUS
<1>0. TypeInv /\ TypeInv'
  BY TypeNext DEF ProbeInv
<1> DEFINE Holder(t, v) == /\ pc[t] \in {"dispatch", "waiting", "record"}
                           /\ VenueOf[work[t]] = v
<1>a. \A v \in Venues : breakers[v].state = "half_open" =>
        \E t \in Threads : Holder(t, v)
  BY DEF ProbeInv, ProbeOwned
<1>b. SUFFICES ProbeOwned'
  BY <1>0 DEF ProbeInv
<1>c. ASSUME \A v \in Venues : breakers'[v].state = "half_open" =>
               \E t \in Threads : Holder(t, v)'
      PROVE  ProbeOwned'
  BY <1>c DEF ProbeOwned
<1> USE RouterAssumption, <1>0
<1> USE DEF TypeInv, TypeOK, StageOK
\* A step of one thread that is not in the three stages, does not enter
\* half-open and leaves the others alone, keeps every holder.
<1>1. ASSUME NEW t \in Threads, pc[t] \notin {"dispatch", "waiting", "record"},
             UNCHANGED breakers,
             \A u \in Threads : u # t => pc'[u] = pc[u] /\ work'[u] = work[u]
      PROVE  ProbeOwned'
  <2>1. \A u \in Threads, w \in Venues : Holder(u, w) => Holder(u, w)'
    BY <1>1
  <2> QED  BY ONLY <1>1, <1>a, <1>c, <2>1
<1>2. ASSUME NEW t \in Threads, NEW i \in Intents,
             Reserve(t, i) \/ Replay(t, i)
      PROVE  ProbeOwned'
  BY <1>1, <1>2 DEF Reserve, Replay, submitVars
<1>3. ASSUME NEW t \in Threads, Authorize(t) PROVE ProbeOwned'
  BY <1>1, <1>3 DEF Authorize, Audited, AuditFails, Decide, Goto
<1>4. ASSUME NEW t \in Threads, EvaluateRisk(t) PROVE ProbeOwned'
  BY <1>1, <1>4 DEF EvaluateRisk, Audited, AuditFails, Decide, Goto
<1>5. ASSUME NEW t \in Threads, CheckBreaker(t) PROVE ProbeOwned'
  <2> DEFINE v == VenueOf[work[t]]
  <2>1. work[t] \in Intents /\ v \in Venues
    BY <1>5 DEF CheckBreaker
  <2>2. \A w \in Venues : w # v => breakers'[w] = breakers[w]
    BY <1>5, <2>1 DEF CheckBreaker
  <2>3. breakers'[v].state = "half_open" =>
          breakers[v].state = "half_open" \/ AllowRequest(breakers[v], now)
    BY <1>5, <2>1, AllowType DEF CheckBreaker
  <2>4. \A w \in Venues :
          w = v /\ AllowRequest(breakers[v], now) => Holder(t, w)'
    BY <1>5, <2>1 DEF CheckBreaker, Goto
  <2>5. \A u \in Threads, w \in Venues : Holder(u, w) => Holder(u, w)'
    BY <1>5, <2>1 DEF CheckBreaker, Goto, Decide
  <2>6. \A w \in Venues : breakers'[w].state = "half_open" =>
          \E u \in Threads : Holder(u, w)'
    <3> HIDE DEF Holder, v
    <3> SUFFICES ASSUME NEW w \in Venues, breakers'[w].state = "half_open"
                 PROVE  \E u \in Threads : Holder(u, w)'
      OBVIOUS
    <3>1. CASE breakers[w].state = "half_open"
      <4>1. PICK u \in Threads : Holder(u, w)
        BY <1>a, <3>1
      <4> QED  BY <4>1, <2>5
    <3>2. CASE breakers[w].state # "half_open"
      <4>1. w = v /\ AllowRequest(breakers[v], now)
        BY <2>2, <2>3, <3>2
      <4> QED  BY <4>1, <2>4
    <3> QED  BY <3>1, <3>2
  <2> QED  BY ONLY <1>c, <2>6
<1>6. ASSUME NEW t \in Threads, Dispatch(t) \/ AdapterReturns(t)
      PROVE  ProbeOwned'
  <2>1. \A u \in Threads, w \in Venues : Holder(u, w) => Holder(u, w)'
    BY <1>6 DEF Dispatch, AdapterReturns, Goto
  <2>2. UNCHANGED breakers
    BY <1>6 DEF Dispatch, AdapterReturns
  <2> HIDE DEF Holder
  <2> QED  BY ONLY <1>a, <1>c, <2>1, <2>2
<1>7. ASSUME NEW t \in Threads, RecordAnswer(t) PROVE ProbeOwned'
  <2> DEFINE v == VenueOf[work[t]]
  <2>1. work[t] \in Intents /\ v \in Venues
    BY <1>7 DEF RecordAnswer
  <2>2. /\ breakers'[v].state # "half_open"
        /\ \A w \in Venues : w # v => breakers'[w] = breakers[w]
    <3>1. breakers[v] \in Breaker /\ now \in Nat
      BY <2>1
    <3>2. breakers' = [breakers EXCEPT ![v] =
            IF result[t] = "accepted" THEN RecordSuccess(breakers[v], now)
                                      ELSE RecordFailure(breakers[v], now)]
      BY <1>7 DEF RecordAnswer
    <3>3. RecordSuccess(breakers[v], now).state # "half_open"
      BY <3>1, RecordType
    <3>4. RecordFailure(breakers[v], now).state # "half_open"
      BY <3>1, RecordType
    <3> HIDE DEF v
    <3> QED  BY <2>1, <3>2, <3>3, <3>4
  <2>3. \A u \in Threads, w \in Venues :
          w # v /\ Holder(u, w) => Holder(u, w)'
    BY <1>7, <2>1 DEF RecordAnswer, Goto, Decide
  <2> HIDE DEF Holder
  <2> QED  BY ONLY <1>a, <1>c, <2>2, <2>3
<1>8. ASSUME NEW t \in Threads, BeginUnknown(t) PROVE ProbeOwned'
  BY <1>1, <1>8 DEF BeginUnknown, Goto
<1>9. ASSUME NEW t \in Threads, AuditLive(t) PROVE ProbeOwned'
  BY <1>1, <1>9 DEF AuditLive, Audited, AuditFails, Decide
<1>10. ASSUME NEW t \in Threads, AuthorizePaper(t) PROVE ProbeOwned'
  BY <1>1, <1>10 DEF AuthorizePaper, Audited, AuditFails, Decide, Goto
<1>11. ASSUME NEW t \in Threads, SubmitPaper(t) PROVE ProbeOwned'
  BY <1>1, <1>11 DEF SubmitPaper, Decide
<1>12. ASSUME NEW t \in Threads, Finish(t) PROVE ProbeOwned'
  BY <1>1, <1>12 DEF Finish
<1>13. ASSUME UNCHANGED <<pc, work, breakers>> PROVE ProbeOwned'
  <2>1. \A u \in Threads, w \in Venues : Holder(u, w) => Holder(u, w)'
    BY <1>13
  <2> HIDE DEF Holder
  <2> QED  BY ONLY <1>13, <1>a, <1>c, <2>1
<1>14. ASSUME NEW r \in Reconcilers, PassStep(r) PROVE ProbeOwned'
  <2>1. CASE QueryError(r)
    <3> DEFINE v == VenueOf[current[r]]
    <3>1. current[r] \in Intents /\ v \in Venues
      BY <2>1 DEF QueryError
    <3>2. /\ breakers'[v].state # "half_open"
          /\ \A w \in Venues : w # v => breakers'[w] = breakers[w]
      <4>1. breakers' = [breakers EXCEPT ![v] = RecordFailure(breakers[v], now)]
        BY <2>1 DEF QueryError
      <4>2. breakers[v] \in Breaker /\ now \in Nat
        BY <3>1
      <4>3. RecordFailure(breakers[v], now).state # "half_open"
        BY <4>2, RecordType
      <4> HIDE DEF v
      <4> QED  BY <3>1, <4>1, <4>3
    <3>3. \A u \in Threads, w \in Venues : Holder(u, w) => Holder(u, w)'
      BY <2>1 DEF QueryError, submitVars
    <3> HIDE DEF Holder
    <3> QED  BY ONLY <1>a, <1>c, <3>2, <3>3
  <2>2. CASE ~QueryError(r)
    BY <1>13, <1>14, <2>2 DEF PassStep, StartPass, NextTarget, EndPass, Query,
       QueryTimeout, Observe, submitVars
  <2> QED  BY <2>1, <2>2
<1>15. ASSUME NEW i \in Intents, VenueReceives(i) \/ VenueFinishes(i)
       PROVE  ProbeOwned'
  BY <1>13, <1>15 DEF VenueReceives, VenueFinishes, submitVars
<1>16. ASSUME Tick \/ UNCHANGED vars PROVE ProbeOwned'
  BY <1>13, <1>16 DEF Tick, vars, submitVars
<1> QED
  BY ONLY [Next]_vars, <1>2, <1>3, <1>4, <1>5, <1>6, <1>7, <1>8, <1>9, <1>10,
     <1>11, <1>12, <1>14, <1>15, <1>16 DEF Next, SubmitStep

\* A breaker that is half-open always has a submission out that will report
\* to it, for any number of threads and with reconciling passes and stale
\* reports interfering.
THEOREM ProbeNeverLeaks == Spec => []ProbeOwned
<1>1. ProbeInv => ProbeOwned
  BY DEF ProbeInv
<1> QED  BY <1>1, ProbeInit, ProbeNext, PTL DEF Spec
-----------------------------------------------------------------------------
(* the reconciler *)

\* What a pass knows about the order it is looking at: its attempt is among
\* those counted for the order unless the order is resolved, it holds a
\* not-found only with the budget spent, and what it saw has happened.
PassInv ==
  \A r \in Reconcilers :
    LET i == current[r] IN
    /\ rpc[r] \in {"query", "observe"} =>
         status[i] \in Resolved \/ tries[r] <= attempts[i]
    /\ rpc[r] = "observe" =>
         /\ sighting[r] = "not_found" => tries[r] = MaxReconAttempts
         /\ sighting[r] = "filled" => venue[i] = "filled"
         /\ sighting[r] = "closed" => venue[i] \in {"closed", "rejected"}
         /\ sighting[r] = "open" => venue[i] \in {"open", "filled", "closed"}

ReconInv ==
  TypeInv /\ PassInv /\ NotFoundAfterBudget /\ ReconcilerAgreesWithVenue

\* A new reconciler has no entries and no pass is running.
LEMMA ReconInit == Init => ReconInv
<1> SUFFICES ASSUME Init PROVE ReconInv  OBVIOUS
<1> QED
  BY TypeInit DEF Init, ReconInv, PassInv, NotFoundAfterBudget,
                  ReconcilerAgreesWithVenue

\* Every step keeps what a pass counted and saw in line with the reconciler
\* and the venue.
LEMMA ReconNext == ReconInv /\ [Next]_vars => ReconInv'
<1> SUFFICES ASSUME ReconInv, [Next]_vars PROVE ReconInv'
  OBVIOUS
<1>0. TypeInv /\ TypeInv'
  BY TypeNext DEF ReconInv
<1> DEFINE Parts == PassInv /\ NotFoundAfterBudget /\ ReconcilerAgreesWithVenue
<1> USE RouterAssumption, <1>0
<1> USE DEF ReconInv, TypeInv, TypeOK, StageOK, PassInv, NotFoundAfterBudget,
            ReconcilerAgreesWithVenue, Resolved
<1>1. ASSUME UNCHANGED <<venue, reconVars, passVars>> PROVE Parts'
  BY <1>1 DEF reconVars, passVars
<1>2. ASSUME NEW t \in Threads, Dispatch(t) PROVE Parts'
  BY <1>2 DEF Dispatch, reconVars, passVars
<1>3. ASSUME NEW t \in Threads, BeginUnknown(t) PROVE Parts'
  BY <1>3 DEF BeginUnknown, passVars
<1>4. ASSUME NEW t \in Threads, SubmitStep(t), ~Dispatch(t), ~BeginUnknown(t)
      PROVE  Parts'
  BY <1>1, <1>4 DEF SubmitStep, Authorize, EvaluateRisk, CheckBreaker,
     AdapterReturns, RecordAnswer, AuditLive, AuthorizePaper, SubmitPaper,
     Finish
<1>5. ASSUME NEW t \in Threads, NEW i \in Intents,
             Reserve(t, i) \/ Replay(t, i)
      PROVE  Parts'
  BY <1>1, <1>5 DEF Reserve, Replay
<1>6. ASSUME NEW r \in Reconcilers, StartPass(r) PROVE Parts'
  BY <1>6 DEF StartPass, reconVars
<1>7. ASSUME NEW r \in Reconcilers, NextTarget(r) PROVE Parts'
  <2>1. PICK target \in targets[r] :
          LET i    == target.id
              live == status[i] \notin Resolved
              n    == NextAttempt(attempts[i])
          IN  /\ current' = [current EXCEPT ![r] = i]
              /\ attempts' = IF live THEN [attempts EXCEPT ![i] = n]
                                     ELSE attempts
              /\ tries' = [tries EXCEPT ![r] = IF live THEN n
                                               ELSE target.attempts]
    BY <1>7 DEF NextTarget
  <2>2. target.id \in Intents
    OBVIOUS
  <2>3. /\ rpc' = [rpc EXCEPT ![r] = "query"]
        /\ UNCHANGED <<venue, status, sighting>>
    BY <1>7 DEF NextTarget
  <2>4. \A i \in Intents : attempts[i] <= attempts'[i]
    BY <2>1, <2>2 DEF NextAttempt
  <2>5. NotFoundAfterBudget' /\ ReconcilerAgreesWithVenue'
    BY <2>1, <2>2, <2>3
  <2>6. PassInv'
    <3> SUFFICES ASSUME NEW q \in Reconcilers
                 PROVE  LET i == current'[q] IN
                   /\ rpc'[q] \in {"query", "observe"} =>
                        status'[i] \in Resolved \/ tries'[q] <= attempts'[i]
                   /\ rpc'[q] = "observe" =>
                        /\ sighting'[q] = "not_found" =>
                             tries'[q] = MaxReconAttempts
                        /\ sighting'[q] = "filled" => venue'[i] = "filled"
                        /\ sighting'[q] = "closed" =>
                             venue'[i] \in {"closed", "rejected"}
                        /\ sighting'[q] = "open" =>
                             venue'[i] \in {"open", "filled", "closed"}
      BY Zenon
    <3>1. CASE q = r
      BY <2>1, <2>2, <2>3, <3>1
    <3>2. CASE q # r
      <4>1. /\ current'[q] = current[q] /\ tries'[q] = tries[q]
            /\ rpc'[q] = rpc[q] /\ sighting'[q] = sighting[q]
        BY <2>1, <2>3, <3>2
      <4> QED  BY <2>3, <2>4, <4>1
    <3> QED  BY <3>1, <3>2
  <2> QED  BY <2>5, <2>6
<1>8. ASSUME NEW r \in Reconcilers, EndPass(r) PROVE Parts'
  BY <1>8 DEF EndPass, reconVars
<1>9. ASSUME NEW r \in Reconcilers, Query(r) PROVE Parts'
  BY <1>9 DEF Query, Observations, BudgetSpent, reconVars
<1>10. ASSUME NEW r \in Reconcilers, QueryTimeout(r) \/ QueryError(r)
       PROVE  Parts'
  BY <1>10 DEF QueryTimeout, QueryError, reconVars
<1>11. ASSUME NEW r \in Reconcilers, Observe(r) PROVE Parts'
  BY <1>11 DEF Observe, Reconciled
<1>12. ASSUME NEW i \in Intents, VenueReceives(i) \/ VenueFinishes(i)
       PROVE  Parts'
  BY <1>12 DEF VenueReceives, VenueFinishes, reconVars, passVars
<1>13. ASSUME Tick \/ UNCHANGED vars PROVE Parts'
  BY <1>1, <1>13 DEF Tick, vars
<1> HIDE DEF Parts
<1>14. Parts'
  BY ONLY [Next]_vars, <1>2, <1>3, <1>4, <1>5, <1>6, <1>7, <1>8, <1>9, <1>10,
     <1>11, <1>12, <1>13 DEF Next, PassStep
<1> QED  BY <1>14 DEF Parts

\* No order is given up before its whole budget of attempts is used, with any
\* number of overlapping passes.
THEOREM GiveUpAfterBudget == Spec => []NotFoundAfterBudget
<1>1. ReconInv => NotFoundAfterBudget
  BY DEF ReconInv
<1> QED  BY <1>1, ReconInit, ReconNext, PTL DEF Spec

\* What the reconciler records has happened at the venue.
THEOREM ReconciliationSound == Spec => []ReconcilerAgreesWithVenue
<1>1. ReconInv => ReconcilerAgreesWithVenue
  BY DEF ReconInv
<1> QED  BY <1>1, ReconInit, ReconNext, PTL DEF Spec

\* A resolved order keeps its status in every step.
THEOREM ResolvedStays == Spec => ResolvedForGood
<1>1. TypeInv /\ [Next]_vars =>
        [\A i \in Intents : status[i] \in Resolved => status'[i] = status[i]]_vars
  <2> SUFFICES ASSUME TypeInv, [Next]_vars,
                      NEW i \in Intents, status[i] \in Resolved
               PROVE  status'[i] = status[i]
    OBVIOUS
  <2> USE DEF TypeInv, TypeOK, StageOK
  <2>1. ASSUME UNCHANGED status PROVE status'[i] = status[i]
    BY <2>1
  <2>2. ASSUME NEW t \in Threads, BeginUnknown(t) PROVE status'[i] = status[i]
    BY <2>2 DEF BeginUnknown, Resolved
  <2>3. ASSUME NEW r \in Reconcilers, Observe(r) PROVE status'[i] = status[i]
    BY <2>3 DEF Observe, Reconciled
  <2>4. ASSUME NEW t \in Threads, SubmitStep(t), ~BeginUnknown(t)
        PROVE  status'[i] = status[i]
    BY <2>4 DEF SubmitStep, Authorize, EvaluateRisk, CheckBreaker, Dispatch,
       AdapterReturns, RecordAnswer, AuditLive, AuthorizePaper, SubmitPaper,
       Finish, reconVars
  <2>5. ASSUME NEW r \in Reconcilers, PassStep(r), ~Observe(r)
        PROVE  status'[i] = status[i]
    BY <2>5 DEF PassStep, StartPass, NextTarget, EndPass, Query, QueryTimeout,
       QueryError, reconVars
  <2>6. ASSUME NEW t \in Threads, NEW j \in Intents,
               Reserve(t, j) \/ Replay(t, j)
        PROVE  status'[i] = status[i]
    BY <2>6 DEF Reserve, Replay, reconVars
  <2>7. ASSUME NEW j \in Intents, VenueReceives(j) \/ VenueFinishes(j)
        PROVE  status'[i] = status[i]
    BY <2>7 DEF VenueReceives, VenueFinishes, reconVars
  <2>8. ASSUME Tick \/ UNCHANGED vars PROVE status'[i] = status[i]
    BY <2>8 DEF Tick, vars, reconVars
  <2> QED
    BY ONLY [Next]_vars, <2>2, <2>3, <2>4, <2>5, <2>6, <2>7, <2>8 DEF Next
<1> QED  BY <1>1, TypeInit, TypeNext, PTL DEF Spec, ResolvedForGood

-----------------------------------------------------------------------------
(* audit before effect *)

\* The events that the stage of a submission rests on.
GateInv ==
  \A t \in Threads :
    LET i == work[t] IN
    /\ pc[t] \in BeforeEffect \ {"authorize"} =>
         Event(i, "authz", "allow") \in audit
    /\ pc[t] \in BeforeEffect \ {"authorize", "risk"} =>
         Event(i, "risk_verdict", "allow") \in audit
    /\ pc[t] \in {"breaker", "dispatch"} => i \notin Paper
    /\ pc[t] = "paper" => Event(i, "paper_execution_authorized", "allow") \in audit

AuditInv == TypeInv /\ GateInv /\ AuditBeforeEffect

\* A new router has had no effect that would need an audit event.
LEMMA AuditInit == Init => AuditInv
<1> SUFFICES ASSUME Init PROVE AuditInv  OBVIOUS
<1> QED
  BY TypeInit DEF Init, AuditInv, GateInv, AuditBeforeEffect, BeforeEffect

\* A thread only gets past a gate of submit_reserved with its audit event.
LEMMA AuditNext == AuditInv /\ [Next]_vars => AuditInv'
<1> SUFFICES ASSUME AuditInv, [Next]_vars PROVE AuditInv'
  OBVIOUS
<1>0. TypeInv /\ TypeInv'
  BY TypeNext DEF AuditInv
<1> DEFINE Parts == GateInv /\ AuditBeforeEffect
<1> USE RouterAssumption, <1>0
<1> USE DEF AuditInv, TypeInv, TypeOK, StageOK, GateInv, AuditBeforeEffect,
            BeforeEffect
<1>1. ASSUME UNCHANGED <<pc, work, effects>>, audit \subseteq audit'
      PROVE  Parts'
  BY <1>1
<1>2. ASSUME NEW t \in Threads, NEW i \in Intents,
             Reserve(t, i) \/ Replay(t, i)
      PROVE  Parts'
  BY <1>2 DEF Reserve, Replay, submitVars
<1>3. ASSUME NEW t \in Threads, Authorize(t) PROVE Parts'
  BY <1>3 DEF Authorize, Audited, AuditFails, Decide, Goto
<1>4. ASSUME NEW t \in Threads, EvaluateRisk(t) PROVE Parts'
  BY <1>4 DEF EvaluateRisk, Audited, AuditFails, Decide, Goto
<1>5. ASSUME NEW t \in Threads, CheckBreaker(t) PROVE Parts'
  BY <1>5 DEF CheckBreaker, Decide, Goto
<1>6. ASSUME NEW t \in Threads, Dispatch(t) PROVE Parts'
  BY <1>6 DEF Dispatch, Goto
<1>7. ASSUME NEW t \in Threads, AdapterReturns(t) PROVE Parts'
  BY <1>7 DEF AdapterReturns
<1>8. ASSUME NEW t \in Threads, RecordAnswer(t) PROVE Parts'
  BY <1>8 DEF RecordAnswer, Decide, Goto
<1>9. ASSUME NEW t \in Threads, BeginUnknown(t) PROVE Parts'
  BY <1>9 DEF BeginUnknown, Goto
<1>10. ASSUME NEW t \in Threads, AuditLive(t) PROVE Parts'
  BY <1>10 DEF AuditLive, Audited, AuditFails, Decide
<1>11. ASSUME NEW t \in Threads, AuthorizePaper(t) PROVE Parts'
  BY <1>11 DEF AuthorizePaper, Audited, AuditFails, Decide, Goto
<1>12. ASSUME NEW t \in Threads, SubmitPaper(t) PROVE Parts'
  BY <1>12 DEF SubmitPaper, Decide
<1>13. ASSUME NEW t \in Threads, Finish(t) PROVE Parts'
  BY <1>13 DEF Finish
<1>14. ASSUME NEW r \in Reconcilers, PassStep(r) PROVE Parts'
  BY <1>1, <1>14 DEF PassStep, StartPass, NextTarget, EndPass, Query,
     QueryTimeout, QueryError, Observe, Audited, submitVars
<1>15. ASSUME NEW i \in Intents, VenueReceives(i) \/ VenueFinishes(i)
       PROVE  Parts'
  BY <1>1, <1>15 DEF VenueReceives, VenueFinishes, submitVars
<1>16. ASSUME Tick \/ UNCHANGED vars PROVE Parts'
  BY <1>1, <1>16 DEF Tick, vars, submitVars
<1> HIDE DEF Parts
<1>17. Parts'
  BY ONLY [Next]_vars, <1>2, <1>3, <1>4, <1>5, <1>6, <1>7, <1>8, <1>9, <1>10,
     <1>11, <1>12, <1>13, <1>14, <1>15, <1>16 DEF Next, SubmitStep
<1> QED  BY <1>17 DEF Parts

\* No order leaves the router, and no paper order is filled, before the audit
\* sink holds the authorization and the risk verdict that allow it.
THEOREM AuditedBeforeEffect == Spec => []AuditBeforeEffect
<1>1. AuditInv => AuditBeforeEffect
  BY DEF AuditInv
<1> QED  BY <1>1, AuditInit, AuditNext, PTL DEF Spec
-----------------------------------------------------------------------------
(* exposure *)

\* What the stage of a submission says about its order at the venue.
OrderInv ==
  /\ \A i \in Intents : intents[i] = "absent" => venue[i] = "none"
  /\ \A t \in Threads :
       LET i == work[t] IN
       /\ pc[t] \in BeforeEffect => venue[i] = "none"
       /\ pc[t] = "record" /\ result[t] \in {"rejected", "error", "unimplemented"}
            => ~Exposed(i)
       /\ pc[t] = "audit_live" /\ result[t] = "timeout" => status[i] # "none"
       /\ pc[t] = "finish" => \/ ~Exposed(i)
                              \/ result[t] \in {"accepted", "audit_unavailable"}
                              \/ result[t] = "submit_unknown" /\ status[i] # "none"

ExposureInv == IdempotencyInv /\ OrderInv /\ ExposureReported

\* A new router has no order at any venue.
LEMMA ExposureInit == Init => ExposureInv
<1> SUFFICES ASSUME Init PROVE ExposureInv  OBVIOUS
<1> QED
  BY IdempotencyInit
     DEF Init, ExposureInv, OrderInv, ExposureReported, BeforeEffect, Exposed

\* Every step keeps the venue's state of an order in line with the stage of
\* its submission and with the outcome it stored.
LEMMA ExposureNext == ExposureInv /\ [Next]_vars => ExposureInv'
<1> SUFFICES ASSUME ExposureInv, [Next]_vars PROVE ExposureInv'
  OBVIOUS
<1>0. IdempotencyInv' /\ TypeInv /\ Ownership
  BY IdempotencyNext DEF ExposureInv, IdempotencyInv
<1> DEFINE Parts == OrderInv /\ ExposureReported
<1> USE RouterAssumption, <1>0
<1> USE DEF ExposureInv, TypeInv, TypeOK, StageOK, Ownership, OrderInv,
            ExposureReported, BeforeEffect, Exposed
<1>1. ASSUME NEW t \in Threads, NEW i \in Intents, Reserve(t, i) PROVE Parts'
  BY <1>1 DEF Reserve, IsNew, Outcomes, Refusals, reconVars
<1>2. ASSUME NEW t \in Threads, NEW i \in Intents, Replay(t, i) PROVE Parts'
  BY <1>2 DEF Replay, submitVars, reconVars
<1>3. ASSUME NEW t \in Threads, Authorize(t) PROVE Parts'
  BY <1>3 DEF Authorize, Audited, AuditFails, Decide, Goto, reconVars
<1>4. ASSUME NEW t \in Threads, EvaluateRisk(t) PROVE Parts'
  BY <1>4 DEF EvaluateRisk, Audited, AuditFails, Decide, Goto, reconVars
<1>5. ASSUME NEW t \in Threads, CheckBreaker(t) PROVE Parts'
  BY <1>5 DEF CheckBreaker, Decide, Goto, reconVars
<1>6. ASSUME NEW t \in Threads, Dispatch(t) PROVE Parts'
  <2>1. /\ intents[work[t]] = "processing" /\ work[t] \in Intents
        /\ \A u \in Threads : pc[u] # "idle" /\ work[u] = work[t] => u = t
    BY <1>6 DEF Dispatch
  <2> QED  BY <1>6, <2>1 DEF Dispatch, Goto, reconVars, Outcomes, Refusals
<1>7. ASSUME NEW t \in Threads, AdapterReturns(t) PROVE Parts'
  BY <1>7 DEF AdapterReturns, AdapterAnswers, reconVars
<1>8. ASSUME NEW t \in Threads, RecordAnswer(t) PROVE Parts'
  BY <1>8 DEF RecordAnswer, Decide, Goto, reconVars
<1>9. ASSUME NEW t \in Threads, BeginUnknown(t) PROVE Parts'
  BY <1>9 DEF BeginUnknown, Goto
<1>10. ASSUME NEW t \in Threads, AuditLive(t) PROVE Parts'
  BY <1>10 DEF AuditLive, Audited, AuditFails, Decide, reconVars
<1>11. ASSUME NEW t \in Threads, AuthorizePaper(t) PROVE Parts'
  BY <1>11 DEF AuthorizePaper, Audited, AuditFails, Decide, Goto, reconVars
<1>12. ASSUME NEW t \in Threads, SubmitPaper(t) PROVE Parts'
  BY <1>12 DEF SubmitPaper, Decide, reconVars
<1>13. ASSUME NEW t \in Threads, Finish(t) PROVE Parts'
  BY <1>13 DEF Finish, reconVars, Outcomes, Refusals
<1>14. ASSUME UNCHANGED <<intents, submitVars, venue>>,
              \A i \in Intents : status[i] # "none" => status'[i] # "none"
       PROVE  Parts'
  BY <1>14 DEF submitVars
<1>15. ASSUME NEW r \in Reconcilers, PassStep(r) PROVE Parts'
  <2>1. CASE Observe(r)
    BY <1>14, <2>1 DEF Observe, Reconciled, Resolved
  <2>2. CASE ~Observe(r)
    BY <1>14, <1>15, <2>2 DEF PassStep, StartPass, NextTarget, EndPass, Query,
       QueryTimeout, QueryError, reconVars
  <2> QED  BY <2>1, <2>2
<1>16. ASSUME NEW i \in Intents, VenueReceives(i) \/ VenueFinishes(i)
       PROVE  Parts'
  BY <1>16 DEF VenueReceives, VenueFinishes, submitVars, reconVars
<1>17. ASSUME Tick \/ UNCHANGED vars PROVE Parts'
  BY <1>14, <1>17 DEF Tick, vars, reconVars
<1> HIDE DEF Parts
<1>18. Parts'
  BY ONLY [Next]_vars, <1>1, <1>2, <1>3, <1>4, <1>5, <1>6, <1>7, <1>8, <1>9,
     <1>10, <1>11, <1>12, <1>13, <1>15, <1>16, <1>17 DEF Next, SubmitStep
<1> QED  BY <1>0, <1>18 DEF Parts

\* A refused submission leaves no order at the venue, and an unknown one is
\* always registered with the reconciler.
THEOREM NoHiddenExposure == Spec => []ExposureReported
<1>1. ExposureInv => ExposureReported
  BY DEF ExposureInv
<1> QED  BY <1>1, ExposureInit, ExposureNext, PTL DEF Spec

-----------------------------------------------------------------------------
(* capacity *)

CapacityInv == IdempotencyInv /\ IsFiniteSet(InFlight) /\ CapacityRespected

\* Nothing is processed at the start.
LEMMA CapacityInit == Init => CapacityInv
<1> SUFFICES ASSUME Init PROVE CapacityInv  OBVIOUS
<1>1. InFlight = {}
  BY DEF Init, InFlight
<1> QED
  BY <1>1, IdempotencyInit, FS_EmptySet, RouterAssumption
     DEF CapacityInv, CapacityRespected

\* reserve is the only step that adds a processed intent, and it counts first.
LEMMA CapacityNext == CapacityInv /\ [Next]_vars => CapacityInv'
<1> SUFFICES ASSUME CapacityInv, [Next]_vars PROVE CapacityInv'
  OBVIOUS
<1>0. IdempotencyInv' /\ TypeInv /\ Ownership
  BY IdempotencyNext DEF CapacityInv, IdempotencyInv
<1> DEFINE Parts == IsFiniteSet(InFlight) /\ CapacityRespected
<1>a. Cardinality(InFlight) \in Nat /\ MaxConcurrent \in Nat
  BY FS_CardinalityType, RouterAssumption DEF CapacityInv
<1>1. ASSUME UNCHANGED intents PROVE Parts'
  BY <1>1 DEF CapacityInv, CapacityRespected, InFlight
<1>2. ASSUME NEW t \in Threads, NEW i \in Intents, Reserve(t, i) PROVE Parts'
  <2>1. InFlight' = InFlight \cup {i} /\ i \notin InFlight
    BY <1>0, <1>2
       DEF Reserve, IsNew, InFlight, TypeInv, TypeOK, Outcomes, Refusals
  <2>2. /\ IsFiniteSet(InFlight \cup {i})
        /\ Cardinality(InFlight \cup {i}) = Cardinality(InFlight) + 1
    BY <2>1, FS_AddElement DEF CapacityInv
  <2>3. Cardinality(InFlight) < MaxConcurrent
    BY <1>2 DEF Reserve, HasCapacity
  <2> QED  BY <1>a, <2>1, <2>2, <2>3 DEF CapacityRespected
<1>3. ASSUME NEW t \in Threads, Finish(t) PROVE Parts'
  <2>1. InFlight' \in SUBSET InFlight
    BY <1>0, <1>3 DEF Finish, InFlight, TypeInv, TypeOK, StageOK, Outcomes,
                      Refusals
  <2>2. IsFiniteSet(InFlight') /\ Cardinality(InFlight') <= Cardinality(InFlight)
    BY <2>1, FS_Subset DEF CapacityInv
  <2>3. Cardinality(InFlight') \in Nat
    BY <2>2, FS_CardinalityType
  <2> QED  BY <1>a, <2>2, <2>3 DEF CapacityInv, CapacityRespected
<1>4. ASSUME NEW t \in Threads, SubmitStep(t), ~Finish(t) PROVE Parts'
  BY <1>1, <1>4 DEF SubmitStep, Authorize, EvaluateRisk, CheckBreaker,
     Dispatch, AdapterReturns, RecordAnswer, BeginUnknown, AuditLive,
     AuthorizePaper, SubmitPaper
<1>5. ASSUME NEW t \in Threads, NEW i \in Intents, Replay(t, i) PROVE Parts'
  BY <1>1, <1>5 DEF Replay
<1>6. ASSUME NEW r \in Reconcilers, PassStep(r) PROVE Parts'
  BY <1>1, <1>6 DEF PassStep, StartPass, NextTarget, EndPass, Query,
     QueryTimeout, QueryError, Observe
<1>7. ASSUME NEW i \in Intents, VenueReceives(i) \/ VenueFinishes(i)
      PROVE  Parts'
  BY <1>1, <1>7 DEF VenueReceives, VenueFinishes
<1>8. ASSUME Tick \/ UNCHANGED vars PROVE Parts'
  BY <1>1, <1>8 DEF Tick, vars
<1> HIDE DEF Parts
<1>9. Parts'
  BY ONLY [Next]_vars, <1>2, <1>3, <1>4, <1>5, <1>6, <1>7, <1>8 DEF Next
<1> QED  BY <1>0, <1>9 DEF Parts, CapacityInv

\* The concurrency limit holds in every state.
THEOREM CapacityHolds == Spec => []CapacityRespected
<1>1. CapacityInv => CapacityRespected
  BY DEF CapacityInv
<1> QED  BY <1>1, CapacityInit, CapacityNext, PTL DEF Spec
==============================================================================
