----------------------------- MODULE OrderRouter -----------------------------
(***************************************************************************)
(* The fail-closed order router (connectors/execution/order-router): the   *)
(* idempotency table, the submit pipeline                                  *)
(*   reserve -> authorize -> risk -> breaker -> adapter | paper ledger     *)
(*   -> audit -> finish,                                                   *)
(* the reconciler of orders whose submission timed out, and one circuit    *)
(* breaker per venue.                                                      *)
(*                                                                         *)
(* Threads call submit() and Reconcilers call reconcile_unknowns()         *)
(* concurrently; the router only holds a mutex inside reserve, finish,     *)
(* each breaker operation, each reconciler operation and the paper ledger, *)
(* so each of those is one step and the threads interleave between them.   *)
(* The venue behind the adapter is external: it receives an order at any   *)
(* time after it was sent, even after the adapter gave up waiting.         *)
(***************************************************************************)
EXTENDS CircuitBreaker, TLC

CONSTANTS Threads,        \* callers of OrderRouter::submit
          Reconcilers,    \* callers of OrderRouter::reconcile_unknowns
          Intents,        \* OrderIntent ids
          Paper,          \* the intents with intent.paper set
          Venues,
          VenueOf,        \* risk_context.markets[intent.market].venue
          Adapters,       \* venues with an order-capable adapter
          ReadOnly,       \* venues registered with a ReadOnlyAdapter
          MaxConcurrent,  \* RouterConfig.max_concurrent_orders
          MaxReconAttempts, \* RouterConfig.max_reconciliation_attempts
          MaxTime,        \* bound on the clock
          MaxQueryErrors  \* bound on query errors recorded by the breakers

NoIntent == "no intent"

ASSUME RouterAssumption ==
  /\ NoIntent \notin Intents
  /\ Paper \subseteq Intents
  /\ VenueOf \in [Intents -> Venues]
  /\ Adapters \subseteq Venues
  /\ ReadOnly \subseteq Venues
  /\ Adapters \cap ReadOnly = {}
  /\ MaxConcurrent \in Nat \ {0}
  /\ MaxReconAttempts \in Nat \ {0}
  /\ MaxTime \in Nat
  /\ MaxQueryErrors \in Nat

Refusals == {"market_mismatch", "unauthorized", "risk_denied",
             "venue_not_implemented"}

\* RouterResult and the RouterErrors that submit_reserved can return.
Outcomes == Refusals \cup {"accepted", "submit_unknown", "audit_unavailable",
                           "paper_filled", "paper_ledger_error"}

\* What the adapter call of a thread returned, before it is handled.
Answers == {"accepted", "rejected", "timeout", "error", "unimplemented"}

Stages == {"idle", "authorize", "risk", "breaker", "dispatch", "waiting",
           "record", "begin_unknown", "audit_live", "paper_authorize",
           "paper", "finish"}

VenueStates == {"none", "inflight", "open", "filled", "closed", "rejected",
                "lost"}

ReconStatus == {"none", "unknown", "open", "filled", "closed", "not_found"}

Resolved == {"filled", "closed", "not_found"}       \* is_terminal

Phases == {"authz", "intent_origin_binding", "risk_verdict",
           "paper_execution_authorized", "live_submit_accepted",
           "live_submit_unknown", "live_submit_reconciled"}

AuditEvent == [intent : Intents, phase : Phases, verdict : {"allow", "deny"}]

VARIABLES
  now,          \* monotonic clock read by the breakers
  intents,      \* the idempotency table: absent, processing or an outcome
  pc, work, result, \* per submit thread: stage, intent, answer or outcome
  effects,      \* per intent, adapter.submit_order and ledger.submit calls
  returned,     \* per intent, the outcomes its submit calls returned
  venue,        \* the venue's own state of each order
  audit,        \* events the audit sink has accepted
  breakers,
  status, attempts,  \* the reconciler's entries
  rpc, targets, current, tries, sighting, \* per reconciling thread
  queryErrors

submitVars == <<pc, work, result>>
reconVars == <<status, attempts>>
passVars == <<rpc, targets, current, tries, sighting>>
vars == <<now, intents, submitVars, effects, returned, venue, audit, breakers,
          reconVars, passVars, queryErrors>>

Init ==
  /\ now = 0
  /\ intents = [i \in Intents |-> "absent"]
  /\ pc = [t \in Threads |-> "idle"]
  /\ work = [t \in Threads |-> NoIntent]
  /\ result = [t \in Threads |-> "none"]
  /\ effects = [i \in Intents |-> 0]
  /\ returned = [i \in Intents |-> {}]
  /\ venue = [i \in Intents |-> "none"]
  /\ audit = {}
  /\ breakers = [v \in Venues |-> NewBreaker]
  /\ status = [i \in Intents |-> "none"]
  /\ attempts = [i \in Intents |-> 0]
  /\ rpc = [r \in Reconcilers |-> "idle"]
  /\ targets = [r \in Reconcilers |-> {}]
  /\ current = [r \in Reconcilers |-> NoIntent]
  /\ tries = [r \in Reconcilers |-> 0]
  /\ sighting = [r \in Reconcilers |-> "none"]
  /\ queryErrors = 0

-----------------------------------------------------------------------------
(* submit *)

InFlight == {i \in Intents : intents[i] = "processing"}

Event(i, phase, verdict) ==
  [intent |-> i, phase |-> phase, verdict |-> verdict]

Goto(t, stage) == pc' = [pc EXCEPT ![t] = stage] /\ UNCHANGED <<work, result>>

\* The outcome is decided; finish() stores it.
Decide(t, outcome) ==
  /\ pc' = [pc EXCEPT ![t] = "finish"]
  /\ result' = [result EXCEPT ![t] = outcome]
  /\ UNCHANGED work

\* Mutant: a failed emission is ignored.
AuditedOrNot(events) == audit' = audit \cup events \/ UNCHANGED audit

\* The audit sink accepts the events ...
Audited(events) == audit' = audit \cup events

\* ... or rejects one, and the submission fails closed.
AuditFails(t) == UNCHANGED audit /\ Decide(t, "audit_unavailable")

\* Mutant: only finished intents are recognised as seen.
IsNewUnlessFinished(i) == intents[i] \notin Outcomes

\* Mutant: an intent that ended in the audit error may be tried again.
IsNewAfterError(i) == intents[i] \in {"absent", "audit_unavailable"}

\* reserve() admits an id that is not in the table ...
IsNew(i) == intents[i] = "absent"

\* ... while fewer than max_concurrent_orders are being processed.
HasCapacity == Cardinality(InFlight) < MaxConcurrent

\* InProgress and CapacityExceeded return without changing the router and
\* are not steps.
Reserve(t, i) ==
  /\ pc[t] = "idle"
  /\ IsNew(i)
  /\ HasCapacity
  /\ intents' = [intents EXCEPT ![i] = "processing"]
  /\ pc' = [pc EXCEPT ![t] = "authorize"]
  /\ work' = [work EXCEPT ![t] = i]
  /\ UNCHANGED <<now, result, effects, returned, venue, audit, breakers,
                 reconVars, passVars, queryErrors>>

\* reserve() of an id with a stored outcome returns that outcome.
Replay(t, i) ==
  /\ pc[t] = "idle"
  /\ intents[i] \in Outcomes
  /\ returned' = [returned EXCEPT ![i] = @ \cup {intents[i]}]
  /\ UNCHANGED <<now, intents, submitVars, effects, venue, audit, breakers,
                 reconVars, passVars, queryErrors>>

\* The market check, enforce_at with its audit record, the origin binding.
Authorize(t) ==
  LET i == work[t] IN
  /\ pc[t] = "authorize"
  /\ \/ Decide(t, "market_mismatch") /\ UNCHANGED audit
     \/ AuditFails(t)
     \/ Audited({Event(i, "authz", "deny")}) /\ Decide(t, "unauthorized")
     \/ Audited({Event(i, "authz", "allow")}) /\ Goto(t, "risk")
     \/ /\ Audited({Event(i, "authz", "allow"),
                    Event(i, "intent_origin_binding", "deny")})
        /\ Decide(t, "unauthorized")
     \/ Audited({Event(i, "authz", "allow")}) /\ Decide(t, "audit_unavailable")
  /\ UNCHANGED <<now, intents, effects, returned, venue, breakers, reconVars,
                 passVars, queryErrors>>

\* RiskEngine::evaluate with a nondeterministic verdict.  A market missing
\* from the risk context is denied here, so the router's own lookup of the
\* venue cannot fail afterwards.
EvaluateRisk(t) ==
  LET i == work[t] IN
  /\ pc[t] = "risk"
  /\ \/ AuditFails(t)
     \/ Audited({Event(i, "risk_verdict", "deny")}) /\ Decide(t, "risk_denied")
     \/ /\ Audited({Event(i, "risk_verdict", "allow")})
        /\ Goto(t, IF i \in Paper THEN "paper_authorize" ELSE "breaker")
  /\ UNCHANGED <<now, intents, effects, returned, venue, breakers, reconVars,
                 passVars, queryErrors>>

\* RouterBreakers::is_allowed.  A venue without an entry in the map behaves
\* as a new breaker: it is closed and admits.
CheckBreaker(t) ==
  LET v == VenueOf[work[t]] IN
  /\ pc[t] = "breaker"
  /\ breakers' = [breakers EXCEPT ![v] = AfterAllow(@, now)]
  /\ IF AllowRequest(breakers[v], now)
     THEN Goto(t, "dispatch")
     ELSE Decide(t, "risk_denied")
  /\ UNCHANGED <<now, intents, effects, returned, venue, audit, reconVars,
                 passVars, queryErrors>>

\* The adapter lookup and the call of adapter.submit_order: the order leaves
\* for the venue, which ignores a client order id it already knows.
Dispatch(t) ==
  LET i == work[t] IN
  /\ pc[t] = "dispatch"
  /\ IF VenueOf[i] \in Adapters
     THEN /\ venue' = [venue EXCEPT ![i] = IF @ = "none" THEN "inflight" ELSE @]
          /\ effects' = [effects EXCEPT ![i] = @ + 1]
          /\ Goto(t, "waiting")
     ELSE /\ pc' = [pc EXCEPT ![t] = "record"]
          /\ result' = [result EXCEPT ![t] = "unimplemented"]
          /\ UNCHANGED <<work, venue, effects>>
  /\ UNCHANGED <<now, intents, returned, audit, breakers, reconVars, passVars,
                 queryErrors>>

\* Mutant: a timeout is handled as any other adapter error.
AdapterAnswersTimeoutIsError(order) ==
  {"error"}
    \cup (IF order \in {"open", "filled", "closed"} THEN {"accepted"} ELSE {})
    \cup (IF order = "rejected" THEN {"rejected"} ELSE {})

\* The answers an adapter can give.  A venue that knows the order says so, an
\* error that is not a timeout means the order did not and will not arrive,
\* and a timeout says nothing.
AdapterAnswers(order) ==
  {"timeout"}
    \cup (IF order \in {"open", "filled", "closed"} THEN {"accepted"} ELSE {})
    \cup (IF order = "rejected" THEN {"rejected"} ELSE {})
    \cup (IF order = "lost" THEN {"error"} ELSE {})

AdapterReturns(t) ==
  /\ pc[t] = "waiting"
  /\ \E answer \in AdapterAnswers(venue[work[t]]) :
       result' = [result EXCEPT ![t] = answer]
  /\ pc' = [pc EXCEPT ![t] = "record"]
  /\ UNCHANGED <<now, intents, work, effects, returned, venue, audit, breakers,
                 reconVars, passVars, queryErrors>>

\* The breaker records the adapter's answer and the answer is dispatched on.
RecordAnswer(t) ==
  LET v == VenueOf[work[t]] IN
  /\ pc[t] = "record"
  /\ breakers' = [breakers EXCEPT ![v] =
       IF result[t] = "accepted" THEN RecordSuccess(@, now)
                                 ELSE RecordFailure(@, now)]
  /\ \/ result[t] = "accepted" /\ Goto(t, "audit_live")
     \/ result[t] = "timeout" /\ Goto(t, "begin_unknown")
     \/ result[t] \in {"rejected", "error"} /\ Decide(t, "risk_denied")
     \/ result[t] = "unimplemented" /\ Decide(t, "venue_not_implemented")
  /\ UNCHANGED <<now, intents, effects, returned, venue, audit, reconVars,
                 passVars, queryErrors>>

\* Reconciler::begin_unknown, which registers an order id once.
BeginUnknown(t) ==
  LET i == work[t] IN
  /\ pc[t] = "begin_unknown"
  /\ status' = [status EXCEPT ![i] = IF @ = "none" THEN "unknown" ELSE @]
  /\ Goto(t, "audit_live")
  /\ UNCHANGED <<now, intents, effects, returned, venue, audit, breakers,
                 attempts, passVars, queryErrors>>

\* The audit event of an accepted or unknown submission comes after it.
AuditLive(t) ==
  LET i == work[t] IN
  /\ pc[t] = "audit_live"
  /\ \/ AuditFails(t)
     \/ /\ result[t] = "accepted"
        /\ Audited({Event(i, "live_submit_accepted", "allow")})
        /\ Decide(t, "accepted")
     \/ /\ result[t] = "timeout"
        /\ Audited({Event(i, "live_submit_unknown", "deny")})
        /\ Decide(t, "submit_unknown")
  /\ UNCHANGED <<now, intents, effects, returned, venue, breakers, reconVars,
                 passVars, queryErrors>>

\* The audit event of a paper execution comes before it.
AuthorizePaper(t) ==
  /\ pc[t] = "paper_authorize"
  /\ \/ AuditFails(t)
     \/ /\ Audited({Event(work[t], "paper_execution_authorized", "allow")})
        /\ Goto(t, "paper")
  /\ UNCHANGED <<now, intents, effects, returned, venue, breakers, reconVars,
                 passVars, queryErrors>>

\* PaperLedger::submit fills the intent or rejects it without a change.
SubmitPaper(t) ==
  LET i == work[t] IN
  /\ pc[t] = "paper"
  /\ \/ /\ effects' = [effects EXCEPT ![i] = @ + 1]
        /\ Decide(t, "paper_filled")
     \/ UNCHANGED effects /\ Decide(t, "paper_ledger_error")
  /\ UNCHANGED <<now, intents, returned, venue, audit, breakers, reconVars,
                 passVars, queryErrors>>

\* finish() stores the outcome and submit() returns it.
Finish(t) ==
  LET i == work[t] IN
  /\ pc[t] = "finish"
  /\ intents' = [intents EXCEPT ![i] = result[t]]
  /\ returned' = [returned EXCEPT ![i] = @ \cup {result[t]}]
  /\ pc' = [pc EXCEPT ![t] = "idle"]
  /\ work' = [work EXCEPT ![t] = NoIntent]
  /\ result' = [result EXCEPT ![t] = "none"]
  /\ UNCHANGED <<now, effects, venue, audit, breakers, reconVars, passVars,
                 queryErrors>>

-----------------------------------------------------------------------------
(* reconcile_unknowns *)

Pending == {i \in Intents : status[i] \notin Resolved \cup {"none"}}

\* The snapshot of pending_targets.  With none pending the pass is a no-op.
StartPass(r) ==
  /\ rpc[r] = "idle"
  /\ Pending # {}
  /\ targets' = [targets EXCEPT ![r] =
                   {[id |-> i, attempts |-> attempts[i]] : i \in Pending}]
  /\ rpc' = [rpc EXCEPT ![r] = "next"]
  /\ UNCHANGED <<now, intents, submitVars, effects, returned, venue, audit,
                 breakers, reconVars, current, tries, sighting, queryErrors>>

\* Mutant: the count is not kept.
NextAttemptForgotten(n) == n

\* saturating_add.  The count saturates at MaxReconAttempts instead of
\* u32::MAX: above it the code makes no difference.
NextAttempt(n) == IF n < MaxReconAttempts THEN n + 1 ELSE n

\* Mutant: off by one.
BudgetSpentEarly(n) == n + 1 >= MaxReconAttempts

\* attempts >= max_reconciliation_attempts
BudgetSpent(n) == n >= MaxReconAttempts

\* record_attempt: an order resolved since the snapshot keeps its attempts
\* and the pass goes on with the count of the snapshot.  Every pending order
\* went through an adapter, so the adapter lookup cannot fail.
NextTarget(r) ==
  /\ rpc[r] = "next"
  /\ \E target \in targets[r] :
       LET i    == target.id
           live == status[i] \notin Resolved
           n    == NextAttempt(attempts[i])
       IN  /\ targets' = [targets EXCEPT ![r] = @ \ {target}]
           /\ current' = [current EXCEPT ![r] = i]
           /\ attempts' = IF live THEN [attempts EXCEPT ![i] = n] ELSE attempts
           /\ tries' = [tries EXCEPT ![r] = IF live THEN n ELSE target.attempts]
  /\ rpc' = [rpc EXCEPT ![r] = "query"]
  /\ UNCHANGED <<now, intents, submitVars, effects, returned, venue, audit,
                 breakers, status, sighting, queryErrors>>

EndPass(r) ==
  /\ rpc[r] = "next"
  /\ targets[r] = {}
  /\ rpc' = [rpc EXCEPT ![r] = "idle"]
  /\ current' = [current EXCEPT ![r] = NoIntent]
  /\ tries' = [tries EXCEPT ![r] = 0]
  /\ UNCHANGED <<now, intents, submitVars, effects, returned, venue, audit,
                 breakers, reconVars, targets, sighting, queryErrors>>

\* Mutant: an unrecognised status counts as open.
ObservationsDefaultOpen(order) ==
  IF order \in {"open", "filled", "closed", "rejected"}
  THEN {IF order = "rejected" THEN "open" ELSE order}
  ELSE {"not_found"}

\* VenueOrderResult::observation and map_observation, as the status that
\* observe() stores: an order the venue has not received is not found, and a
\* venue may or may not keep an order it rejected.
Observations(order) ==
  CASE order \in {"open", "filled", "closed"} -> {order}
    [] order = "rejected" -> {"closed", "not_found"}
    [] OTHER -> {"not_found"}

\* adapter.query_order answered.  Not found is an observation only once the
\* attempts are used up.
Query(r) ==
  /\ rpc[r] = "query"
  /\ \E seen \in Observations(venue[current[r]]) :
       IF seen = "not_found" /\ ~BudgetSpent(tries[r])
       THEN rpc' = [rpc EXCEPT ![r] = "next"] /\ UNCHANGED sighting
       ELSE /\ rpc' = [rpc EXCEPT ![r] = "observe"]
            /\ sighting' = [sighting EXCEPT ![r] = seen]
  /\ UNCHANGED <<now, intents, submitVars, effects, returned, venue, audit,
                 breakers, reconVars, targets, current, tries, queryErrors>>

\* adapter.query_order timed out: no observation.
QueryTimeout(r) ==
  /\ rpc[r] = "query"
  /\ rpc' = [rpc EXCEPT ![r] = "next"]
  /\ UNCHANGED <<now, intents, submitVars, effects, returned, venue, audit,
                 breakers, reconVars, targets, current, tries, sighting,
                 queryErrors>>

\* Any other query error counts against the venue's breaker.
QueryError(r) ==
  LET v == VenueOf[current[r]] IN
  /\ rpc[r] = "query"
  /\ queryErrors < MaxQueryErrors
  /\ queryErrors' = queryErrors + 1
  /\ breakers' = [breakers EXCEPT ![v] = RecordFailure(@, now)]
  /\ rpc' = [rpc EXCEPT ![r] = "next"]
  /\ UNCHANGED <<now, intents, submitVars, effects, returned, venue, audit,
                 reconVars, targets, current, tries, sighting>>

\* Mutant: the last observation wins.
ReconciledLatest(old, seen) == seen

\* observe(): a resolved order keeps its status.
Reconciled(old, seen) == IF old \in Resolved THEN old ELSE seen

\* observe() and the read of the status under one lock, then its audit event;
\* a failed emission abandons the rest of the pass.
Observe(r) ==
  LET i    == current[r]
      seen == Reconciled(status[i], sighting[r])
  IN
  /\ rpc[r] = "observe"
  /\ status' = [status EXCEPT ![i] = seen]
  /\ sighting' = [sighting EXCEPT ![r] = "none"]
  /\ \/ /\ Audited({Event(i, "live_submit_reconciled",
                         IF seen = "not_found" THEN "deny" ELSE "allow")})
        /\ rpc' = [rpc EXCEPT ![r] = "next"]
        /\ UNCHANGED <<targets, current, tries>>
     \/ /\ rpc' = [rpc EXCEPT ![r] = "idle"]
        /\ targets' = [targets EXCEPT ![r] = {}]
        /\ current' = [current EXCEPT ![r] = NoIntent]
        /\ tries' = [tries EXCEPT ![r] = 0]
        /\ UNCHANGED audit
  /\ UNCHANGED <<now, intents, submitVars, effects, returned, venue, breakers,
                 attempts, queryErrors>>

-----------------------------------------------------------------------------
(* environment *)

\* A sent order reaches the venue, is refused by it, or is lost on the way.
VenueReceives(i) ==
  /\ venue[i] = "inflight"
  /\ \E s \in {"open", "rejected", "lost"} : venue' = [venue EXCEPT ![i] = s]
  /\ UNCHANGED <<now, intents, submitVars, effects, returned, audit, breakers,
                 reconVars, passVars, queryErrors>>

VenueFinishes(i) ==
  /\ venue[i] = "open"
  /\ \E s \in {"filled", "closed"} : venue' = [venue EXCEPT ![i] = s]
  /\ UNCHANGED <<now, intents, submitVars, effects, returned, audit, breakers,
                 reconVars, passVars, queryErrors>>

Tick ==
  /\ now < MaxTime
  /\ now' = now + 1
  /\ UNCHANGED <<intents, submitVars, effects, returned, venue, audit,
                 breakers, reconVars, passVars, queryErrors>>

SubmitStep(t) ==
  \/ Authorize(t) \/ EvaluateRisk(t) \/ CheckBreaker(t) \/ Dispatch(t)
  \/ AdapterReturns(t) \/ RecordAnswer(t) \/ BeginUnknown(t) \/ AuditLive(t)
  \/ AuthorizePaper(t) \/ SubmitPaper(t) \/ Finish(t)

PassStep(r) ==
  \/ StartPass(r) \/ NextTarget(r) \/ EndPass(r) \/ Query(r)
  \/ QueryTimeout(r) \/ QueryError(r) \/ Observe(r)

Next ==
  \/ \E t \in Threads, i \in Intents : Reserve(t, i) \/ Replay(t, i)
  \/ \E t \in Threads : SubmitStep(t)
  \/ \E r \in Reconcilers : PassStep(r)
  \/ \E i \in Intents : VenueReceives(i) \/ VenueFinishes(i)
  \/ Tick

Spec == Init /\ [][Next]_vars

\* A submit thread is never blocked for good (adapters time out), a pass that
\* started goes on, and a venue that is asked again and again answers some of
\* the time, as does the audit sink.  Nothing is said of the start of a pass:
\* no process of the repository calls reconcile_unknowns.
Fairness ==
  /\ \A t \in Threads : WF_vars(SubmitStep(t))
  /\ \A r \in Reconcilers :
       /\ WF_vars(rpc[r] # "idle" /\ PassStep(r))
       /\ \A i \in Intents : SF_vars(current[r] = i /\ Query(r))
       /\ SF_vars(Observe(r) /\ rpc'[r] = "next")

FairSpec == Spec /\ Fairness

\* The process dies and starts again: everything the router keeps is in
\* memory, and everything outside it stays.
Restart ==
  /\ intents' = [i \in Intents |-> "absent"]
  /\ pc' = [t \in Threads |-> "idle"]
  /\ work' = [t \in Threads |-> NoIntent]
  /\ result' = [t \in Threads |-> "none"]
  /\ breakers' = [v \in Venues |-> NewBreaker]
  /\ status' = [i \in Intents |-> "none"]
  /\ attempts' = [i \in Intents |-> 0]
  /\ rpc' = [r \in Reconcilers |-> "idle"]
  /\ targets' = [r \in Reconcilers |-> {}]
  /\ current' = [r \in Reconcilers |-> NoIntent]
  /\ tries' = [r \in Reconcilers |-> 0]
  /\ sighting' = [r \in Reconcilers |-> "none"]
  /\ UNCHANGED <<now, effects, returned, venue, audit, queryErrors>>

RestartSpec == Init /\ [][Next \/ Restart]_vars

-----------------------------------------------------------------------------
(* properties *)

TypeOK ==
  /\ now \in Nat
  /\ intents \in [Intents -> {"absent", "processing"} \cup Outcomes]
  /\ pc \in [Threads -> Stages]
  /\ work \in [Threads -> Intents \cup {NoIntent}]
  /\ result \in [Threads -> Answers \cup Outcomes \cup {"none"}]
  /\ effects \in [Intents -> Nat]
  /\ returned \in [Intents -> SUBSET Outcomes]
  /\ venue \in [Intents -> VenueStates]
  /\ audit \subseteq AuditEvent
  /\ breakers \in [Venues -> Breaker]
  /\ status \in [Intents -> ReconStatus]
  /\ attempts \in [Intents -> 0..MaxReconAttempts]
  /\ rpc \in [Reconcilers -> {"idle", "next", "query", "observe"}]
  /\ targets \in [Reconcilers ->
                    SUBSET [id : Intents, attempts : 0..MaxReconAttempts]]
  /\ current \in [Reconcilers -> Intents \cup {NoIntent}]
  /\ tries \in [Reconcilers -> 0..MaxReconAttempts]
  /\ sighting \in [Reconcilers -> ReconStatus]
  /\ queryErrors \in Nat

Exposed(i) == venue[i] \in {"inflight", "open", "filled", "closed"}

\* However many threads submit an intent, however often and with whatever
\* failures in between, at most one call reaches a venue or the paper ledger
\* for it (reserve/finish as the idempotency gate).
AtMostOneEffect == \A i \in Intents : effects[i] <= 1

\* Every submit call that returns an outcome for an intent returns the same
\* one: the outcome stored for it, which is never replaced.
SingleAnswer ==
  \A i \in Intents : returned[i] # {} => returned[i] = {intents[i]}

\* The check in reserve bounds the intents being processed at once.
CapacityRespected == Cardinality(InFlight) <= MaxConcurrent

\* No order is live at a venue behind a refusal: once submit has decided, an
\* order that is or may still arrive at the venue was reported as accepted,
\* is unknown and registered with the reconciler, or ended in the audit
\* error, which says nothing about the order.
ExposureReported ==
  \A i \in Intents :
    intents[i] \in Outcomes /\ Exposed(i) =>
      \/ intents[i] \in {"accepted", "audit_unavailable"}
      \/ intents[i] = "submit_unknown" /\ status[i] # "none"

\* Nothing leaves the router before the sink has accepted the authorization
\* and the risk verdict that allow it, and for paper the permission to
\* execute.
AuditBeforeEffect ==
  \A i \in Intents : effects[i] > 0 =>
    /\ Event(i, "authz", "allow") \in audit
    /\ Event(i, "risk_verdict", "allow") \in audit
    /\ i \in Paper => Event(i, "paper_execution_authorized", "allow") \in audit

\* An order is given up as not found only after the whole budget of attempts,
\* whichever of several overlapping passes gives it up and however stale its
\* snapshot is.
NotFoundAfterBudget ==
  \A i \in Intents :
    status[i] = "not_found" => attempts[i] = MaxReconAttempts

\* What the reconciler says of an order has happened at the venue, although
\* the answer it rests on is old when it is applied.
ReconcilerAgreesWithVenue ==
  \A i \in Intents :
    /\ status[i] = "filled" => venue[i] = "filled"
    /\ status[i] = "closed" => venue[i] \in {"closed", "rejected"}
    /\ status[i] = "open" => venue[i] \in {"open", "filled", "closed"}

\* A resolved order is never reopened or changed by a late observation.
ResolvedForGood ==
  [][\A i \in Intents : status[i] \in Resolved => status'[i] = status[i]]_vars

\* The half-open probe is never leaked: while a venue's breaker is half-open
\* some submission that passed it has not reported back yet, so that its
\* report will close or reopen the breaker.
ProbeOwned ==
  \A v \in Venues : breakers[v].state = "half_open" =>
    \E t \in Threads :
      /\ pc[t] \in {"dispatch", "waiting", "record"}
      /\ VenueOf[work[t]] = v

\* A caller starts passes again and again while orders are unknown.
PassesGoOn == []<>(Pending = {} \/ \E r \in Reconcilers : rpc[r] # "idle")

\* Every reserved submission gets its outcome, and when that is unknown the
\* order is resolved or seen at the venue if passes are started again and again:
\* neither a timeout, nor an audit failure, nor a pass abandoned halfway leaves
\* it unknown forever.
SubmissionsSettle ==
  /\ \A i \in Intents : intents[i] = "processing" ~> intents[i] \in Outcomes
  /\ PassesGoOn =>
       \A i \in Intents : status[i] = "unknown" ~> status[i] # "unknown"

\* SPEC-006: "a submit timeout moves the order to `state=unknown` and the
\* reconciler resolves it from venue order queries".  False under FairSpec: no
\* pass need ever start.
UnknownsResolved ==
  \A i \in Intents : status[i] = "unknown" ~> status[i] # "unknown"

\* SPEC-006: "A restart during any milestone of any flow must be recoverable
\* by the reconciler".  An order whose submission no thread is working on and
\* whose acceptance was not reported is known to the reconciler.
UnknownsSurviveRestart ==
  \A i \in Intents :
    /\ Exposed(i)
    /\ \A t \in Threads : work[t] # i
    /\ returned[i] \cap {"accepted", "audit_unavailable"} = {}
    => status[i] # "none"

-----------------------------------------------------------------------------
(* Instances for TLC *)

\* All orders name one venue, or one live order names a read-only venue and
\* the others a venue with an order adapter.
OneVenue == [i \in Intents |-> CHOOSE v \in Venues : TRUE]
TwoVenues ==
  LET stray == CHOOSE i \in Intents : i \notin Paper
  IN  [i \in Intents |->
         CHOOSE v \in Venues : v \in IF i = stray THEN ReadOnly ELSE Adapters]

\* Submit threads and reconciling threads are interchangeable, and so are
\* orders when all of them are live orders for one venue.
Callers == Permutations(Threads) \cup Permutations(Reconcilers)
CallersAndOrders == Callers \cup Permutations(Intents)
=============================================================================
