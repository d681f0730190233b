------------------------- MODULE ApprovalReferences -------------------------
(***************************************************************************)
(* The stores of approval references (server/alerts/approvals.py) under    *)
(* concurrent calls: the Postgres store, whose create() counts and inserts *)
(* in one read-committed transaction and whose consume() locks the row,    *)
(* and the memory store, one lock around all of each.  Around them, the    *)
(* service that asks for a reference and tells of it (alerts/app.py), and  *)
(* the SMS answer that consumes it (alerts/webhooks.py).                   *)
(*                                                                         *)
(* OpportunityLifecycle follows what an approved reference does; this      *)
(* module is about the references of one actor.                            *)
(***************************************************************************)
EXTENDS Integers, FiniteSetTheorems, TLAPS

CONSTANTS Refs, Callers, Targets,
          Limit,          \* references of one actor in an hour: 3 in the code
          Hour, Ttl,      \* in units of time; Ttl is that of the guardian's
          MaxTime

\* Callers that can be counted; a limit, an hour and a lifetime.
ApprovalAssumption ==
  /\ IsFiniteSet(Callers)
  /\ Limit \in Nat \ {0} /\ Hour \in Nat \ {0} /\ Ttl \in Nat

VARIABLES store,          \* which store the service was built with
          now, row,
          call,           \* per caller: the create() it is in
          prompted,       \* references the actor was told of
          attempts,       \* per reference: the committed approval_attempts
          answers,        \* history: per reference, what the actor answered
          effects         \* history: how often each reference had its effect

vars == <<store, now, row, call, prompted, attempts, answers, effects>>

Actions == {"execute_paper", "guardian"}
NoRow   == [status |-> "none"]
NoCall  == [stage |-> "idle"]

\* Answers of a reference: the accepted ones, and whether there are denied ones.
None    == [accepted |-> {}, denied |-> FALSE]

Init ==
  /\ store \in {"memory", "postgres"}
  /\ now = 0
  /\ row = [r \in Refs |-> NoRow]
  /\ call = [p \in Callers |-> NoCall]
  /\ prompted = {}
  /\ attempts = [r \in Refs |-> None] /\ answers = [r \in Refs |-> None]
  /\ effects = [r \in Refs |-> 0]

-----------------------------------------------------------------------------
(* create().                                                               *)

Issued == {r \in Refs : row[r].status # "none"}

\* Mutant: only references that still wait are counted.
RecentPending == {r \in Issued : row[r].created > now - Hour /\ row[r].status = "pending"}

Recent == {r \in Issued : row[r].created > now - Hour}

\* Pending references for the same action and target.
Same(a, t)  == {r \in Issued : row[r].status = "pending" /\ row[r].action = a /\ row[r].target = t}
Stale(rs)   == {r \in rs : row[r].expires <= now}

\* ApprovalService.request(): the guardian's references need a step-up and
\* live shorter.
Fresh(a, t) ==
  [status |-> "pending", action |-> a, target |-> t, stepUp |-> a = "guardian",
   created |-> now, expires |-> now + (IF a = "guardian" THEN Ttl ELSE 2 * Ttl)]

Insert(p, r, a, t) ==
  /\ row' = [q \in Refs |-> IF q = r THEN Fresh(a, t)
                            ELSE IF store = "postgres" /\ q \in Stale(Same(a, t))
                                 THEN [row[q] EXCEPT !.status = "expired"] ELSE row[q]]
  /\ call' = [call EXCEPT ![p] = [stage |-> "prompt", ref |-> r]]

\* MemoryApprovalStore.create(): all under the lock.
CreateInMemory(p) ==
  /\ store = "memory" /\ call[p].stage = "idle"
  /\ Cardinality(Recent) < Limit
  /\ \E a \in Actions, t \in Targets, r \in Refs \ Issued :
       /\ Same(a, t) \ Stale(Same(a, t)) = {}
       /\ Insert(p, r, a, t)
  /\ UNCHANGED <<store, now, prompted, attempts, answers, effects>>

\* PostgresApprovalStore.create(): the count sees what others committed ...
Count(p) ==
  /\ store = "postgres" /\ call[p].stage = "idle"
  /\ \E a \in Actions, t \in Targets :
       call' = [call EXCEPT ![p] = [stage |-> "counted", action |-> a, target |-> t,
                                    recent |-> Cardinality(Recent)]]
  /\ UNCHANGED <<store, now, row, prompted, attempts, answers, effects>>

\* ... and the insert, with idx_approval_one_pending, is committed.
Create(p) ==
  /\ call[p].stage = "counted"
  /\ LET a == call[p].action
         t == call[p].target
     IN  IF call[p].recent >= Limit \/ Same(a, t) \ Stale(Same(a, t)) # {}
         THEN call' = [call EXCEPT ![p] = NoCall] /\ UNCHANGED row
         ELSE \E r \in Refs \ Issued : Insert(p, r, a, t)
  /\ UNCHANGED <<store, now, prompted, attempts, answers, effects>>

\* mark_failed(): Postgres leaves what is settled alone.
Failed(r) ==
  row' = [row EXCEPT ![r].status =
            IF store = "memory" \/ @ \in {"pending", "approved"} THEN "failed" ELSE @]

\* send_approval_prompt(), and mark_failed() when it fails - the message may
\* have arrived all the same.
Prompt(p) ==
  /\ call[p].stage = "prompt"
  /\ prompted' = prompted \cup {call[p].ref}
  /\ call' = [call EXCEPT ![p] = [@ EXCEPT !.stage = "prompted"]]
  /\ UNCHANGED <<store, now, row, attempts, answers, effects>>

PromptEnds(p) ==
  /\ call[p].stage \in {"prompt", "prompted"}
  /\ \/ call[p].stage = "prompted" /\ UNCHANGED row
     \/ Failed(call[p].ref)
  /\ call' = [call EXCEPT ![p] = NoCall]
  /\ UNCHANGED <<store, now, prompted, attempts, answers, effects>>

-----------------------------------------------------------------------------
(* consume().                                                              *)

Answers == [actor : {"owner", "other"}, channel : {"sms", "telegram"},
            decision : {"approve", "reject", "maybe"}]

\* Mutant: who answers, and where, is not compared with the reference.
ReasonUnbound(r, a) ==
  CASE row[r].status # "pending"               -> "consumed"
    [] row[r].status = "pending" /\ row[r].expires <= now -> "expired"
    [] OTHER -> IF a.decision = "maybe" THEN "decision"
                ELSE IF a.decision = "approve" /\ row[r].stepUp THEN "step_up" ELSE "none"

\* Why an answer is denied: the checks in their order, "none" if it is not.
Reason(r, a) ==
  IF a.actor # "owner" \/ a.channel # "sms" THEN "binding"
  ELSE CASE row[r].status # "pending" -> "consumed"
         [] row[r].status = "pending" /\ row[r].expires <= now -> "expired"
         [] OTHER -> IF a.decision = "maybe" THEN "decision"
                     ELSE IF a.decision = "approve" /\ row[r].stepUp THEN "step_up" ELSE "none"

\* A denial is recorded by the memory store; in Postgres the exception undoes
\* the record, and the "expired" with it.
Deny(r, a) ==
  /\ Reason(r, a) # "none"
  /\ IF store = "memory"
     THEN /\ attempts' = [attempts EXCEPT ![r].denied = TRUE]
          /\ row' = IF Reason(r, a) = "expired" THEN [row EXCEPT ![r].status = "expired"] ELSE row
     ELSE UNCHANGED <<attempts, row>>
  /\ answers' = [answers EXCEPT ![r].denied = TRUE]

\* Accepted: the status and the attempt are committed together.
Consume(r, a) ==
  LET status == IF a.decision = "approve" THEN "approved" ELSE "rejected" IN
    /\ Reason(r, a) = "none"
    /\ row' = [row EXCEPT ![r].status = status]
    /\ attempts' = [attempts EXCEPT ![r].accepted = @ \cup {a}]
    /\ answers' = [answers EXCEPT ![r].accepted = @ \cup {a}]

\* twilio_callback() and respond(): the actor is the one the number belongs to.
Respond(r) ==
  /\ r \in prompted
  /\ \E a \in Answers : Deny(r, a) \/ Consume(r, a)
  /\ UNCHANGED <<store, now, call, prompted, effects>>

\* respond() goes on to the effect of an approved reference; one that raises
\* makes the reference failed.
Effect(r) ==
  /\ r \in Issued /\ row[r].status = "approved" /\ effects[r] = 0
  /\ effects' = [effects EXCEPT ![r] = @ + 1]
  /\ UNCHANGED row \/ Failed(r)
  /\ UNCHANGED <<store, now, call, prompted, attempts, answers>>

Tick ==
  /\ now < MaxTime /\ now' = now + 1
  /\ UNCHANGED <<store, row, call, prompted, attempts, answers, effects>>

Next ==
  \/ \E p \in Callers : CreateInMemory(p) \/ Count(p) \/ Create(p) \/ Prompt(p) \/ PromptEnds(p)
  \/ \E r \in Refs : Respond(r) \/ Effect(r)
  \/ Tick

Spec == Init /\ [][Next]_vars

-----------------------------------------------------------------------------
\* A reference is answered at most once, by its actor on its channel, never
\* by a channel's approval when it needs a step-up, and its effect follows an
\* approval only.
AnsweredOnce ==
  \A r \in Refs :
    /\ Cardinality(answers[r].accepted) <= 1
    /\ \A a \in answers[r].accepted :
         /\ a.actor = "owner" /\ a.channel = "sms"
         /\ a.decision = "approve" => ~row[r].stepUp
    /\ effects[r] > 0 => \E a \in answers[r].accepted : a.decision = "approve"

\* Every accepted answer is on record, and nothing is on record that was not
\* answered.
AttemptsTrue ==
  \A r \in Refs : /\ attempts[r].accepted = answers[r].accepted
                  /\ attempts[r].denied => answers[r].denied

\* One reference at a time waits for an answer to the same question.
OnePending ==
  \A a \in Actions, t \in Targets : Cardinality(Same(a, t) \ Stale(Same(a, t))) <= 1

\* The limit holds to the reference in memory; in Postgres calls that count
\* before either inserts go over it, by no more than one each.
LimitNearlyHeld ==
  \A t \in 0 .. now :
    Cardinality({r \in Issued : row[r].created \in t .. t + Hour - 1})
      <= IF store = "memory" THEN Limit ELSE Limit + Cardinality(Callers) - 1

ApprovalsSound == AnsweredOnce /\ AttemptsTrue /\ OnePending /\ LimitNearlyHeld

\* The store's docstring has append-only attempts (approvals.py:197): every
\* answer leaves one.
AttemptsComplete == \A r \in Refs : answers[r].denied => attempts[r].denied

-----------------------------------------------------------------------------
(* Theorem: ApprovalsSound for any references, callers, targets and limits. *)

Settled == {"approved", "rejected", "failed", "expired"}
References == [status : Settled \cup {"pending"}, action : Actions, target : Targets,
               stepUp : BOOLEAN, created : Nat, expires : Nat]
Logs == [accepted : SUBSET Answers, denied : BOOLEAN]
Counted == [stage : {"counted"}, action : Actions, target : Targets, recent : Nat]
Prompting == [stage : {"prompt", "prompted"}, ref : Refs]

ApprovalTypeOK ==
  /\ store \in {"memory", "postgres"}
  /\ now \in Nat
  /\ row \in [Refs -> {NoRow} \cup References]
  /\ \A r \in Issued : row[r].created <= now
  /\ call \in [Callers -> {NoCall} \cup Counted \cup Prompting]
  /\ \A p \in Callers : /\ call[p].stage = "counted" => store = "postgres"
                        /\ call[p].stage \in {"prompt", "prompted"} => call[p].ref \in Issued
  /\ attempts \in [Refs -> Logs]
  /\ answers \in [Refs -> Logs]
  /\ effects \in [Refs -> Nat]

\* What the answers of a reference say of it: none while it waits, then one of
\* its actor's, an approval only of one that needs no step-up.
AnswerOf(r, a) ==
  /\ answers[r].accepted = {a}
  /\ a.actor = "owner" /\ a.channel = "sms"
  /\ a.decision = "approve" => ~row[r].stepUp

AnswersInv ==
  \A r \in Refs :
    /\ answers[r].accepted # {} =>
         row[r].status \in Settled /\ \E a \in Answers : AnswerOf(r, a)
    /\ row[r].status = "approved" \/ effects[r] > 0 =>
         \E a \in answers[r].accepted : a.decision = "approve"

\* Two references that wait for an answer to the same question are one.
PendingInv ==
  \A q, r \in Refs :
    /\ row[q].status = "pending" /\ row[r].status = "pending"
    /\ row[q].action = row[r].action /\ row[q].target = row[r].target
    /\ row[q].expires > now /\ row[r].expires > now
    => q = r

\* References made in the hour up to t, and callers whose count lets them make
\* another one.
Within(t) == {r \in Issued : row[r].created > t - Hour /\ row[r].created <= t}
Armed == {p \in Callers : call[p].stage = "counted" /\ call[p].recent < Limit}
Most == IF store = "memory" THEN Limit ELSE Limit + Cardinality(Callers) - 1

\* No hour has more than the most, and in Postgres there is room for all that
\* callers may still make by what they counted.
LimitInv ==
  /\ IsFiniteSet(Issued)
  /\ \A t \in 0 .. now : Cardinality(Within(t)) <= Most
  /\ store = "postgres" => Cardinality(Within(now)) + Cardinality(Armed) <= Most

ApprovalInv == ApprovalTypeOK /\ AnswersInv /\ AttemptsTrue /\ PendingInv /\ LimitInv

\* A reference with another status is the same otherwise.
LEMMA Resettled ==
  ASSUME NEW x \in References, NEW s \in Settled, NEW y, y = [x EXCEPT !.status = s]
  PROVE  /\ y \in References /\ y.status = s /\ y.action = x.action /\ y.target = x.target
         /\ y.stepUp = x.stepUp /\ y.created = x.created /\ y.expires = x.expires
<1>1. /\ x = [status |-> x.status, action |-> x.action, target |-> x.target,
              stepUp |-> x.stepUp, created |-> x.created, expires |-> x.expires]
      /\ x.action \in Actions /\ x.target \in Targets /\ x.stepUp \in BOOLEAN
      /\ x.created \in Nat /\ x.expires \in Nat
  BY DEF References
<1>2. y = [status |-> s, action |-> x.action, target |-> x.target,
           stepUp |-> x.stepUp, created |-> x.created, expires |-> x.expires]
  BY <1>1
<1> QED  BY <1>1, <1>2 DEF References

\* What is known of a reference, with one more answer or a denied one.
LEMMA Logged ==
  ASSUME NEW x \in Logs, NEW y,
         \/ \E a \in Answers : y = [x EXCEPT !.accepted = @ \cup {a}]
         \/ y = [x EXCEPT !.denied = TRUE]
  PROVE  /\ y \in Logs
         /\ \A a : y = [x EXCEPT !.accepted = @ \cup {a}] =>
              y.accepted = x.accepted \cup {a} /\ y.denied = x.denied
         /\ y = [x EXCEPT !.denied = TRUE] => y.accepted = x.accepted /\ y.denied
<1>1. /\ x = [accepted |-> x.accepted, denied |-> x.denied]
      /\ x.accepted \in SUBSET Answers /\ x.denied \in BOOLEAN
  BY DEF Logs
<1>2. \A a : y = [x EXCEPT !.accepted = @ \cup {a}] =>
        y = [accepted |-> x.accepted \cup {a}, denied |-> x.denied]
  BY <1>1
<1>3. y = [x EXCEPT !.denied = TRUE] => y = [accepted |-> x.accepted, denied |-> TRUE]
  BY <1>1
<1> QED  BY <1>1, <1>2, <1>3 DEF Logs

\* A new reference waits, and is made now.
LEMMA FreshType ==
  ASSUME ApprovalAssumption, ApprovalTypeOK, NEW a \in Actions, NEW t \in Targets
  PROVE  /\ Fresh(a, t) \in References
         /\ Fresh(a, t).status = "pending" /\ Fresh(a, t).created = now
         /\ Fresh(a, t).action = a /\ Fresh(a, t).target = t
  BY DEF Fresh, References, ApprovalAssumption, ApprovalTypeOK

LEMMA ApprovalInit == ApprovalAssumption /\ Init => ApprovalInv
<1> SUFFICES ASSUME ApprovalAssumption, Init PROVE ApprovalInv
  OBVIOUS
<1>1. Issued = {}
  BY DEF Init, Issued, NoRow
<1>2. None \in Logs /\ None.accepted = {} /\ ~None.denied
  BY DEF None, Logs
<1>3. ApprovalTypeOK
  BY <1>1, <1>2 DEF Init, ApprovalTypeOK, NoCall
<1>4. AnswersInv /\ AttemptsTrue /\ PendingInv
  BY <1>2 DEF Init, AnswersInv, AttemptsTrue, PendingInv, NoRow
<1>5. \A t : Within(t) = {}
  BY <1>1 DEF Within
<1>6. Armed = {}
  BY DEF Init, Armed, NoCall
<1>7. Most \in Nat
  BY FS_CardinalityType DEF Most, ApprovalAssumption
<1>8. LimitInv
  BY <1>1, <1>5, <1>6, <1>7, FS_EmptySet DEF LimitInv
<1> QED  BY <1>3, <1>4, <1>8 DEF ApprovalInv

\* A step that at most settles references: what else is in their rows stays.
Settling ==
  /\ row' = [r \in Refs |-> row'[r]]
  /\ \A r \in Refs : \/ row'[r] = row[r]
                     \/ r \in Issued /\ \E s \in Settled : row'[r] = [row[r] EXCEPT !.status = s]

LEMMA SettlingKeeps ==
  ASSUME ApprovalTypeOK, Settling
  PROVE  /\ row' \in [Refs -> {NoRow} \cup References]
         /\ Issued' = Issued
         /\ \A r \in Refs : \/ row'[r] = row[r]
                            \/ r \in Issued /\ row'[r].status \in Settled
         /\ \A r \in Issued :
              /\ row'[r].created = row[r].created /\ row'[r].expires = row[r].expires
              /\ row'[r].action = row[r].action /\ row'[r].target = row[r].target
              /\ row'[r].stepUp = row[r].stepUp
<1>1. \A r \in Issued : row[r] \in References
  BY DEF ApprovalTypeOK, Issued, NoRow
<1>2. \A r \in Issued, s \in Settled : row'[r] = [row[r] EXCEPT !.status = s] =>
        /\ row'[r] \in References /\ row'[r].status = s
        /\ row'[r].created = row[r].created /\ row'[r].expires = row[r].expires
        /\ row'[r].action = row[r].action /\ row'[r].target = row[r].target
        /\ row'[r].stepUp = row[r].stepUp
  BY <1>1, Resettled
<1>3. \A r \in Refs : row'[r] \in {NoRow} \cup References
  BY <1>2 DEF Settling, ApprovalTypeOK
<1>4. row' \in [Refs -> {NoRow} \cup References]
  BY <1>3 DEF Settling
<1>5. Issued' = Issued
  BY <1>2 DEF Issued, Settling, Settled
<1>6. ASSUME NEW r \in Refs
      PROVE  row'[r] = row[r] \/ (r \in Issued /\ row'[r].status \in Settled)
  <2>1. CASE row'[r] = row[r]
    BY <2>1
  <2>2. ASSUME r \in Issued, NEW s \in Settled, row'[r] = [row[r] EXCEPT !.status = s]
        PROVE  row'[r].status \in Settled
    <3>1. row'[r].status = s
      BY <1>2, <2>2
    <3> QED  BY <3>1
  <2> QED  BY <2>1, <2>2 DEF Settling
<1>7. ASSUME NEW r \in Issued
      PROVE  /\ row'[r].created = row[r].created /\ row'[r].expires = row[r].expires
             /\ row'[r].action = row[r].action /\ row'[r].target = row[r].target
             /\ row'[r].stepUp = row[r].stepUp
  <2>1. CASE row'[r] = row[r]
    BY <2>1
  <2>2. CASE \E s \in Settled : row'[r] = [row[r] EXCEPT !.status = s]
    BY <1>2, <2>2
  <2> QED  BY <2>1, <2>2 DEF Settling, Issued
<1> QED  BY <1>4, <1>5, <1>6, <1>7

LEMMA PendingKept ==
  ASSUME ApprovalTypeOK, PendingInv, Settling, now' \in {now, now + 1}
  PROVE  PendingInv'
<1>1. \A r \in Refs : row'[r].status = "pending" => row'[r] = row[r]
  BY SettlingKeeps DEF Settled
<1>2. \A r \in Refs : row[r].status = "pending" /\ row[r].expires > now' => row[r].expires > now
  <2>1. \A r \in Refs : row[r].status = "pending" => row[r].expires \in Nat
    BY DEF ApprovalTypeOK, NoRow, References
  <2> QED  BY <2>1 DEF ApprovalTypeOK
<1> QED  BY <1>1, <1>2 DEF PendingInv

\* Answers, and effects of approved references, stay what they are.
LEMMA AnswersKept ==
  ASSUME ApprovalTypeOK, AnswersInv, Settling,
         \A r \in Refs : answers'[r].accepted = answers[r].accepted,
         \A r \in Refs : row'[r].status = "approved" => row[r].status = "approved",
         \A r \in Refs : effects'[r] > 0 => effects[r] > 0 \/ row[r].status = "approved"
  PROVE  AnswersInv'
<1> SUFFICES ASSUME NEW r \in Refs
             PROVE  /\ answers'[r].accepted # {} =>
                         row'[r].status \in Settled /\ \E a \in Answers : AnswerOf(r, a)'
                    /\ row'[r].status = "approved" \/ effects'[r] > 0 =>
                         \E a \in answers'[r].accepted : a.decision = "approve"
  BY DEF AnswersInv
<1>1. ASSUME answers[r].accepted # {}
      PROVE  row'[r].status \in Settled /\ \E a \in Answers : AnswerOf(r, a)'
  <2>1. row[r].status \in Settled
    BY <1>1 DEF AnswersInv
  <2>2. PICK a \in Answers : AnswerOf(r, a)
    BY <1>1 DEF AnswersInv
  <2>3. r \in Issued
    BY <2>1 DEF Issued, Settled
  <2>4. row'[r].status \in Settled /\ row'[r].stepUp = row[r].stepUp
    BY <2>1, <2>3, SettlingKeeps
  <2>5. AnswerOf(r, a)'
    BY <2>2, <2>4 DEF AnswerOf
  <2> QED  BY <2>4, <2>5
<1> QED  BY <1>1 DEF AnswersInv

\* No reference is made, and time passes: the windows are within what they were.
LEMMA LimitKept ==
  ASSUME ApprovalAssumption, ApprovalTypeOK, LimitInv, UNCHANGED store,
         Issued' = Issued, \A r \in Issued : row'[r].created = row[r].created,
         now' \in {now, now + 1}, Armed' \subseteq Armed
  PROVE  LimitInv'
<1>1. /\ now \in Nat /\ Hour \in Nat \ {0} /\ Most' = Most
      /\ \A r \in Issued : row[r].created \in Nat /\ row[r].created <= now
  <2>1. \A r \in Issued : row[r] \in References
    BY DEF ApprovalTypeOK, Issued, NoRow
  <2> QED  BY <2>1 DEF ApprovalTypeOK, ApprovalAssumption, Most, References
<1>2. \A t : Within(t)' = Within(t)
  BY DEF Within
<1>3. Within(now + 1) \subseteq Within(now)
  BY <1>1 DEF Within
<1>4. IsFiniteSet(Within(now)) /\ Cardinality(Within(now)) \in Nat
  <2>1. Within(now) \in SUBSET Issued
    BY DEF Within
  <2> QED  BY <2>1, FS_Subset, FS_CardinalityType DEF LimitInv
<1>5. Cardinality(Within(now + 1)) \in Nat /\ Cardinality(Within(now + 1)) <= Cardinality(Within(now))
  BY <1>3, <1>4, FS_Subset, FS_CardinalityType
<1>6. /\ Cardinality(Armed') <= Cardinality(Armed)
      /\ Cardinality(Armed') \in Nat /\ Cardinality(Armed) \in Nat
  <2>1. Armed \in SUBSET Callers
    BY DEF Armed
  <2>2. IsFiniteSet(Armed)
    BY <2>1, FS_Subset DEF ApprovalAssumption
  <2> QED  BY <2>2, FS_Subset, FS_CardinalityType
<1>7. Most \in Int
  BY FS_CardinalityType DEF Most, ApprovalAssumption
<1>8. \A t \in 0 .. now' : Cardinality(Within(t)') <= Most'
  <2> SUFFICES ASSUME NEW t \in 0 .. now' PROVE Cardinality(Within(t)) <= Most
    BY <1>1, <1>2
  <2>1. Cardinality(Within(now)) <= Most
    BY <1>1 DEF LimitInv
  <2>2. CASE t \in 0 .. now
    BY <2>2 DEF LimitInv
  <2>3. CASE t = now + 1
    BY <1>4, <1>5, <1>7, <2>1, <2>3
  <2> QED  BY <1>1, <2>2, <2>3
<1>9. Cardinality(Within(now)') \in Nat /\ Cardinality(Within(now)') <= Cardinality(Within(now))
  <2>1. Within(now)' = Within(now) \/ Within(now)' = Within(now + 1)
    BY DEF Within
  <2> QED  BY <1>4, <1>5, <2>1
<1>10. store' = "postgres" => Cardinality(Within(now)') + Cardinality(Armed') <= Most'
  BY <1>1, <1>4, <1>6, <1>7, <1>9 DEF LimitInv
<1> QED  BY <1>8, <1>10 DEF LimitInv

\* A reference is made: the only one that waits for an answer to its question,
\* by a caller whom the count let through.
LEMMA InsertKeeps ==
  ASSUME ApprovalAssumption, ApprovalInv, UNCHANGED <<store, now, attempts, answers, effects>>,
         NEW p \in Callers, NEW r \in Refs \ Issued, NEW a \in Actions, NEW t \in Targets,
         Insert(p, r, a, t), Same(a, t) \ Stale(Same(a, t)) = {},
         IF store = "memory" THEN call[p].stage = "idle" /\ Cardinality(Recent) < Limit
                             ELSE p \in Armed
  PROVE  ApprovalInv'
<1> USE DEF ApprovalInv
<1>1. /\ Fresh(a, t) \in References
      /\ Fresh(a, t).status = "pending" /\ Fresh(a, t).created = now
      /\ Fresh(a, t).action = a /\ Fresh(a, t).target = t
  BY FreshType
<1>2. /\ row' = [q \in Refs |-> row'[q]] /\ row'[r] = Fresh(a, t)
      /\ \A q \in Refs \ {r} :
           \/ row'[q] = row[q]
           \/ q \in Stale(Same(a, t)) /\ row'[q] = [row[q] EXCEPT !.status = "expired"]
  BY DEF Insert
<1>3. \A q \in Issued : row[q] \in References
  BY DEF ApprovalTypeOK, Issued, NoRow
<1>4. \A q \in Refs \ {r} :
        \/ row'[q] = row[q]
        \/ /\ q \in Issued /\ row[q].status = "pending" /\ row'[q].status = "expired"
           /\ row'[q] \in References /\ row'[q].created = row[q].created
  <2> SUFFICES ASSUME NEW q \in Refs \ {r}, row'[q] # row[q]
               PROVE  /\ q \in Issued /\ row[q].status = "pending" /\ row'[q].status = "expired"
                      /\ row'[q] \in References /\ row'[q].created = row[q].created
    OBVIOUS
  <2>1. q \in Same(a, t) /\ row'[q] = [row[q] EXCEPT !.status = "expired"]
    BY <1>2 DEF Stale
  <2>2. q \in Issued /\ row[q].status = "pending" /\ row[q] \in References
    BY <1>3, <2>1 DEF Same
  <2> QED  BY <2>1, <2>2, Resettled DEF Settled
<1>5. row' \in [Refs -> {NoRow} \cup References] /\ Issued' = Issued \cup {r}
  <2>1. \A q \in Refs : row'[q] \in {NoRow} \cup References
    BY <1>1, <1>2, <1>4 DEF ApprovalTypeOK
  <2>2. row' \in [Refs -> {NoRow} \cup References]
    BY <1>2, <2>1
  <2>3. Issued' = Issued \cup {r}
    BY <1>1, <1>2, <1>4 DEF Issued
  <2> QED  BY <2>2, <2>3
<1>6. /\ \A q \in Issued : row'[q].created = row[q].created /\ row[q].created \in Nat
      /\ row'[r].created = now /\ now \in Nat
      /\ \A q \in Issued : row[q].created <= now
  <2>1. \A q \in Issued : row[q].created \in Nat /\ row[q].created <= now
    BY <1>3 DEF ApprovalTypeOK, References
  <2>2. \A q \in Issued : q \in Refs \ {r}
    BY DEF Issued
  <2>3. \A q \in Issued : row'[q].created = row[q].created
    BY <1>4, <2>2
  <2> QED  BY <1>1, <1>2, <2>1, <2>3 DEF ApprovalTypeOK
<1>7. ApprovalTypeOK'
  <2>1. call' = [call EXCEPT ![p] = [stage |-> "prompt", ref |-> r]]
    BY DEF Insert
  <2>2. [stage |-> "prompt", ref |-> r] \in Prompting
    BY DEF Prompting
  <2>3. call' \in [Callers -> {NoCall} \cup Counted \cup Prompting]
    BY <2>1, <2>2 DEF ApprovalTypeOK
  <2>4. \A q \in Issued' : row'[q].created <= now'
    BY <1>5, <1>6
  <2>5. \A q \in Callers : /\ call'[q].stage = "counted" => store' = "postgres"
                           /\ call'[q].stage \in {"prompt", "prompted"} => call'[q].ref \in Issued'
    BY <1>5, <2>1 DEF ApprovalTypeOK
  <2> QED  BY <1>5, <2>3, <2>4, <2>5 DEF ApprovalTypeOK
<1>8. AnswersInv' /\ AttemptsTrue'
  <2>1. answers[r].accepted = {} /\ ~(effects[r] > 0) /\ row'[r].status = "pending"
    <3>1. row[r].status = "none"
      BY DEF Issued
    <3> QED  BY <1>1, <1>2, <3>1 DEF AnswersInv, Settled
  <2>2. \A q \in Refs \ {r} : answers[q].accepted # {} => row'[q] = row[q]
    BY <1>4 DEF AnswersInv, Settled
  <2>3. \A q \in Refs \ {r} : row'[q].status = "approved" => row[q].status = "approved"
    BY <1>4
  <2>4. \A q \in Refs, b \in Answers :
          answers[q].accepted # {} /\ AnswerOf(q, b) => AnswerOf(q, b)'
    BY <2>1, <2>2 DEF AnswerOf
  <2> QED  BY <2>1, <2>2, <2>3, <2>4 DEF AnswersInv, AttemptsTrue
<1>9. PendingInv'
  <2>1. \A q \in Refs \ {r} : row'[q].status = "pending" => row'[q] = row[q]
    BY <1>4
  <2>2. \A q \in Refs \ {r} :
          ~(/\ row'[q].status = "pending" /\ row'[q].action = a /\ row'[q].target = t
            /\ row'[q].expires > now)
    <3> SUFFICES ASSUME NEW q \in Refs \ {r}, row[q].status = "pending",
                        row[q].action = a, row[q].target = t, row[q].expires > now
                 PROVE  FALSE
      BY <2>1
    <3>1. q \in Same(a, t)
      BY DEF Same, Issued
    <3>2. row[q].expires \in Nat
      BY <1>3, <3>1 DEF Same, References
    <3>3. q \notin Stale(Same(a, t))
      BY <1>6, <3>2 DEF Stale
    <3> QED  BY <3>1, <3>3
  <2>3. row'[r].action = a /\ row'[r].target = t
    BY <1>1, <1>2
  <2> QED  BY <2>1, <2>2, <2>3 DEF PendingInv
<1>10. LimitInv'
  <2>1. Most' = Most /\ Most \in Int /\ Hour \in Nat \ {0} /\ Limit \in Nat
    BY FS_CardinalityType DEF Most, ApprovalAssumption
  <2>2. /\ \A n \in 0 .. now - 1 : Within(n)' = Within(n)
        /\ Within(now)' = Within(now) \cup {r} /\ r \notin Within(now)
    BY <1>5, <1>6, <2>1 DEF Within
  <2>3. Recent = Within(now)
    BY <1>6 DEF Recent, Within
  <2>4. IsFiniteSet(Issued') /\ IsFiniteSet(Within(now))
    <3>1. Within(now) \in SUBSET Issued
      BY DEF Within
    <3> QED  BY <1>5, <3>1, FS_AddElement, FS_Subset DEF LimitInv
  <2>5. /\ Cardinality(Within(now)) \in Nat
        /\ Cardinality(Within(now)') = Cardinality(Within(now)) + 1
    BY <2>2, <2>4, FS_AddElement, FS_CardinalityType
  <2>6. Armed' = Armed \ {p}
    BY DEF Insert, Armed, ApprovalTypeOK
  <2>7. IsFiniteSet(Armed) /\ Cardinality(Armed) \in Nat
    <3>1. Armed \in SUBSET Callers
      BY DEF Armed
    <3> QED  BY <3>1, FS_Subset, FS_CardinalityType DEF ApprovalAssumption
  <2>8. Cardinality(Within(now)') <= Most' =>
           \A n \in 0 .. now' : Cardinality(Within(n)') <= Most'
    <3> SUFFICES ASSUME Cardinality(Within(now)') <= Most', NEW n \in 0 .. now
                 PROVE  Cardinality(Within(n)') <= Most'
      BY <1>6
    <3>1. CASE n = now
      <4>1. Within(n)' = Within(now)'
        BY <3>1 DEF Within
      <4> QED  BY <4>1
    <3>2. CASE n \in 0 .. now - 1
      BY <2>1, <2>2, <3>2 DEF LimitInv
    <3> QED  BY <1>6, <3>1, <3>2
  <2>9. CASE store = "memory"
    <3>1. Cardinality(Within(now)') <= Most'
      BY <2>1, <2>3, <2>5, <2>9 DEF Most
    <3> QED  BY <2>4, <2>9, <2>8, <3>1 DEF LimitInv
  <2>10. CASE store # "memory"
    <3>1. p \in Armed /\ store = "postgres"
      BY <2>10 DEF ApprovalTypeOK
    <3>2. Cardinality(Armed') = Cardinality(Armed) - 1 /\ Cardinality(Armed') \in Nat
      BY <2>6, <2>7, <3>1, FS_RemoveElement, FS_CardinalityType
    <3>3. Cardinality(Within(now)') + Cardinality(Armed') <= Most'
      BY <2>1, <2>5, <2>7, <3>1, <3>2 DEF LimitInv
    <3>4. Cardinality(Within(now)') <= Most'
      BY <2>1, <2>5, <3>2, <3>3
    <3> QED  BY <2>4, <2>8, <3>3, <3>4 DEF LimitInv
  <2> QED  BY <2>9, <2>10
<1> QED  BY <1>7, <1>8, <1>9, <1>10

\* The steps after which the same references are there, settled or not.
LEMMA RestKept ==
  ASSUME ApprovalAssumption, ApprovalInv, Settling, UNCHANGED store, now' \in {now, now + 1},
         Armed' \subseteq Armed
  PROVE  /\ PendingInv' /\ LimitInv'
         /\ \A r \in Issued' : row'[r].created <= now'
         /\ row' \in [Refs -> {NoRow} \cup References]
         /\ Issued' = Issued
<1> USE DEF ApprovalInv
<1>1. \A r \in Issued : row[r].created \in Nat
  BY DEF ApprovalTypeOK, Issued, NoRow, References
<1>2. \A r \in Issued' : row'[r].created <= now'
  BY <1>1, SettlingKeeps DEF ApprovalTypeOK
<1> QED  BY <1>2, SettlingKeeps, PendingKept, LimitKept

\* mark_failed() settles a reference that was made.
LEMMA FailedSettles ==
  ASSUME ApprovalTypeOK, NEW r \in Issued, Failed(r)
  PROVE  /\ Settling
         /\ \A q \in Refs : row'[q].status = "approved" => row[q].status = "approved"
<1>1. row[r] \in References /\ r \in Refs
  BY DEF ApprovalTypeOK, Issued, NoRow
<1>2. PICK s \in Settled : /\ row' = [row EXCEPT ![r].status = s]
                           /\ s = "approved" => s = row[r].status
  <2>1. CASE store = "memory" \/ row[r].status \in {"pending", "approved"}
    <3>1. row' = [row EXCEPT ![r].status = "failed"]
      BY <2>1 DEF Failed
    <3> QED  BY <3>1 DEF Settled
  <2>2. CASE ~(store = "memory" \/ row[r].status \in {"pending", "approved"})
    <3>1. row' = [row EXCEPT ![r].status = row[r].status]
      BY <2>2 DEF Failed
    <3>2. row[r].status \in Settled
      BY <1>1, <2>2 DEF Settled, References
    <3> QED  BY <3>1, <3>2
  <2> QED  BY <2>1, <2>2
<1>3. row'[r] = [row[r] EXCEPT !.status = s] /\ \A q \in Refs \ {r} : row'[q] = row[q]
  BY <1>1, <1>2 DEF ApprovalTypeOK
<1>4. Settling
  BY <1>2, <1>3 DEF Settling, ApprovalTypeOK
<1>5. row'[r].status = s
  BY <1>1, <1>3, Resettled
<1> QED  BY <1>2, <1>3, <1>4, <1>5

\* A caller that goes on with what it made, or is done.
LEMMA CallOn ==
  ASSUME ApprovalInv, UNCHANGED store, NEW p \in Callers, Issued' = Issued,
         \/ call' = [call EXCEPT ![p] = NoCall]
         \/ /\ call[p].stage = "prompt"
            /\ call' = [call EXCEPT ![p] = [@ EXCEPT !.stage = "prompted"]]
  PROVE  /\ call' \in [Callers -> {NoCall} \cup Counted \cup Prompting]
         /\ \A q \in Callers : /\ call'[q].stage = "counted" => store' = "postgres"
                               /\ call'[q].stage \in {"prompt", "prompted"} => call'[q].ref \in Issued'
         /\ Armed' \subseteq Armed
<1> USE DEF ApprovalInv
<1>1. CASE call' = [call EXCEPT ![p] = NoCall]
  BY <1>1 DEF ApprovalTypeOK, NoCall, Armed
<1>2. CASE /\ call[p].stage = "prompt"
           /\ call' = [call EXCEPT ![p] = [@ EXCEPT !.stage = "prompted"]]
  <2>1. call[p] = [stage |-> "prompt", ref |-> call[p].ref] /\ call[p].ref \in Issued
    BY <1>2 DEF ApprovalTypeOK, NoCall, Counted, Prompting
  <2>2. call'[p] = [stage |-> "prompted", ref |-> call[p].ref]
    BY <1>2, <2>1 DEF ApprovalTypeOK
  <2>3. call'[p] \in Prompting
    BY <2>1, <2>2 DEF Prompting, Issued
  <2>4. \A q \in Callers \ {p} : call'[q] = call[q]
    BY <1>2 DEF ApprovalTypeOK
  <2>5. call' \in [Callers -> {NoCall} \cup Counted \cup Prompting]
    BY <1>2, <2>3, <2>4 DEF ApprovalTypeOK
  <2>6. Armed' \subseteq Armed
    BY <2>2, <2>4 DEF Armed
  <2> QED  BY <2>1, <2>2, <2>4, <2>5, <2>6 DEF ApprovalTypeOK
<1> QED  BY <1>1, <1>2

\* An answer: denied, it is on record or not; accepted, it is the first one,
\* of the actor, while the reference waits.
LEMMA RespondKeeps ==
  ASSUME ApprovalAssumption, ApprovalInv, NEW r \in Refs, Respond(r)
  PROVE  ApprovalInv'
<1> USE DEF ApprovalInv
<1>1. PICK a \in Answers : Deny(r, a) \/ Consume(r, a)
  BY DEF Respond
<1>2. UNCHANGED <<store, now, call, prompted, effects>>
  BY DEF Respond
<1>3. now' \in {now, now + 1} /\ Armed' \subseteq Armed
  BY <1>2 DEF Armed
<1>4. attempts[r] \in Logs /\ answers[r] \in Logs
  BY DEF ApprovalTypeOK
<1>5. ASSUME Settling, attempts' \in [Refs -> Logs], answers' \in [Refs -> Logs]
      PROVE  ApprovalTypeOK'
  BY <1>2, <1>3, <1>5, RestKept DEF ApprovalTypeOK
<1>6. CASE Deny(r, a)
  <2>1. Settling /\ \A q \in Refs : row'[q].status = "approved" => row[q].status = "approved"
    <3>1. CASE row' = row
      BY <3>1 DEF Settling, ApprovalTypeOK
    <3>2. CASE row' # row
      <4>1. row' = [row EXCEPT ![r].status = "expired"] /\ Reason(r, a) = "expired"
        BY <1>6, <3>2 DEF Deny
      <4>2. row[r].status = "pending"
        BY <4>1 DEF Reason
      <4>3. r \in Issued /\ row[r] \in References
        BY <4>2 DEF Issued, ApprovalTypeOK, NoRow
      <4>4. row'[r] = [row[r] EXCEPT !.status = "expired"] /\ \A q \in Refs \ {r} : row'[q] = row[q]
        BY <4>1 DEF ApprovalTypeOK
      <4>5. row'[r].status = "expired"
        BY <4>3, <4>4, Resettled DEF Settled
      <4> QED  BY <4>1, <4>3, <4>4, <4>5 DEF Settling, Settled, ApprovalTypeOK
    <3> QED  BY <3>1, <3>2
  <2>2. /\ answers'[r] \in Logs /\ answers'[r].accepted = answers[r].accepted /\ answers'[r].denied
        /\ answers' = [answers EXCEPT ![r] = answers'[r]]
    <3>1. answers'[r] = [answers[r] EXCEPT !.denied = TRUE] /\ answers' = [answers EXCEPT ![r] = answers'[r]]
      BY <1>6 DEF Deny, ApprovalTypeOK
    <3> QED  BY <1>4, <3>1, Logged
  <2>3. /\ attempts'[r] \in Logs /\ attempts'[r].accepted = attempts[r].accepted
        /\ attempts' = [attempts EXCEPT ![r] = attempts'[r]]
    <3>1. CASE attempts' = attempts
      BY <1>4, <3>1 DEF ApprovalTypeOK
    <3>2. CASE attempts' = [attempts EXCEPT ![r].denied = TRUE]
      <4>1. attempts'[r] = [attempts[r] EXCEPT !.denied = TRUE] /\ attempts' = [attempts EXCEPT ![r] = attempts'[r]]
        BY <3>2 DEF ApprovalTypeOK
      <4> QED  BY <1>4, <4>1, Logged
    <3> QED  BY <1>6, <3>1, <3>2 DEF Deny
  <2>4. ApprovalTypeOK'
    BY <1>5, <2>1, <2>2, <2>3 DEF ApprovalTypeOK
  <2>5. AttemptsTrue'
    BY <2>2, <2>3 DEF AttemptsTrue, ApprovalTypeOK
  <2>6. AnswersInv'
    BY <1>2, <2>1, <2>2, AnswersKept DEF ApprovalTypeOK
  <2> QED  BY <1>2, <1>3, <2>1, <2>4, <2>5, <2>6, RestKept
<1>7. CASE Consume(r, a)
  <2> DEFINE s == IF a.decision = "approve" THEN "approved" ELSE "rejected"
  <2>1. /\ row[r].status = "pending" /\ a.actor = "owner" /\ a.channel = "sms"
        /\ a.decision = "approve" => ~row[r].stepUp
    BY <1>7 DEF Consume, Reason
  <2>2. r \in Issued /\ row[r] \in References
    BY <2>1 DEF Issued, ApprovalTypeOK, NoRow
  <2>3. /\ row'[r] = [row[r] EXCEPT !.status = s] /\ \A q \in Refs \ {r} : row'[q] = row[q]
        /\ row' = [q \in Refs |-> row'[q]]
    BY <1>7 DEF Consume, ApprovalTypeOK
  <2>4. s \in Settled /\ (s = "approved" => a.decision = "approve")
    BY DEF Settled
  <2>5. Settling
    BY <2>2, <2>3, <2>4 DEF Settling
  <2>6. row'[r].status = s /\ row'[r].stepUp = row[r].stepUp
    BY <2>2, <2>3, <2>4, Resettled
  <2>7. /\ answers'[r] \in Logs /\ answers'[r].accepted = answers[r].accepted \cup {a}
        /\ answers'[r].denied = answers[r].denied
        /\ answers' = [answers EXCEPT ![r] = answers'[r]]
    <3>1. /\ answers'[r] = [answers[r] EXCEPT !.accepted = @ \cup {a}]
          /\ answers' = [answers EXCEPT ![r] = answers'[r]]
      BY <1>7 DEF Consume, ApprovalTypeOK
    <3> QED  BY <1>4, <3>1, Logged
  <2>8. /\ attempts'[r] \in Logs /\ attempts'[r].accepted = attempts[r].accepted \cup {a}
        /\ attempts'[r].denied = attempts[r].denied
        /\ attempts' = [attempts EXCEPT ![r] = attempts'[r]]
    <3>1. /\ attempts'[r] = [attempts[r] EXCEPT !.accepted = @ \cup {a}]
          /\ attempts' = [attempts EXCEPT ![r] = attempts'[r]]
      BY <1>7 DEF Consume, ApprovalTypeOK
    <3> QED  BY <1>4, <3>1, Logged
  <2>9. ApprovalTypeOK'
    BY <1>5, <2>5, <2>7, <2>8 DEF ApprovalTypeOK
  <2>10. AttemptsTrue'
    BY <2>7, <2>8 DEF AttemptsTrue, ApprovalTypeOK
  <2>11. answers[r].accepted = {} /\ ~(effects[r] > 0)
    BY <2>1 DEF AnswersInv, Settled
  <2>12. answers'[r].accepted = {a}
    BY <2>7, <2>11
  <2>13. AnswerOf(r, a)'
    BY <2>1, <2>6, <2>12 DEF AnswerOf
  <2> HIDE DEF s
  <2>14. ASSUME NEW q \in Refs
         PROVE  /\ answers'[q].accepted # {} =>
                     row'[q].status \in Settled /\ \E b \in Answers : AnswerOf(q, b)'
                /\ row'[q].status = "approved" \/ effects'[q] > 0 =>
                     \E b \in answers'[q].accepted : b.decision = "approve"
    <3>1. CASE q = r
      BY <1>2, <2>4, <2>6, <2>11, <2>12, <2>13, <3>1
    <3>2. CASE q # r
      <4>1. row'[q] = row[q] /\ answers'[q] = answers[q] /\ effects'[q] = effects[q]
        BY <1>2, <2>3, <2>7, <3>2 DEF ApprovalTypeOK
      <4>2. \A b : AnswerOf(q, b) => AnswerOf(q, b)'
        BY <4>1 DEF AnswerOf
      <4> QED  BY <4>1, <4>2 DEF AnswersInv
    <3> QED  BY <3>1, <3>2
  <2>15. AnswersInv'
    BY <2>14 DEF AnswersInv
  <2> QED  BY <1>2, <1>3, <2>5, <2>9, <2>10, <2>15, RestKept
<1> QED  BY <1>1, <1>6, <1>7

LEMMA ApprovalNext ==
  ASSUME ApprovalAssumption, ApprovalInv, [Next]_vars
  PROVE  ApprovalInv'
<1> USE DEF ApprovalInv
<1>1. ASSUME Settling, UNCHANGED <<store, attempts, answers>>,
             now' \in {now, now + 1}, Armed' \subseteq Armed,
             \A r \in Refs : row'[r].status = "approved" => row[r].status = "approved",
             effects' \in [Refs -> Nat],
             \A r \in Refs : effects'[r] > 0 => effects[r] > 0 \/ row[r].status = "approved",
             call' \in [Callers -> {NoCall} \cup Counted \cup Prompting],
             \A q \in Callers : /\ call'[q].stage = "counted" => store' = "postgres"
                                /\ call'[q].stage \in {"prompt", "prompted"} => call'[q].ref \in Issued
      PROVE  ApprovalInv'
  <2>1. PendingInv' /\ LimitInv' /\ Issued' = Issued
    BY <1>1, RestKept
  <2>2. ApprovalTypeOK'
    BY <1>1, <2>1, RestKept DEF ApprovalTypeOK
  <2>3. AnswersInv' /\ AttemptsTrue'
    BY <1>1, AnswersKept DEF AttemptsTrue
  <2> QED  BY <2>1, <2>2, <2>3
<1>2. UNCHANGED row => /\ Settling
                       /\ \A r \in Refs : row'[r].status = "approved" => row[r].status = "approved"
  BY DEF Settling, ApprovalTypeOK
<1>3. ASSUME NEW p \in Callers, CreateInMemory(p) PROVE ApprovalInv'
  <2>1. PICK a \in Actions, t \in Targets, r \in Refs \ Issued :
          Same(a, t) \ Stale(Same(a, t)) = {} /\ Insert(p, r, a, t)
    BY <1>3 DEF CreateInMemory
  <2> QED  BY <1>3, <2>1, InsertKeeps DEF CreateInMemory
<1>4. ASSUME NEW p \in Callers, Count(p) PROVE ApprovalInv'
  <2>1. PICK a \in Actions, t \in Targets :
          call' = [call EXCEPT ![p] = [stage |-> "counted", action |-> a, target |-> t,
                                       recent |-> Cardinality(Recent)]]
    BY <1>4 DEF Count
  <2>2. UNCHANGED <<store, now, row, attempts, answers, effects>> /\ store = "postgres"
    BY <1>4 DEF Count
  <2>3. /\ now \in Nat /\ Hour \in Nat /\ Limit \in Nat
        /\ \A r \in Issued : row[r].created <= now
    BY DEF ApprovalTypeOK, ApprovalAssumption
  <2>4. Recent = Within(now)
    BY <2>3 DEF Recent, Within
  <2>5. IsFiniteSet(Within(now)) /\ Cardinality(Within(now)) \in Nat
    <3>1. Within(now) \in SUBSET Issued
      BY DEF Within
    <3> QED  BY <3>1, FS_Subset, FS_CardinalityType DEF LimitInv
  <2>6. ApprovalTypeOK'
    <3>1. Issued' = Issued
      BY <2>2 DEF Issued
    <3>2. [stage |-> "counted", action |-> a, target |-> t, recent |-> Cardinality(Recent)] \in Counted
      BY <2>4, <2>5 DEF Counted
    <3> QED  BY <2>1, <2>2, <3>1, <3>2 DEF ApprovalTypeOK
  <2>7. AnswersInv' /\ AttemptsTrue' /\ PendingInv'
    BY <2>2 DEF AnswersInv, AnswerOf, AttemptsTrue, PendingInv
  <2>8. /\ Issued' = Issued /\ Most' = Most /\ \A t1 : Within(t1)' = Within(t1)
        /\ Within(now)' = Within(now)
    BY <2>2 DEF Issued, Most, Within
  <2>9. Armed' = IF Cardinality(Within(now)) < Limit THEN Armed \cup {p} ELSE Armed \ {p}
    BY <2>1, <2>4 DEF Armed, ApprovalTypeOK
  <2>10. /\ Armed \in SUBSET Callers /\ Armed' \in SUBSET Callers
         /\ IsFiniteSet(Callers)
    BY DEF Armed, ApprovalAssumption
  <2>11. /\ Cardinality(Armed) \in Nat /\ Cardinality(Armed') \in Nat /\ Cardinality(Callers) \in Nat
         /\ Cardinality(Armed') <= Cardinality(Callers) /\ IsFiniteSet(Armed)
    BY <2>10, FS_Subset, FS_CardinalityType
  <2>12. Cardinality(Within(now)) + Cardinality(Armed') <= Most
    <3>1. CASE Cardinality(Within(now)) < Limit
      BY <2>2, <2>3, <2>5, <2>11, <3>1 DEF Most
    <3>2. CASE ~(Cardinality(Within(now)) < Limit)
      <4>1. Armed' \in SUBSET Armed
        BY <2>9, <3>2
      <4>2. Cardinality(Armed') <= Cardinality(Armed)
        BY <2>11, <4>1, FS_Subset
      <4> QED  BY <2>2, <2>3, <2>5, <2>11, <4>2 DEF LimitInv, Most
    <3> QED  BY <3>1, <3>2
  <2>13. LimitInv'
    BY <2>2, <2>8, <2>12 DEF LimitInv
  <2> QED  BY <2>6, <2>7, <2>13
<1>5. ASSUME NEW p \in Callers, Create(p) PROVE ApprovalInv'
  <2>1. /\ call[p].stage = "counted" /\ call[p].action \in Actions /\ call[p].target \in Targets
        /\ call[p].recent \in Nat /\ store = "postgres" /\ Limit \in Nat
    BY <1>5 DEF Create, ApprovalTypeOK, ApprovalAssumption, NoCall,
       Counted, Prompting
  <2>2. CASE \/ call[p].recent >= Limit
             \/ Same(call[p].action, call[p].target)
                  \ Stale(Same(call[p].action, call[p].target)) # {}
    <3>1. /\ call' = [call EXCEPT ![p] = NoCall]
          /\ UNCHANGED <<row, store, now, attempts, answers, effects>>
      BY <1>5, <2>2 DEF Create
    <3>2. Issued' = Issued
      BY <3>1 DEF Issued
    <3> QED  BY <1>1, <1>2, <3>1, <3>2, CallOn DEF ApprovalTypeOK
  <2>3. CASE ~ \/ call[p].recent >= Limit
               \/ Same(call[p].action, call[p].target)
                    \ Stale(Same(call[p].action, call[p].target)) # {}
    <3>1. PICK r \in Refs \ Issued : Insert(p, r, call[p].action, call[p].target)
      BY <1>5, <2>3 DEF Create
    <3>2. p \in Armed
      BY <2>1, <2>3 DEF Armed
    <3> QED  BY <1>5, <2>1, <2>3, <3>1, <3>2, InsertKeeps DEF Create
  <2> QED  BY <2>2, <2>3
<1>6. ASSUME NEW p \in Callers, Prompt(p) PROVE ApprovalInv'
  <2>1. UNCHANGED <<store, now, row, attempts, answers, effects>> /\ Issued' = Issued
    BY <1>6 DEF Prompt, Issued
  <2> QED  BY <1>1, <1>2, <1>6, <2>1, CallOn DEF Prompt, ApprovalTypeOK
<1>7. ASSUME NEW p \in Callers, PromptEnds(p) PROVE ApprovalInv'
  <2>1. /\ UNCHANGED <<store, now, attempts, answers, effects>>
        /\ call' = [call EXCEPT ![p] = NoCall] /\ call[p].ref \in Issued
    BY <1>7 DEF PromptEnds, ApprovalTypeOK
  <2>2. Settling /\ \A r \in Refs : row'[r].status = "approved" => row[r].status = "approved"
    BY <1>2, <1>7, <2>1, FailedSettles DEF PromptEnds
  <2>3. Issued' = Issued
    BY <2>2, SettlingKeeps
  <2> QED  BY <1>1, <2>1, <2>2, <2>3, CallOn DEF ApprovalTypeOK
<1>8. ASSUME NEW r \in Refs, Respond(r) PROVE ApprovalInv'
  BY <1>8, RespondKeeps
<1>9. ASSUME NEW r \in Refs, Effect(r) PROVE ApprovalInv'
  <2>1. /\ r \in Issued /\ row[r].status = "approved" /\ effects' = [effects EXCEPT ![r] = @ + 1]
        /\ UNCHANGED <<store, now, call, prompted, attempts, answers>>
    BY <1>9 DEF Effect
  <2>2. Settling /\ \A q \in Refs : row'[q].status = "approved" => row[q].status = "approved"
    BY <1>2, <1>9, <2>1, FailedSettles DEF Effect
  <2>3. /\ effects' \in [Refs -> Nat]
        /\ \A q \in Refs : effects'[q] > 0 => effects[q] > 0 \/ row[q].status = "approved"
    BY <2>1 DEF ApprovalTypeOK
  <2>4. Armed' \subseteq Armed
    BY <2>1 DEF Armed
  <2> QED  BY <1>1, <2>1, <2>2, <2>3, <2>4 DEF ApprovalTypeOK
<1>10. CASE Tick
  <2>1. now' = now + 1 /\ UNCHANGED <<store, row, call, prompted, attempts, answers, effects>>
    BY <1>10 DEF Tick
  <2>2. Armed' \subseteq Armed
    BY <2>1 DEF Armed
  <2> QED  BY <1>1, <1>2, <2>1, <2>2 DEF ApprovalTypeOK
<1>11. CASE UNCHANGED vars
  <2>1. UNCHANGED <<store, now, row, call, prompted, attempts, answers, effects>>
    BY <1>11 DEF vars
  <2>2. Armed' \subseteq Armed
    BY <2>1 DEF Armed
  <2> QED  BY <1>1, <1>2, <2>1, <2>2 DEF ApprovalTypeOK
<1> QED  BY <1>3, <1>4, <1>5, <1>6, <1>7, <1>8, <1>9, <1>10, <1>11 DEF Next

LEMMA ApprovalHolds ==
  ASSUME ApprovalAssumption, ApprovalInv
  PROVE  ApprovalsSound
<1> USE DEF ApprovalInv
<1>1. AnsweredOnce
  <2> SUFFICES ASSUME NEW r \in Refs
               PROVE  /\ Cardinality(answers[r].accepted) <= 1
                      /\ \A a \in answers[r].accepted :
                           /\ a.actor = "owner" /\ a.channel = "sms"
                           /\ a.decision = "approve" => ~row[r].stepUp
                      /\ effects[r] > 0 => \E a \in answers[r].accepted : a.decision = "approve"
    BY DEF AnsweredOnce
  <2>1. CASE answers[r].accepted = {}
    <3>1. Cardinality(answers[r].accepted) = 0
      BY <2>1, FS_EmptySet
    <3> QED  BY <2>1, <3>1 DEF AnswersInv
  <2>2. CASE answers[r].accepted # {}
    <3>1. PICK a \in Answers : AnswerOf(r, a)
      BY <2>2 DEF AnswersInv
    <3>2. Cardinality({a}) = 1
      BY FS_Singleton
    <3>3. effects[r] > 0 => \E b \in answers[r].accepted : b.decision = "approve"
      BY DEF AnswersInv
    <3> QED  BY <3>1, <3>2, <3>3 DEF AnswerOf
  <2> QED  BY <2>1, <2>2
<1>2. OnePending
  <2> SUFFICES ASSUME NEW a \in Actions, NEW t \in Targets
               PROVE  Cardinality(Same(a, t) \ Stale(Same(a, t))) <= 1
    BY DEF OnePending
  <2>1. \A q \in Issued : row[q].expires \in Nat /\ now \in Nat
    BY DEF ApprovalTypeOK, Issued, NoRow, References
  <2>2. \A q, r \in Same(a, t) \ Stale(Same(a, t)) : q = r
    BY <2>1 DEF PendingInv, Same, Stale, Issued
  <2>3. CASE Same(a, t) \ Stale(Same(a, t)) = {}
    BY <2>3, FS_EmptySet
  <2>4. CASE Same(a, t) \ Stale(Same(a, t)) # {}
    <3>1. PICK r \in Same(a, t) \ Stale(Same(a, t)) : TRUE
      BY <2>4
    <3>2. Same(a, t) \ Stale(Same(a, t)) = {r}
      BY <2>2, <3>1
    <3>3. Cardinality({r}) = 1
      BY FS_Singleton
    <3> QED  BY <3>2, <3>3
  <2> QED  BY <2>3, <2>4
<1>3. LimitNearlyHeld
  <2> SUFFICES ASSUME NEW t \in 0 .. now
               PROVE  Cardinality({r \in Issued : row[r].created \in t .. t + Hour - 1}) <= Most
    BY DEF LimitNearlyHeld, Most
  <2> DEFINE W == {r \in Issued : row[r].created \in t .. t + Hour - 1}
  <2>1. /\ now \in Nat /\ Hour \in Nat \ {0} /\ Most \in Int
        /\ \A r \in Issued : row[r].created \in Nat /\ row[r].created <= now
    <3>1. \A r \in Issued : row[r] \in References
      BY DEF ApprovalTypeOK, Issued, NoRow
    <3> QED  BY <3>1, FS_CardinalityType DEF ApprovalTypeOK,
                ApprovalAssumption, Most, References
  <2>2. \E n \in 0 .. now : W \subseteq Within(n)
    <3>1. CASE t + Hour - 1 <= now
      <4>1. t + Hour - 1 \in 0 .. now /\ W \subseteq Within(t + Hour - 1)
        BY <2>1, <3>1 DEF Within
      <4> QED  BY <4>1
    <3>2. CASE t + Hour - 1 > now
      <4>1. now \in 0 .. now /\ W \subseteq Within(now)
        BY <2>1, <3>2 DEF Within
      <4> QED  BY <4>1
    <3> QED  BY <2>1, <3>1, <3>2
  <2>3. PICK n \in 0 .. now : W \subseteq Within(n)
    BY <2>2
  <2> HIDE DEF W
  <2>4. IsFiniteSet(Within(n))
    <3>1. Within(n) \in SUBSET Issued
      BY DEF Within
    <3> QED  BY <3>1, FS_Subset DEF LimitInv
  <2>5. Cardinality(W) <= Cardinality(Within(n)) /\ Cardinality(W) \in Nat
        /\ Cardinality(Within(n)) \in Nat
    BY <2>3, <2>4, FS_Subset, FS_CardinalityType
  <2>6. Cardinality(W) <= Most
    BY <2>1, <2>5 DEF LimitInv
  <2> QED  BY <2>6 DEF W
<1> QED  BY <1>1, <1>2, <1>3 DEF ApprovalsSound

\* ApprovalsSound (approvals.py of the alerts service): a reference is answered
\* once and every accepted answer is on record, one reference at a time waits for
\* the same question, and the hourly limit is held up to the callers that count
\* at once in Postgres.
THEOREM ApprovalsAreSound == ApprovalAssumption => (Spec => []ApprovalsSound)
<1> SUFFICES ASSUME ApprovalAssumption PROVE Spec => []ApprovalsSound
  OBVIOUS
<1>1. Init => ApprovalInv
  BY ApprovalInit
<1>2. ApprovalInv /\ [Next]_vars => ApprovalInv'
  BY ApprovalNext
<1>3. ApprovalInv => ApprovalsSound
  BY ApprovalHolds
<1> QED  BY <1>1, <1>2, <1>3, PTL DEF Spec
=============================================================================
