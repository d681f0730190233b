-------------------------- MODULE AuthorityStores --------------------------
(***************************************************************************)
(* The stores of crates/aether-authz - grants, caps versions, step-up      *)
(* challenges, a session record and its lockout - under the callers the    *)
(* crate allows, and what evaluate() makes of them.  The stores share      *)
(* nothing but the clock, so a behaviour works on one of them.             *)
(***************************************************************************)
EXTENDS Authorization, Sequences

CONSTANTS Users, Holder,      \* users, and the one the grant is of
          ChallengeActions,   \* actions a step-up is asked for
          Amounts,            \* amounts the caps are drafted with
          StepUpValidity, IdleExpiry, MaxLockout,
          MaxTime, MaxVersions, MaxChallenges, MaxFailures

VARIABLES store, now, grant, versions, active, challenges, lockout, session

vars == <<store, now, grant, versions, active, challenges, lockout, session>>

Limits == [perOrder : Amounts, daily : Amounts]

Init ==
  /\ store \in {"grants", "caps", "challenges", "session"}
  /\ now = 1
  /\ \E kind \in Kinds, tier \in Tiers, restricted \in BOOLEAN :
       /\ store # "grants" => kind = "human" /\ tier = 3 /\ ~restricted
       /\ grant = Grant(Holder, kind, tier, {"SubmitLiveOrder"}, restricted, 3)
  /\ versions = << >> /\ active = 0
  /\ challenges = << >>
  /\ lockout = [failed |-> 0, until |-> 0]
  /\ session = [expires |-> MaxTime, lastSeen |-> 1, revoked |-> FALSE]

Tick ==
  /\ now < MaxTime /\ now' = now + 1
  /\ UNCHANGED <<store, grant, versions, active, challenges, lockout, session>>

\* GrantStore::revoke.
Revoke ==
  /\ store = "grants"
  /\ grant' = [grant EXCEPT !.revoked = TRUE]
  /\ UNCHANGED <<store, now, versions, active, challenges, lockout, session>>

-----------------------------------------------------------------------------
(* Caps versions.                                                          *)

Draft ==
  /\ store = "caps"
  /\ Len(versions) < MaxVersions
  /\ \E l \in Limits : versions' = Append(versions, [limits |-> l, state |-> "draft"])
  /\ UNCHANGED <<store, now, grant, active, challenges, lockout, session>>

\* activate(): a human with a step-up makes a draft the active version.
Activate(v, kind, stepUp) ==
  /\ kind = "human" /\ stepUp /\ versions[v].state = "draft"
  /\ versions' = [k \in DOMAIN versions |->
                    IF k = v THEN [versions[k] EXCEPT !.state = "active"]
                    ELSE IF k = active THEN [versions[k] EXCEPT !.state = "superseded"]
                    ELSE versions[k]]
  /\ active' = v
  /\ UNCHANGED <<store, now, grant, challenges, lockout, session>>

Lesser(a, b) == IF a <= b THEN a ELSE b

\* Mutant: the limits of the version with the lower order limit.
LowerOfWhole(l, m) == IF l.perOrder <= m.perOrder THEN l ELSE m

LowerOf(l, m) ==
  [perOrder |-> Lesser(l.perOrder, m.perOrder), daily |-> Lesser(l.daily, m.daily)]

\* execution_limits(): of the intent's version and the active one.
ExecutionLimits(v) == LowerOf(versions[v].limits, versions[active].limits)

-----------------------------------------------------------------------------
(* Step-up challenges, with their uses for the property.                   *)

Issue(user, action) ==
  /\ store = "challenges" /\ Len(challenges) < MaxChallenges
  /\ challenges' = Append(challenges,
       [user |-> user, action |-> action, expires |-> now + StepUpValidity,
        consumed |-> FALSE, uses |-> << >>])
  /\ UNCHANGED <<store, now, grant, versions, active, lockout, session>>

Used(c, user, action) ==
  [c EXCEPT !.consumed = TRUE,
            !.uses = Append(@, [user |-> user, action |-> action, at |-> now])]

\* consume(): a wrong code leaves the challenge to be tried again.
Consume(k, user, action, codeOk) ==
  /\ LET c == challenges[k] IN
       /\ c.user = user /\ c.action = action /\ ~c.consumed
       /\ now < c.expires /\ codeOk
  /\ challenges' = [challenges EXCEPT ![k] = Used(@, user, action)]
  /\ UNCHANGED <<store, now, grant, versions, active, lockout, session>>

-----------------------------------------------------------------------------
(* The session record and the lockout of its account.                      *)

\* validate_and_touch(): a token that does not match changes nothing.
Touch ==
  /\ store = "session"
  /\ ~session.revoked /\ now < session.expires /\ now - session.lastSeen < IdleExpiry
  /\ session' = [session EXCEPT !.lastSeen = now]
  /\ UNCHANGED <<store, now, grant, versions, active, challenges, lockout>>

RevokeSession ==
  /\ store = "session"
  /\ session' = [session EXCEPT !.revoked = TRUE]
  /\ UNCHANGED <<store, now, grant, versions, active, challenges, lockout>>

\* record_failure(): the delay doubles up to its limit.
LoginFails ==
  /\ store = "session" /\ lockout.failed < MaxFailures
  /\ LET failed == lockout.failed + 1
         delay  == Lesser(2 ^ Lesser(failed - 1, 20), MaxLockout)
     IN  lockout' = [failed |-> failed, until |-> now + delay]
  /\ UNCHANGED <<store, now, grant, versions, active, challenges, session>>

LoginSucceeds ==
  /\ store = "session"
  /\ lockout' = [failed |-> 0, until |-> 0]
  /\ UNCHANGED <<store, now, grant, versions, active, challenges, session>>

\* verify_totp(): the code of the step of the clock and of the steps around it.
VerifyTotp(codeStep, step) == codeStep \in {Lesser(step, step - 1), step, step + 1}

Next ==
  \/ Tick \/ Revoke \/ Draft \/ Touch \/ RevokeSession \/ LoginFails \/ LoginSucceeds
  \/ \E v \in DOMAIN versions, kind \in Kinds, stepUp \in BOOLEAN : Activate(v, kind, stepUp)
  \/ \E user \in Users, action \in ChallengeActions : Issue(user, action)
  \/ \E k \in DOMAIN challenges, user \in Users, action \in ChallengeActions,
        step \in 0 .. MaxTime : Consume(k, user, action, VerifyTotp(step, now))

Spec == Init /\ [][Next]_vars

-----------------------------------------------------------------------------
Contexts ==
  [now : {now}, sessionTier : 0 .. 5, confirmed : BOOLEAN, stepUp : BOOLEAN,
   historyDays : {0, 30}, aboveThreshold : BOOLEAN, freshApproval : {FALSE}]

\* Whatever tier a grant holds, what evaluate() allows is its holder's, never a
\* hard-denied action, never on a revoked or expired grant, never above the
\* human's own session, never a live order of the first 30 days without a
\* step-up, and never a bounded autopilot's live order without a confirmation.
PolicySound ==
  store = "grants" =>
  \A user \in Users, action \in Actions, ctx \in Contexts :
    Evaluate(user, grant.kind, grant, action, ctx) = "Allow" =>
      /\ user = Holder /\ action \notin HardDenied /\ ~grant.revoked /\ now < grant.expiry
      /\ grant.kind = "human" => ctx.sessionTier >= MinimumTier(action)
      /\ action = "SubmitLiveOrder" /\ ctx.historyDays < 30 => ctx.stepUp
      /\ action = "SubmitLiveOrder" /\ grant.kind # "human" /\ grant.tier = 4 => ctx.confirmed

\* An intent's own snapshot of the caps can tighten the active ones and never
\* loosen them: whichever versions were drafted and activated in between, what
\* it executes under is within both, in each limit; one version is active.
CapsOnlyTighten ==
  active # 0 =>
    /\ {v \in DOMAIN versions : versions[v].state = "active"} = {active}
    /\ \A v \in DOMAIN versions : \A l \in {versions[v].limits, versions[active].limits} :
         /\ ExecutionLimits(v).perOrder <= l.perOrder
         /\ ExecutionLimits(v).daily <= l.daily

\* A challenge is used at most once, for the action and by the user it was
\* issued to, before it goes stale.
ChallengesUsedOnce ==
  \A k \in DOMAIN challenges : LET c == challenges[k] IN
    /\ Len(c.uses) <= 1
    /\ \A j \in DOMAIN c.uses : /\ c.uses[j].user = c.user /\ c.uses[j].action = c.action
                                /\ c.uses[j].at < c.expires

-----------------------------------------------------------------------------
\* What the theorems of ComponentProofs assume of the constants.
StoresAssumption ==
  /\ Amounts \subseteq Nat
  /\ StepUpValidity \in Nat
=============================================================================
