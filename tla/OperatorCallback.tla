-------------------------- MODULE OperatorCallback --------------------------
(***************************************************************************)
(* An operator presses a button of an alert in a channel.  The alerts      *)
(* service (server/alerts: webhooks, identity, actions, dispatch, effects) *)
(* verifies the webhook, judges by a grant and calls the action service    *)
(* (server/actions), which looks for the grant itself.  The caller waits   *)
(* for a while only; the action service goes on without it.                *)
(***************************************************************************)
EXTENDS Naturals, FiniteSets, FiniteSetsExt

CONSTANTS Presses,     \* webhooks; a channel may send one again
          Grants,      \* rows of permission_grants of the operator
          Tiers,       \* the tiers they may have
          MaxChanges   \* bound on changes of the grants

\* The tiers of aether-authz.
CallbackAssumption == Tiers \subseteq 1 .. 5

VARIABLES grants, state, press, changes

vars == <<grants, state, press, changes>>

Actions == {"simulate", "execute", "ignore"}
NewPress == [stage |-> "new", action |-> "none", status |-> "none", ends |-> "none", held |-> 0]

TierOf(rows) == IF rows = {} THEN 0 ELSE Max({grants[g].tier : g \in rows})
Listed == {g \in Grants : grants[g].tier > 0 /\ ~grants[g].expired}

\* Mutant: the action service trusts what the channel's look-up finds.
CurrentListed == Listed

\* ActionService._grant(): neither revoked nor expired, the highest tier first.
Current == {g \in Listed : ~grants[g].revoked}

\* The scopes of the row that the order picks: any of the highest tier.
Picks == {g \in Current : grants[g].tier = TierOf(Current)}

Init ==
  /\ grants \in [Grants -> [tier : Tiers \cup {0}, revoked : {FALSE}, expired : {FALSE}, scoped : {TRUE}]]
  /\ state = "surfaced" /\ changes = 0
  /\ press = [p \in Presses |-> NewPress]

Is(p, stage) == press[p].stage = stage

\* The highest tier that was current while a press was under way.
Held(rows) ==
  LET tiers == {rows[g].tier : g \in {h \in Grants : ~rows[h].revoked /\ ~rows[h].expired}}
  IN IF tiers = {} THEN 0 ELSE Max(tiers)

GrantChanges(g) ==
  /\ changes < MaxChanges /\ changes' = changes + 1
  /\ \E t \in Tiers, r, x, s \in BOOLEAN :
       grants' = [grants EXCEPT ![g] = [tier |-> t, revoked |-> r, expired |-> x, scoped |-> s]]
  /\ press' = [p \in Presses |-> [press[p] EXCEPT !.held = Max({@, Held(grants')})]]
  /\ UNCHANGED state

\* The scanner's sweep, or a fresh chain, as far as the row's state shows it.
OthersChange ==
  /\ \/ state = "surfaced" /\ state' = "expired"
     \/ state = "expired" /\ state' = "surfaced"
  /\ UNCHANGED <<grants, press, changes>>

-----------------------------------------------------------------------------
(* The alerts service.                                                     *)

\* TIER_PERMISSIONS.
Allowed(tier) ==
  CASE tier = 1 -> {"ignore"}
    [] tier = 2 -> {"simulate", "ignore"}
    [] tier \in 3 .. 5 -> Actions
    [] OTHER -> {}

\* handle_action(): below tier 5 an execution has to be confirmed elsewhere.
HandleAction(action, tier) ==
  CASE action \notin Allowed(tier) -> "permission_denied"
    [] action \in Allowed(tier) /\ action = "execute" /\ tier < 5 -> "requires_confirm"
    [] OTHER -> "authorized"

\* telegram_callback(), slack_callback(), discord_callback(): a signature that
\* does not verify, an old timestamp and a malformed payload have no effect.
\* resolve_channel_actor() takes the highest unexpired grant, a revoked one too.
Webhook(p) ==
  /\ Is(p, "new")
  /\ \E action \in Actions \cup {"malformed"}, verified \in BOOLEAN :
       LET answer == CASE ~verified -> "unauthorized"
                       [] verified /\ Listed = {} -> "forbidden"
                       [] verified /\ Listed # {} /\ action = "malformed" -> "bad_request"
                       [] OTHER -> HandleAction(action, TierOf(Listed))
       IN press' = [press EXCEPT ![p] =
            [@ EXCEPT !.stage = IF answer = "authorized" THEN "call" ELSE "answered",
                      !.action = action, !.status = answer, !.held = Held(grants)]]
  /\ UNCHANGED <<grants, state, changes>>

\* process_action_callback() without an adapter, or a call that does not arrive.
NoService(p) ==
  /\ Is(p, "call")
  /\ press' = [press EXCEPT ![p] = [@ EXCEPT !.stage = "answered", !.status = "failed_precondition"]]
  /\ UNCHANGED <<grants, state, changes>>

\* _invoke(): what is not "completed" in time is a failure to the operator.
Answer(p) ==
  /\ press[p].status = "authorized" /\ press[p].stage \notin {"new", "call"}
  /\ \/ press[p].ends = "completed" /\ press' = [press EXCEPT ![p].status = "completed"]
     \/ press' = [press EXCEPT ![p].status = "failed_precondition"]
  /\ UNCHANGED <<grants, state, changes>>

-----------------------------------------------------------------------------
(* The action service.                                                     *)

MinimumTier(action) == CASE action = "ignore" -> 1 [] action = "simulate" -> 2 [] OTHER -> 3

\* _grant(), and tiers 3 and 4 need an approval, which a channel does not send.
Permits(action) ==
  /\ TierOf(Current) >= MinimumTier(action)
  /\ \E g \in Picks : grants[g].scoped
  /\ action = "execute" => TierOf(Current) >= 5

Ends(p, how) == press' = [press EXCEPT ![p] = [@ EXCEPT !.stage = "over", !.ends = how]]
Reaches(p, stage) == press' = [press EXCEPT ![p].stage = stage]

\* The grant is read first.
ServiceGrant(p) ==
  /\ Is(p, "call")
  /\ IF Permits(press[p].action) THEN Reaches(p, "permitted") ELSE Ends(p, "rejected")
  /\ UNCHANGED <<grants, state, changes>>

Simulate(p) ==
  /\ Is(p, "permitted") /\ press[p].action = "simulate"
  /\ \E how \in {"completed", "rejected"} : Ends(p, how)
  /\ UNCHANGED <<grants, state, changes>>

\* ignore(): under the row's lock; one that was ignored is ignored again.
Ignore(p) ==
  /\ Is(p, "permitted") /\ press[p].action = "ignore"
  /\ UNCHANGED <<grants, changes>>
  /\ IF state = "surfaced" THEN state' = "ignored" ELSE UNCHANGED state
  /\ Ends(p, IF state \in {"surfaced", "ignored"} THEN "completed" ELSE "rejected")

\* execute_paper(): under the row's lock.
Accept(p) ==
  /\ Is(p, "permitted") /\ press[p].action = "execute"
  /\ UNCHANGED <<grants, changes>>
  /\ IF state \in {"surfaced", "accepted", "executed"}
     THEN Reaches(p, "accepted") /\ state' = (IF state = "surfaced" THEN "accepted" ELSE state)
     ELSE Ends(p, "rejected") /\ UNCHANGED state

\* The legs, each of which may fail, and the row again.
Execute(p) ==
  /\ Is(p, "accepted")
  /\ UNCHANGED <<grants, changes>>
  /\ \/ Ends(p, "rejected") /\ UNCHANGED state
     \/ /\ state' = IF state = "accepted" THEN "executed" ELSE state
        /\ Ends(p, IF state \in {"accepted", "executed"} THEN "completed" ELSE "rejected")

Next ==
  \/ \E g \in Grants : GrantChanges(g)
  \/ OthersChange
  \/ \E p \in Presses :
       \/ Webhook(p) \/ NoService(p) \/ Answer(p)
       \/ ServiceGrant(p) \/ Simulate(p) \/ Ignore(p) \/ Accept(p) \/ Execute(p)

Spec == Init /\ [][Next]_vars

-----------------------------------------------------------------------------
Told(p, action) == press[p].status = "completed" /\ press[p].action = action

\* What an operator is told is so, whoever else pressed another button: an
\* opportunity told to be executed was executed and is not ignored by another.
ToldIsDone ==
  \A p \in Presses :
    /\ Told(p, "execute") => state = "executed"
    /\ Told(p, "ignore") => state = "ignored"

\* The row is executed or ignored only for an operator who had a current grant
\* of the tier for it at some moment since the press: the channel's look-up,
\* which takes revoked grants too, is not what counts.
DoneWithGrant ==
  \A p \in Presses : press[p].ends = "completed" =>
    press[p].held >= (IF press[p].action = "execute" THEN 5 ELSE MinimumTier(press[p].action))

CallbacksSound == ToldIsDone /\ DoneWithGrant

\* "Authoritative action effect did not complete" (dispatch.py): it may have,
\* after the caller stopped waiting.
FailedIsNotDone ==
  \A p \in Presses : press[p].status = "failed_precondition" => press[p].ends # "completed"
=============================================================================
