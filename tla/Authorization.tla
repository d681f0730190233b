--------------------------- MODULE Authorization ---------------------------
(***************************************************************************)
(* The policy of crates/aether-authz: the closed set of actions, the grant *)
(* and session tiers, and evaluate(), as functions.  The name of the rule  *)
(* that decided is only logged and is left out.                            *)
(***************************************************************************)
EXTENDS Integers

Tiers == 1 .. 5
Kinds == {"human", "agent", "automation"}

HardDenied == {"ReadSecretMaterial", "SetLiveEnabled",
               "RaiseCapsProgrammatically", "DisableSafetyControl"}
ReadActions == {"Subscribe", "Query", "Explain", "Metrics"}
StepUpActions == {"GuardianApproval", "ActivateCaps", "CreateOrElevateGrant",
                  "ApprovePlugin", "AddAllowlist", "RevokeOtherSession",
                  "ApplySelfImprovement"}

\* Actions that need the tier n.
ActionsOf(n) ==
  CASE n = 1 -> ReadActions
    [] n = 2 -> {"Simulate", "DraftOrder", "ConfigureAlerts", "RegenerateVault"}
    [] n = 3 -> {"SubmitPaperOrder", "LaunchSwarm", "ReprocessInbox"}
    [] n = 4 -> StepUpActions \cup {"SubmitLiveOrder", "InstallSignedPlugin",
                                    "ScheduleAutomation", "WalletTransfer"}
    [] n = 5 -> HardDenied

Actions == UNION {ActionsOf(n) : n \in Tiers}
MinimumTier(action) == CHOOSE n \in Tiers : action \in ActionsOf(n)
IsMutating(action) == action \notin ReadActions

LowerTier(a, b) == IF a <= b THEN a ELSE b

-----------------------------------------------------------------------------
\* A grant: scopes are the actions it names, when it is restricted; expiry 0
\* stands for none.
Grant(actor, kind, tier, scopes, restricted, expiry) ==
  [actor |-> actor, kind |-> kind, tier |-> tier, scopes |-> scopes,
   restricted |-> restricted, expiry |-> expiry, revoked |-> FALSE]

IsActive(grant, now) ==
  ~grant.revoked /\ (grant.expiry = 0 \/ now < grant.expiry)

PermitsScope(grant, action) == ~grant.restricted \/ action \in grant.scopes

\* The context of a request.  sessionTier 0 stands for no session.
Context(now, sessionTier, confirmed, stepUp) ==
  [now |-> now, sessionTier |-> sessionTier, confirmed |-> confirmed,
   stepUp |-> stepUp, historyDays |-> 0, aboveThreshold |-> FALSE,
   freshApproval |-> FALSE]

\* Denials that precede the grant and its tier.
StructurallyDenied(kind, action, ctx) ==
  \/ action \in HardDenied
  \/ /\ action = "WalletTransfer" /\ ctx.aboveThreshold
     /\ ~(kind = "human" /\ ctx.freshApproval /\ ctx.stepUp)
  \/ action = "ApplySelfImprovement" /\ kind # "human"

GrantDenies(actor, kind, grant, action, ctx) ==
  \/ grant.actor # actor \/ grant.kind # kind
  \/ ~IsActive(grant, ctx.now)
  \/ ~PermitsScope(grant, action)
  \/ (kind = "human" /\ ctx.sessionTier = 0)

EffectiveTier(kind, grant, ctx) ==
  IF kind = "human" THEN LowerTier(grant.tier, ctx.sessionTier) ELSE grant.tier

NeedsStepUp(action, ctx) ==
  action \in StepUpActions \/ (action = "SubmitLiveOrder" /\ ctx.historyDays < 30)

NeedsConfirmation(tier, action) ==
  \/ tier = 3 /\ IsMutating(action)
  \/ tier = 4 /\ action = "SubmitLiveOrder"

\* Mutant: a confirmation stands in for the step-up.
EvaluateConfirmFirst(actor, kind, grant, action, ctx) ==
  LET tier == EffectiveTier(kind, grant, ctx) IN
    IF \/ StructurallyDenied(kind, action, ctx)
       \/ GrantDenies(actor, kind, grant, action, ctx)
       \/ tier < MinimumTier(action)
    THEN "Deny"
    ELSE IF NeedsConfirmation(tier, action) /\ ctx.confirmed THEN "Allow"
    ELSE IF NeedsStepUp(action, ctx) /\ ~ctx.stepUp THEN "StepUpRequired"
    ELSE IF NeedsConfirmation(tier, action) THEN "ConfirmRequired"
    ELSE "Allow"

\* evaluate() with a grant; without one, or with several that do not match,
\* the verdict is Deny.
Evaluate(actor, kind, grant, action, ctx) ==
  LET tier == EffectiveTier(kind, grant, ctx) IN
    IF \/ StructurallyDenied(kind, action, ctx)
       \/ GrantDenies(actor, kind, grant, action, ctx)
       \/ tier < MinimumTier(action)
    THEN "Deny"
    ELSE IF NeedsStepUp(action, ctx) /\ ~ctx.stepUp THEN "StepUpRequired"
    ELSE IF NeedsConfirmation(tier, action) /\ ~ctx.confirmed THEN "ConfirmRequired"
    ELSE "Allow"
=============================================================================
