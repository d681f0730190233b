---------------------------- MODULE Automations ----------------------------
(***************************************************************************)
(* crates/aether-agents: one scheduled automation and one improvement      *)
(* proposal in Postgres.  Workers claim the slots of the schedule at the   *)
(* same time, each with the grant it read before; a claim is a transaction *)
(* that locks the row, and what it allows is dispatched after the commit.  *)
(* The in-memory scheduler and proposal store decide alike.                *)
(***************************************************************************)
EXTENDS Authorization, Sequences

CONSTANTS Workers, MaxSlot, MaxRuns, MaxCost, CostPerRun

\* The counters of AutomationBudget are unsigned.
AutomationAssumption == MaxRuns \in Nat /\ MaxCost \in Nat /\ CostPerRun \in Nat

VARIABLES now,       \* the minute of the clock
          grant,     \* the automation's grant, as stored
          task,      \* the row of agent_automations
          worker,    \* what each worker holds
          dispatched,\* the slots that were claimed, in the order of the commits
          proposal, receipts

vars == <<now, grant, task, worker, dispatched, proposal, receipts>>

Any == 9
Idle == [pc |-> "idle", slot |-> 0, grant |-> [revoked |-> TRUE], row |-> 0]
Status == {"active", "paused", "revoked"}

-----------------------------------------------------------------------------
(* The schedule.  The calendar is cut down to an hour of two minutes; each *)
(* field of a cron expression is any value or an exact one.                *)

Calendar(slot) == [minute |-> slot % 2, hour |-> slot \div 2]
CronFields == [minute : {Any, 0, 1}, hour : {Any, 0, 1}]
FieldMatches(field, value) == field \in {Any, value}
Matches(cron, slot) ==
  \A f \in DOMAIN cron : FieldMatches(cron[f], Calendar(slot)[f])

\* schedule(): an owner who may schedule, an automation grant that may run the
\* action, and a budget of at least one run.
MayRun(g, slot) == Evaluate("bot", "automation", g, "Query", Context(slot, 0, FALSE, FALSE)) = "Allow"
MaySchedule(g, ownerKind, ownerTier) ==
  /\ g.kind = "automation" /\ MaxRuns > 0 /\ CostPerRun <= MaxCost
  /\ Evaluate("owner", ownerKind, Grant("owner", ownerKind, ownerTier, {}, FALSE, 0),
              "ScheduleAutomation", Context(1, ownerTier, TRUE, FALSE)) = "Allow"
  /\ MayRun(g, 1)

Init ==
  /\ now = 1
  /\ \E expiry \in {0, 3}, kind \in {"human", "automation"} :
       grant = Grant("bot", kind, 1, {"Query"}, TRUE, expiry)
  /\ task = [status |-> "none"]
  /\ worker = [w \in Workers |-> Idle]
  /\ dispatched = << >>
  /\ proposal = "none" /\ receipts = << >>

Schedule ==
  /\ task.status = "none"
  /\ \E ownerKind \in Kinds, ownerTier \in Tiers : MaySchedule(grant, ownerKind, ownerTier)
  /\ \E cron \in CronFields :
       task' = [status |-> "active", cron |-> cron, runs |-> 0, cost |-> 0, last |-> 0]
  /\ UNCHANGED <<now, grant, worker, dispatched, proposal, receipts>>

Tick ==
  /\ now < MaxSlot /\ now' = now + 1
  /\ UNCHANGED <<grant, task, worker, dispatched, proposal, receipts>>

RevokeGrant ==
  /\ ~grant.revoked /\ grant' = [grant EXCEPT !.revoked = TRUE]
  /\ UNCHANGED <<now, task, worker, dispatched, proposal, receipts>>

-----------------------------------------------------------------------------
(* A claim.                                                                *)

\* A worker takes up a slot - the present one, or one it missed or retries -
\* and reads the grant.
Begin(w) ==
  /\ worker[w].pc = "idle" /\ task.status # "none"
  /\ \E slot \in 1 .. now :
       worker' = [worker EXCEPT ![w] = [Idle EXCEPT !.pc = "begun", !.slot = slot,
                                                   !.grant = grant]]
  /\ UNCHANGED <<now, grant, task, dispatched, proposal, receipts>>

\* Mutant: the row is read without FOR UPDATE.
RowFreeAlways(others) == TRUE

\* SELECT ... FOR UPDATE and UPDATE wait for the transaction that holds the row.
RowFree(others) == \A v \in others : worker[v].pc # "locked"

Lock(w) ==
  /\ worker[w].pc = "begun" /\ RowFree(Workers \ {w})
  /\ worker' = [worker EXCEPT ![w].pc = "locked", ![w].row = task]
  /\ UNCHANGED <<now, grant, task, dispatched, proposal, receipts>>

\* Mutant: the slot is compared only with a later run's.
DueUnlessLater(row, slot) ==
  row.status = "active" /\ row.last <= slot /\ Matches(row.cron, slot)

\* The row is due: active, its last run another slot, the schedule matching.
Due(row, slot) ==
  row.status = "active" /\ row.last # slot /\ Matches(row.cron, slot)

InBudget(row) ==
  row.runs + 1 <= MaxRuns /\ row.cost + CostPerRun <= MaxCost

\* The rest of claim_due(): the grant is judged at the slot's own time; the run
\* and its cost are counted before anything is dispatched.
Commit(w) ==
  LET me == worker[w]
      allowed == Due(me.row, me.slot) /\ MayRun(me.grant, me.slot) /\ InBudget(me.row) IN
    /\ me.pc = "locked"
    /\ task' = IF allowed
               THEN [task EXCEPT !.runs = me.row.runs + 1, !.cost = me.row.cost + CostPerRun,
                                 !.last = me.slot]
               ELSE task
    /\ dispatched' = IF allowed THEN Append(dispatched, me.slot) ELSE dispatched
    /\ worker' = [worker EXCEPT ![w] = Idle]
    /\ UNCHANGED <<now, grant, proposal, receipts>>

\* The worker stops: its transaction is rolled back.
Crash(w) ==
  /\ worker[w].pc # "idle" /\ worker' = [worker EXCEPT ![w] = Idle]
  /\ UNCHANGED <<now, grant, task, dispatched, proposal, receipts>>

Pause ==
  /\ task.status = "active" /\ RowFree(Workers)
  /\ task' = [task EXCEPT !.status = "paused"]
  /\ UNCHANGED <<now, grant, worker, dispatched, proposal, receipts>>

RevokeTask ==
  /\ task.status \in {"active", "paused"} /\ RowFree(Workers)
  /\ task' = [task EXCEPT !.status = "revoked"]
  /\ UNCHANGED <<now, grant, worker, dispatched, proposal, receipts>>

-----------------------------------------------------------------------------
(* The improvement proposal.                                               *)

\* propose() asks for a unified diff and for at least one metric, every
\* citation with its source.
MayPropose(isDiff, evidence) ==
  isDiff /\ (\A e \in evidence : e.sourced) /\ (\E e \in evidence : e.kind = "metric")

Propose ==
  /\ proposal = "none"
  /\ \E isDiff \in BOOLEAN,
        evidence \in SUBSET [kind : {"metric", "attribution"}, sourced : BOOLEAN] :
       MayPropose(isDiff, evidence)
  /\ proposal' = "proposed"
  /\ UNCHANGED <<now, grant, task, worker, dispatched, receipts>>

\* authorize_proposal_application(), two of which may race; the first commit
\* leaves nothing for the second.
Authorize(kind, stepUp) ==
  /\ kind = "human"
  /\ Evaluate("who", kind, Grant("who", kind, 4, {}, FALSE, 0), "ApplySelfImprovement",
              Context(now, 4, TRUE, stepUp)) = "Allow"
  /\ proposal = "proposed"
  /\ proposal' = "application_authorized"
  /\ receipts' = Append(receipts, [kind |-> kind, stepUp |-> stepUp])
  /\ UNCHANGED <<now, grant, task, worker, dispatched>>

ProposalStep == Propose \/ \E kind \in Kinds, stepUp \in BOOLEAN : Authorize(kind, stepUp)

Next ==
  \/ Schedule \/ Tick \/ RevokeGrant \/ Pause \/ RevokeTask \/ ProposalStep
  \/ \E w \in Workers : Begin(w) \/ Lock(w) \/ Commit(w) \/ Crash(w)

Spec == Init /\ [][Next]_vars

-----------------------------------------------------------------------------
\* Every run that was handed out is counted and paid for, within the budget,
\* however many workers claim at once.
RunsCounted ==
  task.status # "none" =>
    /\ task.runs = Len(dispatched) /\ task.runs <= MaxRuns
    /\ task.cost = task.runs * CostPerRun /\ task.cost <= MaxCost

\* No slot is handed out twice in a row, and none outside the schedule.
NoRepeat ==
  \A k \in DOMAIN dispatched :
    /\ Matches(task.cron, dispatched[k])
    /\ k < Len(dispatched) => dispatched[k] # dispatched[k + 1]

\* A proposal is authorized once, by a human who stepped up.
AuthorizedOnce ==
  /\ Len(receipts) = IF proposal = "application_authorized" THEN 1 ELSE 0
  /\ \A k \in DOMAIN receipts : receipts[k].kind = "human" /\ receipts[k].stepUp

\* The rules of the automations and the proposals of crates/aether-agents.
AutomationsSound == RunsCounted /\ NoRepeat /\ AuthorizedOnce

\* What a stopped automation may never do: dispatch again, whatever a worker
\* had read before (persistence.rs, the row lock of claim_due and revoke).
StoppedStep ==
  task.status \in {"paused", "revoked"} => dispatched' = dispatched

\* As a property of behaviours.
StoppedForGood == [][StoppedStep]_vars

\* A slot is dispatched once.  Not so: only the last slot is remembered, and a
\* retry of an older one is a new run.
SlotOnce ==
  \A j, k \in DOMAIN dispatched : j # k => dispatched[j] # dispatched[k]
=============================================================================
