---------------------------- MODULE AlertDelivery ----------------------------
(***************************************************************************)
(* The alerts service (server/alerts): the consumer of opps.detected, the  *)
(* rules with their dedup set and rate limits in memory, the history row   *)
(* that claims an alert, and its delivery to a channel.  The service may   *)
(* crash and start again: memory is lost, rows and committed offsets stay. *)
(*                                                                         *)
(* One rule with one channel; its alerts are told apart by opportunity.    *)
(***************************************************************************)
EXTENDS Integers, Sequences, FiniteSets

CONSTANTS Opportunities,  \* the messages of the topic, in order 1 .. n
          RateLimit, RateWindow, DedupTtl, ClaimTimeout,
          MaxTime, MaxCrashes

\* A topic of some length, a limit on some window, and a time after which a
\* claim is taken for lost.
AlertAssumption ==
  Opportunities \in Nat /\ RateLimit \in Int /\ RateWindow \in Int /\ ClaimTimeout \in Nat

VARIABLES now, crashes, committed,
          task,           \* the consumer: where it is with which opportunity, claimed
          seen,           \* _dedup_timestamps
          passes,         \* _rate_limiters: when alerts passed
          row,            \* alert_history per opportunity
          sent,           \* history: the time of the claim with which an alert was sent
          evaluated,      \* history: when any alert passed, across restarts
          unclaimed       \* history: alerts sent while the history failed

vars == <<now, crashes, committed, task, seen, passes, row, sent, evaluated, unclaimed>>

Messages == 1 .. Opportunities
Never    == -1
NoRow    == [status |-> "none", at |-> Never]
Waiting  == [pc |-> "wait", opp |-> 0, claimed |-> FALSE]

Init ==
  /\ now = 0 /\ crashes = 0 /\ committed = 0
  /\ task = Waiting
  /\ seen = [o \in Messages |-> Never] /\ passes = << >>
  /\ row = [o \in Messages |-> NoRow]
  /\ sent = [o \in Messages |-> << >>] /\ evaluated = << >> /\ unclaimed = {}

-----------------------------------------------------------------------------
(* evaluate().                                                             *)

\* AlertBus.opportunities(): the next message after the committed ones.
Take ==
  /\ task.pc = "wait" /\ committed < Opportunities
  /\ task' = [pc |-> "evaluate", opp |-> committed + 1, claimed |-> FALSE]
  /\ UNCHANGED <<now, crashes, committed, seen, passes, row, sent, evaluated, unclaimed>>

\* _prune_dedup() and the entries that are left.
Known(o)  == seen[o] # Never /\ seen[o] >= now - DedupTtl

\* Mutant: the entry at the edge of the window is dropped.
StaleStrict(k) ==
  /\ \A i \in 1 .. k : passes[i] <= now - RateWindow
  /\ k < Len(passes) => passes[k + 1] > now - RateWindow

\* _check_rate_limit(): the first k passes are popped, older than the window.
Stale(k) ==
  /\ \A i \in 1 .. k : passes[i] < now - RateWindow
  /\ k < Len(passes) => passes[k + 1] >= now - RateWindow

\* The filters, the dedup set and then the rate limit: an alert over the limit
\* is in the dedup set all the same.
Evaluate ==
  /\ task.pc = "evaluate"
  /\ \/ /\ task' = [task EXCEPT !.pc = "commit"]         \* a filter, or seen
        /\ UNCHANGED <<seen, passes, evaluated>>
     \/ /\ ~Known(task.opp)
        /\ seen' = [seen EXCEPT ![task.opp] = now]
        /\ \E k \in 0 .. Len(passes) :
             LET fresh == SubSeq(passes, k + 1, Len(passes)) IN
             /\ Stale(k)
             /\ IF Len(fresh) >= RateLimit
                THEN /\ passes' = fresh
                     /\ task' = [task EXCEPT !.pc = "commit"] /\ UNCHANGED evaluated
                ELSE /\ passes' = Append(fresh, now)
                     /\ evaluated' = Append(evaluated, [at |-> now, life |-> crashes])
                     /\ task' = [task EXCEPT !.pc = "record"]
  /\ UNCHANGED <<now, crashes, committed, row, sent, unclaimed>>

-----------------------------------------------------------------------------
(* deliver_alert().                                                        *)

\* Mutant: every row is claimed again.
ClaimableAny(r) == TRUE

\* record_alert(): a new row, one whose delivery failed, or one that has been
\* pending too long.
Claimable(r) ==
  \/ r.status \in {"none", "failed"}
  \/ r.status = "pending" /\ r.at < now - ClaimTimeout

\* A row that cannot be claimed makes the alert a duplicate, which is done
\* with; a failing history only goes to the log.
Record ==
  /\ task.pc = "record"
  /\ \/ /\ UNCHANGED unclaimed
        /\ IF Claimable(row[task.opp])
           THEN /\ row' = [row EXCEPT ![task.opp] = [status |-> "pending", at |-> now]]
                /\ task' = [task EXCEPT !.pc = "send", !.claimed = TRUE]
           ELSE /\ task' = [task EXCEPT !.pc = "commit"] /\ UNCHANGED row
     \/ /\ task' = [task EXCEPT !.pc = "send"] /\ UNCHANGED row
        /\ unclaimed' = unclaimed \cup {task.opp}
  /\ UNCHANGED <<now, crashes, committed, seen, passes, sent, evaluated>>

\* publish() and dispatch_to_channel(): a message id, or nothing.
Send ==
  /\ task.pc = "send"
  /\ \/ /\ sent' = [sent EXCEPT ![task.opp] = Append(@, row[task.opp].at)]
        /\ task' = [task EXCEPT !.pc = "sent"]
     \/ task' = [task EXCEPT !.pc = "failed"] /\ UNCHANGED sent
  /\ UNCHANGED <<now, crashes, committed, seen, passes, row, evaluated, unclaimed>>

\* update_delivery(), of the row with the new alert's id: there is one if the
\* alert was claimed.
Update ==
  /\ task.pc \in {"sent", "failed"}
  /\ row' = IF task.claimed
            THEN [row EXCEPT ![task.opp] = [status |-> task.pc, at |-> now]]
            ELSE row
  /\ task' = [task EXCEPT !.pc = "commit"]
  /\ UNCHANGED <<now, crashes, committed, seen, passes, sent, evaluated, unclaimed>>

\* The publication or the update raises: the consumer's task ends, and the
\* service goes on without it.
Raises ==
  /\ task.pc \in {"send", "sent", "failed"}
  /\ task' = [task EXCEPT !.pc = "dead"]
  /\ UNCHANGED <<now, crashes, committed, seen, passes, row, sent, evaluated, unclaimed>>

\* The generator commits when it is asked for the next message.
Commit ==
  /\ task.pc = "commit"
  /\ committed' = task.opp /\ task' = Waiting
  /\ UNCHANGED <<now, crashes, seen, passes, row, sent, evaluated, unclaimed>>

\* A crash or a shutdown, and the start after it.
Restart ==
  /\ crashes < MaxCrashes
  /\ crashes' = crashes + 1
  /\ task' = Waiting /\ seen' = [o \in Messages |-> Never] /\ passes' = << >>
  /\ UNCHANGED <<now, committed, row, sent, evaluated, unclaimed>>

Tick ==
  /\ now < MaxTime /\ now' = now + 1
  /\ UNCHANGED <<crashes, committed, task, seen, passes, row, sent, evaluated, unclaimed>>

Next ==
  \/ Take \/ Evaluate \/ Record \/ Send \/ Update \/ Raises \/ Commit \/ Restart \/ Tick

Spec == Init /\ [][Next]_vars

-----------------------------------------------------------------------------
\* While the history answers, an alert reaches its channel once, whatever
\* restarts come between, and again only when a claim was held so long that it
\* had to be taken for lost.
SentOnce ==
  \A o \in Messages \ unclaimed :
    \A i, j \in DOMAIN sent[o] : i < j => sent[o][j] - sent[o][i] > ClaimTimeout

\* Between restarts the rule passes no more alerts in any window than its
\* limit.
RateHeld ==
  \A i, j \in DOMAIN evaluated :
    (i <= j /\ evaluated[i].life = evaluated[j].life /\ evaluated[j].at - evaluated[i].at <= RateWindow)
      => j - i + 1 <= RateLimit

AlertsSound == SentOnce /\ RateHeld

\* record_alert()'s claim is for retries: a matched opportunity whose message
\* is committed has an alert that was sent or is known to have failed.
CommittedIsDelivered ==
  \A o \in 1 .. committed : row[o].status \in {"none", "sent", "failed"}
=============================================================================
