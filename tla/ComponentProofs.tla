-------------------------- MODULE ComponentProofs --------------------------
(***************************************************************************)
(* Theorems about components that MCComponents checks.  Each of them is an *)
(* instance under its own name; what two components name alike - a clock,  *)
(* a row - is declared once here, and means in a theorem what it means in  *)
(* the component the theorem is about.                                     *)
(***************************************************************************)
EXTENDS Integers, SequenceTheorems, FiniteSetTheorems, TLAPS

\* The bus.
CONSTANTS MaxSends, MaxAttempts, MaxCrashes, RefusedSets
VARIABLES log, sends, sending, breaker, pc, position, pending, stored,
          committed, raw, meta, processed, crashes, refused

Bus == INSTANCE BusDelivery

\* The operators' side: a pressed button, and the stores of the authority.
CONSTANTS Presses, Grants, Tiers, MaxChanges
VARIABLES grants, state, press, changes

Callback == INSTANCE OperatorCallback

CONSTANTS Users, Holder, ChallengeActions, Amounts, StepUpValidity, IdleExpiry,
          MaxLockout, MaxTime, MaxVersions, MaxChallenges, MaxFailures
VARIABLES store, now, grant, versions, active, challenges, lockout, session

Stores == INSTANCE AuthorityStores

\* The alerts.
CONSTANTS Opportunities, RateLimit, RateWindow, DedupTtl, ClaimTimeout
VARIABLES row, task, seen, passes, sent, evaluated, unclaimed

Alerts == INSTANCE AlertDelivery

\* The wallet guardian as a library.
CONSTANTS Proposals, Transactions, Topics, ProposalTtl, ApprovalTtl, Ether
VARIABLES call, available, proposal, pool, mined, client, wallet, requests

Guardian == INSTANCE GuardianService

\* The gateway's connections.
CONSTANTS Conns, Validity, FeedCapacity, MaxIssued
VARIABLES conns, connectionCount, subscriptionCount, issued, authorized

Gateway == INSTANCE GatewaySession

\* The REST client of a venue pack.
CONSTANTS Requests, Capacity, Rate, MaxRetries, Threshold, ErrorWindow, ResetTimeout
VARIABLES venue, failures, bucket, req, taken

Client == INSTANCE VenueOrders

\* The agents: an automation and its proposal, and a plugin.
CONSTANTS Workers, MaxSlot, MaxRuns, MaxCost, CostPerRun
VARIABLES worker, dispatched, receipts

Automation == INSTANCE Automations

CONSTANTS Loaders, Manifests, Modules, TrustedSigners, DeniedDeps, MaxLoads
VARIABLES approval, effects, loader, runs, audit

Plugin == INSTANCE PluginLifecycle

\* The venues' streams: the feed of a pack, Alpaca's batches, Kalshi's books.
CONSTANTS Feeds, Books, MaxMessages
VARIABLES feed, value, answers, got, made, lastTick, tickAt, probe, health

Feed == INSTANCE VenueFeed

CONSTANTS Symbols, MaxItems, MaxBatch, Welcomes
VARIABLES conn, attempt, inbox, todo, frame, items, published, preserved

Alpaca == INSTANCE AlpacaStream

CONSTANTS MaxLost, MaxFaulty, MaxSessions
VARIABLES role, last, book, blind, wire, lost, faulty, sessions

Kalshi == INSTANCE KalshiStream

-----------------------------------------------------------------------------
(* BusDelivery: CommittedIsHandled for any number of sends, attempts and   *)
(* stops of the consumer, without an assumption on the constants.          *)

BusTypeOK ==
  /\ log \in Seq(BOOLEAN)
  /\ sending \in [attempt : Nat, valid : BOOLEAN]
  /\ position \in Nat \ {0} /\ stored \in Nat \ {0} /\ committed \in Nat \ {0}
  /\ pc \in {"consume", "publish", "process", "ack", "commit", "stopped"}

Handled(o) == IF log[o] THEN o \in processed ELSE o \in raw \cap meta

\* All offsets before n are of messages that were dealt with.
HandledBefore(n) == \A o \in 1 .. n - 1 : o <= Len(log) /\ Handled(o)

\* What is known of the message the loop stands at: the stored offset is that
\* of the next message to deal with, and only moves once that one is done.
LoopOK ==
  /\ pc \in {"consume", "commit"} => position = stored
  /\ pc = "publish" =>
       /\ position = stored /\ position <= Len(log)
       /\ ~log[position] /\ position \in raw
  /\ pc \in {"process", "ack"} =>
       /\ pending = position /\ position = stored + 1 /\ stored <= Len(log) /\ log[stored]
  /\ pc = "ack" => stored \in processed

CommitInv ==
  /\ BusTypeOK
  /\ LoopOK
  /\ HandledBefore(stored)
  /\ HandledBefore(committed)

\* Nothing is committed at the start.
LEMMA CommitInit == Bus!Init => CommitInv
  BY DEF Bus!Init, CommitInv, BusTypeOK, LoopOK, HandledBefore, Bus!NoSend

\* What was dealt with stays so: the log and the sets only grow.
LEMMA HandledStays ==
  ASSUME BusTypeOK,
         log' = log \/ \E valid \in BOOLEAN : log' = Append(log, valid),
         processed \subseteq processed', raw \subseteq raw', meta \subseteq meta'
  PROVE  /\ \A n \in Nat : HandledBefore(n) => HandledBefore(n)'
         /\ log' \in Seq(BOOLEAN)
         /\ \A o \in 1 .. Len(log) : o <= Len(log') /\ log'[o] = log[o]
<1>1. /\ log' \in Seq(BOOLEAN)
      /\ \A o \in 1 .. Len(log) : o <= Len(log') /\ log'[o] = log[o]
  BY DEF BusTypeOK
<1> QED  BY <1>1 DEF HandledBefore, Handled, BusTypeOK

\* The offset is stored after the message is dealt with, and committed after
\* it is stored.
LEMMA CommitNext == CommitInv /\ [Bus!Next]_(Bus!vars) => CommitInv'
<1> SUFFICES ASSUME CommitInv, [Bus!Next]_(Bus!vars) PROVE CommitInv'
  OBVIOUS
<1> USE DEF CommitInv
<1>1. CASE Bus!BeginSend
  BY <1>1 DEF Bus!BeginSend, BusTypeOK, LoopOK, HandledBefore, Handled, Bus!consumer
<1>2. CASE Bus!Attempt
  <2>1. \/ log' = log
        \/ \E valid \in BOOLEAN : log' = Append(log, valid)
    BY <1>2 DEF Bus!Attempt, Bus!Delivered, BusTypeOK
  <2>2. UNCHANGED Bus!consumer
    BY <1>2 DEF Bus!Attempt
  <2>3. sending' \in [attempt : Nat, valid : BOOLEAN]
    <3>1. sending' = Bus!NoSend \/ sending' = [sending EXCEPT !.attempt = @ + 1]
      BY <1>2 DEF Bus!Attempt
    <3>2. Bus!NoSend \in [attempt : Nat, valid : BOOLEAN]
      BY DEF Bus!NoSend
    <3>3. /\ sending = [attempt |-> sending.attempt, valid |-> sending.valid]
          /\ sending.attempt \in Nat /\ sending.valid \in BOOLEAN
      BY DEF BusTypeOK
    <3>4. [sending EXCEPT !.attempt = @ + 1]
            = [attempt |-> sending.attempt + 1, valid |-> sending.valid]
      BY <3>3
    <3> QED  BY <3>1, <3>2, <3>3, <3>4
  <2>4. /\ \A n \in Nat : HandledBefore(n) => HandledBefore(n)'
        /\ log' \in Seq(BOOLEAN)
        /\ \A o \in 1 .. Len(log) : o <= Len(log') /\ log'[o] = log[o]
    BY <2>1, <2>2, HandledStays DEF Bus!consumer
  <2>5. BusTypeOK'
    BY <2>2, <2>3, <2>4 DEF BusTypeOK, Bus!consumer
  <2>6. LoopOK'
    BY <2>2, <2>4 DEF BusTypeOK, LoopOK, Bus!consumer
  <2> QED  BY <2>2, <2>4, <2>5, <2>6 DEF BusTypeOK, Bus!consumer
<1>3. CASE \E r \in Bus!Roles : Bus!Elapse(r)
  BY <1>3 DEF Bus!Elapse, BusTypeOK, LoopOK, HandledBefore, Handled, Bus!consumer, Bus!sender
<1>4. CASE Bus!ReceiveValid
  BY <1>4 DEF Bus!ReceiveValid, BusTypeOK, LoopOK, HandledBefore, Handled, Bus!sender
<1>5. CASE Bus!ReceiveMalformed
  BY <1>5 DEF Bus!ReceiveMalformed, BusTypeOK, LoopOK, HandledBefore, Handled, Bus!sender
<1>6. CASE Bus!PublishMetadata
  BY <1>6 DEF Bus!PublishMetadata, BusTypeOK, LoopOK, HandledBefore, Handled, Bus!sender
<1>7. CASE Bus!Process
  BY <1>7 DEF Bus!Process, BusTypeOK, LoopOK, HandledBefore, Handled, Bus!sender
<1>8. CASE Bus!Ack
  BY <1>8 DEF Bus!Ack, BusTypeOK, LoopOK, HandledBefore, Handled, Bus!sender
<1>9. CASE Bus!CommitSync
  BY <1>9 DEF Bus!CommitSync, BusTypeOK, LoopOK, HandledBefore, Handled, Bus!sender
<1>10. CASE Bus!Refuses \/ Bus!QuarantineFails \/ Bus!Stops
  BY <1>10 DEF Bus!Refuses, Bus!QuarantineFails, Bus!Stops, Bus!Stopped, Bus!Ended, BusTypeOK,
     LoopOK, HandledBefore, Handled, Bus!sender
<1>11. CASE Bus!Restart
  BY <1>11 DEF Bus!Restart, BusTypeOK, LoopOK, HandledBefore, Handled, Bus!sender
<1>12. CASE UNCHANGED Bus!vars
  BY <1>12 DEF Bus!vars, BusTypeOK, LoopOK, HandledBefore, Handled, Bus!sender, Bus!consumer
<1> QED
  BY <1>1, <1>2, <1>3, <1>4, <1>5, <1>6, <1>7, <1>8, <1>9, <1>10, <1>11,
     <1>12 DEF Bus!Next

\* Whatever fails and whenever the consumer is stopped, an offset is only
\* committed once all messages before it were processed or quarantined.
THEOREM CommitCoversWork == Bus!Spec => []Bus!CommittedIsHandled
<1>1. CommitInv => Bus!CommittedIsHandled
  BY DEF CommitInv, Bus!CommittedIsHandled, HandledBefore, Handled
<1> QED  BY <1>1, CommitInit, CommitNext, PTL DEF Bus!Spec

-----------------------------------------------------------------------------
(* OperatorCallback: CallbacksSound for any number of webhooks and grants. *)

Rows == [stage : {"new", "call", "answered", "permitted", "accepted", "over"},
         action : Callback!Actions \cup {"none", "malformed"},
         status : {"none", "unauthorized", "forbidden", "bad_request", "permission_denied",
                   "requires_confirm", "authorized", "failed_precondition", "completed"},
         ends : {"none", "completed", "rejected"}, held : 0 .. 5]

Needed(action) == IF action = "execute" THEN 5 ELSE Callback!MinimumTier(action)

\* What is known of a press: it holds the highest tier that was current since
\* it came, one the service let through had the tier it needs, and what it is
\* told it did is what the row shows.
PressOK(r) ==
  /\ r.stage = "new" => r.ends = "none" /\ r.status = "none"
  /\ r.stage \in {"call", "permitted", "accepted"} => r.ends = "none"
  /\ r.stage = "accepted" => r.action = "execute"
  /\ r.status = "completed" => r.ends = "completed"
  /\ r.stage # "new" => r.held >= Callback!Held(grants)
  /\ r.stage \in {"permitted", "accepted"} \/ r.ends = "completed" => r.held >= Needed(r.action)
  /\ r.ends = "completed" /\ r.action = "execute" => state = "executed"
  /\ r.ends = "completed" /\ r.action = "ignore" => state = "ignored"

CallbackTypeOK ==
  /\ grants \in [Grants -> [tier : Tiers \cup {0}, revoked : BOOLEAN, expired : BOOLEAN,
                            scoped : BOOLEAN]]
  /\ press \in [Presses -> Rows]

CallbackInv == CallbackTypeOK /\ \A p \in Presses : PressOK(press[p])

\* The highest of some tiers is one of them.
LEMMA HighestTier ==
  ASSUME NEW S \in SUBSET (0 .. 5), S # {}
  PROVE  Callback!Max(S) \in S /\ \A n \in S : n <= Callback!Max(S)
<1>1. \E n \in S : \A m \in S : n >= m
  <2>1. CASE 5 \in S  BY <2>1
  <2>2. CASE 5 \notin S /\ 4 \in S  BY <2>2
  <2>3. CASE 5 \notin S /\ 4 \notin S /\ 3 \in S  BY <2>3
  <2>4. CASE 5 \notin S /\ 4 \notin S /\ 3 \notin S /\ 2 \in S  BY <2>4
  <2>5. CASE 5 \notin S /\ 4 \notin S /\ 3 \notin S /\ 2 \notin S /\ 1 \in S  BY <2>5
  <2>6. CASE 5 \notin S /\ 4 \notin S /\ 3 \notin S /\ 2 \notin S /\ 1 \notin S
    <3>1. \A n \in S : n = 0
      BY <2>6
    <3>2. 0 \in S
      BY <3>1
    <3> QED  BY <3>1, <3>2
  <2> QED  BY <2>1, <2>2, <2>3, <2>4, <2>5, <2>6
<1> QED  BY <1>1 DEF Callback!Max

\* The tier a press may have held is one, and reaches that of the current grants.
LEMMA HeldType ==
  ASSUME Callback!CallbackAssumption, NEW rows,
         rows \in [Grants -> [tier : Tiers \cup {0}, revoked : BOOLEAN, expired : BOOLEAN,
                              scoped : BOOLEAN]]
  PROVE  /\ Callback!Held(rows) \in 0 .. 5
         /\ \A g \in Grants : ~rows[g].revoked /\ ~rows[g].expired => rows[g].tier <= Callback!Held(rows)
<1> DEFINE S == {rows[g].tier : g \in {h \in Grants : ~rows[h].revoked /\ ~rows[h].expired}}
<1>1. S \subseteq 0 .. 5
  BY DEF Callback!CallbackAssumption
<1>2. \A g \in Grants : ~rows[g].revoked /\ ~rows[g].expired => rows[g].tier \in S
  OBVIOUS
<1>3. Callback!Held(rows) = IF S = {} THEN 0 ELSE Callback!Max(S)
  BY DEF Callback!Held
<1> HIDE DEF S
<1>4. CASE S = {}
  BY <1>2, <1>3, <1>4
<1>5. CASE S # {}
  <2>1. Callback!Max(S) \in S /\ \A n \in S : n <= Callback!Max(S)
    BY <1>1, <1>5, HighestTier
  <2> QED  BY <1>1, <1>2, <1>3, <1>5, <2>1
<1> QED  BY <1>4, <1>5

LEMMA CurrentHeld ==
  ASSUME Callback!CallbackAssumption, CallbackTypeOK
  PROVE  Callback!TierOf(Callback!Current) \in 0 .. 5 /\ Callback!TierOf(Callback!Current) <= Callback!Held(grants)
<1> DEFINE S == {grants[g].tier : g \in Callback!Current}
<1>1. Callback!Held(grants) \in 0 .. 5 /\ \A g \in Callback!Current : grants[g].tier <= Callback!Held(grants)
  BY HeldType DEF CallbackTypeOK, Callback!Current, Callback!Listed
<1>2. S \subseteq 0 .. 5 /\ \A n \in S : n <= Callback!Held(grants)
  <2>1. \A g \in Callback!Current : grants[g].tier \in 0 .. 5
    <3>1. \A g \in Grants : grants[g].tier \in Tiers \cup {0}
      BY DEF CallbackTypeOK
    <3>2. Callback!Current \subseteq Grants
      BY DEF Callback!Current, Callback!Listed
    <3>3. Tiers \cup {0} \subseteq 0 .. 5
      BY DEF Callback!CallbackAssumption
    <3> QED  BY <3>1, <3>2, <3>3
  <2> QED  BY <1>1, <2>1
<1>3. Callback!TierOf(Callback!Current) = IF Callback!Current = {} THEN 0 ELSE Callback!Max(S)
  BY DEF Callback!TierOf
<1>4. Callback!Current # {} => S # {}
  OBVIOUS
<1> HIDE DEF S
<1>5. CASE Callback!Current = {}
  BY <1>1, <1>3, <1>5
<1>6. CASE Callback!Current # {}
  <2>1. Callback!Max(S) \in S
    BY <1>2, <1>4, <1>6, HighestTier
  <2> QED  BY <1>2, <1>3, <1>6, <2>1
<1> QED  BY <1>5, <1>6

LEMMA CallbackInit == Callback!CallbackAssumption /\ Callback!Init => CallbackInv
<1> SUFFICES ASSUME Callback!CallbackAssumption, Callback!Init PROVE CallbackInv
  OBVIOUS
<1>1. CallbackTypeOK
  <2>1. grants \in [Grants -> [tier : Tiers \cup {0}, revoked : BOOLEAN, expired : BOOLEAN,
                               scoped : BOOLEAN]]
    BY DEF Callback!Init
  <2>2. Callback!NewPress \in Rows
    BY DEF Callback!NewPress, Rows
  <2> QED  BY <2>1, <2>2 DEF Callback!Init, CallbackTypeOK
<1>2. ASSUME NEW p \in Presses PROVE PressOK(press[p])
  BY DEF Callback!Init, PressOK, Callback!NewPress
<1> QED  BY <1>1, <1>2 DEF CallbackInv

\* A step of one press that leaves the grants alone and does not take back what
\* another press was told.
LEMMA PressSteps ==
  ASSUME CallbackInv, NEW p \in Presses, NEW r \in Rows,
         press' = [press EXCEPT ![p] = r], grants' = grants,
         state \in {"executed", "ignored"} => state' = state,
         PressOK(r)'
  PROVE  CallbackInv'
<1>1. CallbackTypeOK'
  BY DEF CallbackInv, CallbackTypeOK
<1>2. ASSUME NEW q \in Presses PROVE PressOK(press[q])'
  <2>1. CASE q = p
    BY <2>1 DEF CallbackInv, CallbackTypeOK
  <2>2. CASE q # p
    <3>1. press'[q] = press[q] /\ PressOK(press[q])
      BY <2>2 DEF CallbackInv, CallbackTypeOK
    <3>2. Callback!Held(grants') = Callback!Held(grants)
      OBVIOUS
    <3> QED  BY <3>1, <3>2 DEF PressOK
  <2> QED  BY <2>1, <2>2
<1> QED  BY <1>1, <1>2 DEF CallbackInv

LEMMA CallbackNext == Callback!CallbackAssumption /\ CallbackInv /\ [Callback!Next]_(Callback!vars) => CallbackInv'
<1> SUFFICES ASSUME Callback!CallbackAssumption, CallbackInv, [Callback!Next]_(Callback!vars) PROVE CallbackInv'
  OBVIOUS
<1>1. \A p \in Presses : press[p] \in Rows /\ PressOK(press[p])
  BY DEF CallbackInv, CallbackTypeOK
<1>2. Callback!Held(grants) \in 0 .. 5
  BY HeldType DEF CallbackInv, CallbackTypeOK
<1>3. ASSUME NEW g \in Grants, Callback!GrantChanges(g) PROVE CallbackInv'
  <2> DEFINE held(p) == Callback!Max({press[p].held, Callback!Held(grants')})
  <2>1. PICK t \in Tiers, r \in BOOLEAN, x \in BOOLEAN, s \in BOOLEAN :
          grants' = [grants EXCEPT ![g] = [tier |-> t, revoked |-> r, expired |-> x, scoped |-> s]]
    BY <1>3 DEF Callback!GrantChanges
  <2>2. grants' \in [Grants -> [tier : Tiers \cup {0}, revoked : BOOLEAN, expired : BOOLEAN,
                                scoped : BOOLEAN]]
    BY <2>1 DEF CallbackInv, CallbackTypeOK
  <2>3. Callback!Held(grants') \in 0 .. 5
    BY <2>2, HeldType
  <2>4. press' = [p \in Presses |-> [press[p] EXCEPT !.held = held(p)]] /\ state' = state
    BY <1>3 DEF Callback!GrantChanges
  <2>5. \A p \in Presses : held(p) \in 0 .. 5 /\ held(p) >= press[p].held /\ held(p) >= Callback!Held(grants')
    <3> SUFFICES ASSUME NEW p \in Presses
                 PROVE  held(p) \in 0 .. 5 /\ held(p) >= press[p].held /\ held(p) >= Callback!Held(grants')
      OBVIOUS
    <3>1. press[p].held \in 0 .. 5
      BY <1>1 DEF Rows
    <3>2. {press[p].held, Callback!Held(grants')} \in SUBSET (0 .. 5)
      BY <2>3, <3>1
    <3>3. /\ held(p) \in {press[p].held, Callback!Held(grants')}
          /\ \A n \in {press[p].held, Callback!Held(grants')} : n <= held(p)
      BY <3>2, HighestTier
    <3> QED  BY <2>3, <3>1, <3>3
  <2> HIDE DEF held
  <2>6. CallbackTypeOK'
    BY <1>1, <2>2, <2>4, <2>5 DEF CallbackTypeOK, Rows
  <2>7. ASSUME NEW p \in Presses PROVE PressOK(press[p])'
    <3>1. /\ press'[p].stage = press[p].stage /\ press'[p].action = press[p].action
          /\ press'[p].status = press[p].status /\ press'[p].ends = press[p].ends
          /\ press'[p].held = held(p) /\ press[p].held \in 0 .. 5
      BY <1>1, <2>4 DEF Rows
    <3>2. press[p].held >= Needed(press[p].action) => held(p) >= Needed(press[p].action)
      BY <2>5, <3>1 DEF Needed, Callback!MinimumTier
    <3> QED  BY <1>1, <2>4, <2>5, <3>1, <3>2 DEF PressOK
  <2> QED  BY <2>6, <2>7 DEF CallbackInv
<1>4. CASE Callback!OthersChange
  <2>1. grants' = grants /\ press' = press /\ Callback!Held(grants') = Callback!Held(grants)
        /\ (state \in {"executed", "ignored"} => state' = state)
    BY <1>4 DEF Callback!OthersChange
  <2> QED  BY <2>1 DEF CallbackInv, CallbackTypeOK, PressOK
<1>5. ASSUME NEW p \in Presses,
             Callback!Webhook(p) \/ Callback!NoService(p) \/ Callback!Answer(p) \/ Callback!ServiceGrant(p) \/ Callback!Simulate(p)
               \/ Callback!Ignore(p) \/ Callback!Accept(p) \/ Callback!Execute(p)
      PROVE  CallbackInv'
  <2>0. press[p] \in Rows /\ PressOK(press[p])
    BY <1>1
  <2>1. grants' = grants /\ Callback!Held(grants') = Callback!Held(grants)
    BY <1>5 DEF Callback!Webhook, Callback!NoService, Callback!Answer, Callback!ServiceGrant,
       Callback!Simulate, Callback!Ignore, Callback!Accept, Callback!Execute
  <2>2. CASE Callback!Webhook(p)
    <3>1. PICK action \in Callback!Actions \cup {"malformed"},
                 answer \in {"unauthorized", "forbidden", "bad_request", "permission_denied",
                             "requires_confirm", "authorized"} :
            press' = [press EXCEPT ![p] =
              [@ EXCEPT !.stage = IF answer = "authorized" THEN "call" ELSE "answered",
                        !.action = action, !.status = answer, !.held = Callback!Held(grants)]]
      BY <2>2 DEF Callback!Webhook, Callback!HandleAction
    <3>2. PICK r :
            /\ r = [press[p] EXCEPT !.stage = IF answer = "authorized" THEN "call" ELSE "answered",
                           !.action = action, !.status = answer, !.held = Callback!Held(grants)]
            /\ press' = [press EXCEPT ![p] = r]
            /\ press[p].stage = "new"
            /\ state' = state
      BY <2>2, <3>1 DEF Callback!Webhook, Callback!Is, CallbackInv, CallbackTypeOK
    <3>3. /\ r \in Rows /\ r.stage \in {"call", "answered"} /\ r.ends = press[p].ends
          /\ r.status = answer /\ r.held = Callback!Held(grants)
      BY <1>2, <2>0, <3>1, <3>2 DEF Rows
    <3>4. PressOK(r)'
      BY <1>2, <2>0, <2>1, <3>1, <3>2, <3>3 DEF PressOK
    <3> QED  BY <2>1, <3>2, <3>3, <3>4, PressSteps
  <2>3. CASE Callback!NoService(p)
    <3>1. PICK r :
            /\ r = [press[p] EXCEPT !.stage = "answered", !.status = "failed_precondition"]
            /\ press' = [press EXCEPT ![p] = r]
            /\ press[p].stage = "call"
            /\ state' = state
      BY <2>3 DEF Callback!NoService, Callback!Is, CallbackInv, CallbackTypeOK
    <3>2. r \in Rows /\ PressOK(r)'
      BY <2>0, <2>1, <3>1 DEF Rows, PressOK
    <3> QED  BY <2>1, <3>1, <3>2, PressSteps
  <2>4. CASE Callback!Answer(p)
    <3>1. PICK s \in {"completed", "failed_precondition"} :
            /\ s = "completed" => press[p].ends = "completed"
            /\ press' = [press EXCEPT ![p].status = s]
      BY <2>4 DEF Callback!Answer
    <3>2. PICK r :
            /\ r = [press[p] EXCEPT !.status = s]
            /\ press' = [press EXCEPT ![p] = r]
            /\ press[p].stage \notin {"new", "call"}
            /\ state' = state
      BY <2>4, <3>1 DEF Callback!Answer, CallbackInv, CallbackTypeOK
    <3>3. r \in Rows /\ PressOK(r)'
      BY <2>0, <2>1, <3>1, <3>2 DEF Rows, PressOK
    <3> QED  BY <2>1, <3>2, <3>3, PressSteps
  <2>5. CASE Callback!ServiceGrant(p)
    <3> DEFINE a == press[p].action
    <3>1. PICK r :
            /\ press' = [press EXCEPT ![p] = r]
            /\ \/ r = [press[p] EXCEPT !.stage = "permitted"] /\ Callback!Permits(a)
               \/ r = [press[p] EXCEPT !.stage = "over", !.ends = "rejected"]
      BY <2>5 DEF Callback!ServiceGrant, Callback!Reaches, Callback!Ends
    <3>2. press[p].stage = "call" /\ state' = state
      BY <2>5 DEF Callback!ServiceGrant, Callback!Is
    <3>3. Callback!Permits(a) => Callback!Held(grants) >= Needed(a)
      BY <1>2, CurrentHeld DEF Callback!Permits, Needed, Callback!MinimumTier, CallbackInv
    <3>4. Callback!Held(grants) >= Needed(a) => press[p].held >= Needed(a)
      BY <1>2, <2>0, <3>2 DEF Rows, PressOK, Needed, Callback!MinimumTier
    <3>5. r \in Rows /\ PressOK(r)'
      BY <2>0, <2>1, <3>1, <3>2, <3>3, <3>4 DEF Rows, PressOK
    <3> QED  BY <2>1, <3>1, <3>2, <3>5, PressSteps
  <2>6. CASE Callback!Simulate(p)
    <3>1. PICK how \in {"completed", "rejected"} : Callback!Ends(p, how)
      BY <2>6 DEF Callback!Simulate
    <3>2. PICK r :
            /\ r = [press[p] EXCEPT !.stage = "over", !.ends = how]
            /\ press' = [press EXCEPT ![p] = r]
            /\ press[p].stage = "permitted"
         
            /\ press[p].action = "simulate"
            /\ state' = state
      BY <2>6, <3>1 DEF Callback!Simulate, Callback!Is, Callback!Ends, CallbackInv, CallbackTypeOK
    <3>3. r \in Rows /\ PressOK(r)'
      BY <2>0, <2>1, <3>1, <3>2 DEF Rows, PressOK
    <3> QED  BY <2>1, <3>2, <3>3, PressSteps
  <2>7. CASE Callback!Ignore(p)
    <3>1. PICK how \in {"completed", "rejected"} :
            Callback!Ends(p, how) /\ (how = "completed" => state \in {"surfaced", "ignored"})
      BY <2>7 DEF Callback!Ignore
    <3>2. PICK r :
            /\ r = [press[p] EXCEPT !.stage = "over", !.ends = how]
            /\ press' = [press EXCEPT ![p] = r]
            /\ press[p].stage = "permitted"
         
            /\ press[p].action = "ignore"
            /\ state' = (IF state = "surfaced" THEN "ignored" ELSE state)
      BY <2>7, <3>1 DEF Callback!Ignore, Callback!Is, Callback!Ends, CallbackInv, CallbackTypeOK
    <3>3. r \in Rows /\ PressOK(r)'
      BY <2>0, <2>1, <3>1, <3>2 DEF Rows, PressOK
    <3> QED  BY <2>1, <3>2, <3>3, PressSteps
  <2>8. CASE Callback!Accept(p)
    <3>1. PICK r :
            /\ press' = [press EXCEPT ![p] = r]
            /\ \/ r = [press[p] EXCEPT !.stage = "accepted"]
               \/ r = [press[p] EXCEPT !.stage = "over", !.ends = "rejected"]
      BY <2>8 DEF Callback!Accept, Callback!Reaches, Callback!Ends
    <3>2. press[p].stage = "permitted" /\ press[p].action = "execute"
          /\ (state \in {"executed", "ignored"} => state' = state)
      BY <2>8 DEF Callback!Accept, Callback!Is
    <3>3. r \in Rows /\ PressOK(r)'
      BY <2>0, <2>1, <3>1, <3>2 DEF Rows, PressOK
    <3> QED  BY <2>1, <3>1, <3>2, <3>3, PressSteps
  <2>9. CASE Callback!Execute(p)
    <3>1. PICK how \in {"completed", "rejected"} :
            Callback!Ends(p, how) /\ (how = "completed" => state' = "executed")
      BY <2>9 DEF Callback!Execute
    <3>2. PICK r :
            /\ r = [press[p] EXCEPT !.stage = "over", !.ends = how]
            /\ press' = [press EXCEPT ![p] = r]
            /\ press[p].stage = "accepted"
         
            /\ (state \in {"executed", "ignored"} => state' = state)
      BY <2>9, <3>1 DEF Callback!Execute, Callback!Is, Callback!Ends, CallbackInv, CallbackTypeOK
    <3>3. r \in Rows /\ PressOK(r)'
      BY <2>0, <2>1, <3>1, <3>2 DEF Rows, PressOK
    <3> QED  BY <2>1, <3>2, <3>3, PressSteps
  <2> QED  BY <1>5, <2>2, <2>3, <2>4, <2>5, <2>6, <2>7, <2>8, <2>9
<1>6. CASE UNCHANGED Callback!vars
  <2>1. grants' = grants /\ press' = press /\ state' = state
    BY <1>6 DEF Callback!vars
  <2> QED  BY <2>1 DEF CallbackInv, CallbackTypeOK, PressOK
<1> QED  BY <1>3, <1>4, <1>5, <1>6 DEF Callback!Next

\* A button acts with the authority its presser had and is told what it did.
THEOREM CallbacksAreSound == Callback!CallbackAssumption => (Callback!Spec => []Callback!CallbacksSound)
<1> SUFFICES ASSUME Callback!CallbackAssumption PROVE Callback!Spec => []Callback!CallbacksSound
  OBVIOUS
<1>1. Callback!Init => CallbackInv
  BY CallbackInit
<1>2. CallbackInv /\ [Callback!Next]_(Callback!vars) => CallbackInv'
  BY CallbackNext
<1>3. CallbackInv => Callback!CallbacksSound
  BY DEF CallbackInv, PressOK, Callback!CallbacksSound, Callback!ToldIsDone,
     Callback!DoneWithGrant, Callback!Told, Needed
<1> QED  BY <1>1, <1>2, <1>3, PTL DEF Callback!Spec

-----------------------------------------------------------------------------
(* AuthorityStores: what evaluate() allows, and the stores for any users,   *)
(* amounts, validities and bounds.                                         *)

CapsStates == {"draft", "active", "superseded"}
CapsVersions == [limits : Stores!Limits, state : CapsStates]
UseRecords == [user : Users, action : ChallengeActions, at : Nat]
Challenges == [user : Users, action : ChallengeActions, expires : Nat,
               consumed : BOOLEAN, uses : Seq(UseRecords)]

StoresTypeOK ==
  /\ store \in {"grants", "caps", "challenges", "session"}
  /\ now \in Nat
  /\ grant.actor = Holder /\ grant.kind \in Stores!Kinds /\ grant.tier \in Stores!Tiers /\ grant.expiry = 3
  /\ versions \in Seq(CapsVersions)
  /\ active \in 0 .. Len(versions)
  /\ challenges \in Seq(Challenges)

\* The version that is active is the one the store names.
ActiveIsNamed == \A v \in DOMAIN versions : versions[v].state = "active" <=> v = active

\* A challenge that is not used up has no use: that is what keeps a second one
\* out.
UnusedUntilConsumed == \A k \in DOMAIN challenges :
  ~challenges[k].consumed => challenges[k].uses = << >>

StoresInv == StoresTypeOK /\ ActiveIsNamed /\ UnusedUntilConsumed /\ Stores!ChallengesUsedOnce

\* The tier an action needs is one of the tiers.
LEMMA MinimumTierType == \A action \in Stores!Actions : Stores!MinimumTier(action) \in Stores!Tiers
<1> SUFFICES ASSUME NEW action \in Stores!Actions PROVE Stores!MinimumTier(action) \in Stores!Tiers
  OBVIOUS
<1>1. \E n \in Stores!Tiers : action \in Stores!ActionsOf(n)
  BY DEF Stores!Actions
<1> QED  BY <1>1 DEF Stores!MinimumTier

\* What evaluate() allows, it allows the grant's own actor and kind, on a grant
\* that is active and permits the action, at a tier that reaches it - the lower
\* of the grant's and the session's for a human, who needs a session - and with
\* the step-up and the confirmation the tier asks for; never what is denied
\* before the grant is looked at.
THEOREM AllowedOnlyInside ==
  ASSUME NEW actor, NEW kind \in Stores!Kinds, NEW held, held.tier \in Stores!Tiers,
         NEW action \in Stores!Actions, NEW ctx, ctx.sessionTier \in Nat,
         Stores!Evaluate(actor, kind, held, action, ctx) = "Allow"
  PROVE  /\ action \notin Stores!HardDenied
         /\ held.actor = actor /\ held.kind = kind
         /\ Stores!IsActive(held, ctx.now) /\ Stores!PermitsScope(held, action)
         /\ Stores!MinimumTier(action) <= held.tier
         /\ kind = "human" => Stores!MinimumTier(action) <= ctx.sessionTier /\ ctx.sessionTier # 0
         /\ action = "WalletTransfer" /\ ctx.aboveThreshold =>
              kind = "human" /\ ctx.freshApproval /\ ctx.stepUp
         /\ action = "ApplySelfImprovement" => kind = "human"
         /\ Stores!NeedsStepUp(action, ctx) => ctx.stepUp
         /\ Stores!NeedsConfirmation(Stores!EffectiveTier(kind, held, ctx), action) => ctx.confirmed
<1> DEFINE tier == Stores!EffectiveTier(kind, held, ctx)
<1>1. /\ ~Stores!StructurallyDenied(kind, action, ctx)
      /\ ~Stores!GrantDenies(actor, kind, held, action, ctx)
      /\ ~(tier < Stores!MinimumTier(action))
  BY DEF Stores!Evaluate
<1>2. /\ ~(Stores!NeedsStepUp(action, ctx) /\ ~ctx.stepUp)
      /\ ~(Stores!NeedsConfirmation(tier, action) /\ ~ctx.confirmed)
  BY <1>1 DEF Stores!Evaluate
<1>3. /\ tier \in Nat /\ tier <= held.tier
      /\ kind = "human" => tier <= ctx.sessionTier
  BY DEF Stores!EffectiveTier, Stores!LowerTier, Stores!Tiers
<1>4. Stores!MinimumTier(action) \in Nat /\ Stores!MinimumTier(action) <= tier
  BY <1>1, <1>3, MinimumTierType DEF Stores!Tiers
<1>5. /\ Stores!MinimumTier(action) <= held.tier
      /\ kind = "human" => Stores!MinimumTier(action) <= ctx.sessionTier
  BY <1>3, <1>4 DEF Stores!Tiers
<1>6. /\ held.actor = actor /\ held.kind = kind
      /\ Stores!IsActive(held, ctx.now) /\ Stores!PermitsScope(held, action)
      /\ kind = "human" => ctx.sessionTier # 0
  BY <1>1 DEF Stores!GrantDenies
<1>7. /\ action \notin Stores!HardDenied
      /\ action = "WalletTransfer" /\ ctx.aboveThreshold =>
           kind = "human" /\ ctx.freshApproval /\ ctx.stepUp
      /\ action = "ApplySelfImprovement" => kind = "human"
  BY <1>1 DEF Stores!StructurallyDenied
<1> QED  BY <1>2, <1>5, <1>6, <1>7

-----------------------------------------------------------------------------
LEMMA StoresInit == Stores!StoresAssumption /\ Stores!Init => StoresInv
<1> SUFFICES ASSUME Stores!StoresAssumption, Stores!Init PROVE StoresInv
  OBVIOUS
<1>1. /\ DOMAIN versions = {} /\ DOMAIN challenges = {}
      /\ versions = << >> /\ challenges = << >> /\ active = 0 /\ now = 1
  BY DEF Stores!Init
<1>2. grant.actor = Holder /\ grant.kind \in Stores!Kinds /\ grant.tier \in Stores!Tiers /\ grant.expiry = 3
  BY DEF Stores!Init, Stores!Grant
<1>3. StoresTypeOK
  BY <1>1, <1>2 DEF StoresTypeOK, Stores!Init
<1>4. ActiveIsNamed /\ UnusedUntilConsumed /\ Stores!ChallengesUsedOnce
  BY <1>1 DEF ActiveIsNamed, UnusedUntilConsumed, Stores!ChallengesUsedOnce
<1> QED  BY <1>3, <1>4 DEF StoresInv

\* A challenge without a use has one when it is used up, its own user's and
\* action's, and before it is stale if it was not stale.
LEMMA UsedOnce ==
  ASSUME NEW c \in Challenges, c.uses = << >>, now \in Nat, now < c.expires,
         NEW user, user = c.user, NEW action, action = c.action
  PROVE  LET d == Stores!Used(c, user, action) IN
           /\ d \in Challenges /\ d.consumed /\ Len(d.uses) <= 1
           /\ \A j \in DOMAIN d.uses : /\ d.uses[j].user = d.user /\ d.uses[j].action = d.action
                                       /\ d.uses[j].at < d.expires
<1> DEFINE use == [user |-> user, action |-> action, at |-> now]
<1>1. /\ c = [user |-> c.user, action |-> c.action, expires |-> c.expires,
              consumed |-> c.consumed, uses |-> c.uses]
      /\ c.user \in Users /\ c.action \in ChallengeActions /\ c.expires \in Nat
  BY DEF Challenges
<1>2. use \in UseRecords /\ use.user = c.user /\ use.action = c.action /\ use.at < c.expires
  BY <1>1 DEF UseRecords
<1>3. Stores!Used(c, user, action) = [c EXCEPT !.consumed = TRUE, !.uses = Append(c.uses, use)]
  BY DEF Stores!Used
<1> HIDE DEF use
<1>4. Append(c.uses, use) = <<use>> /\ <<use>> \in Seq(UseRecords)
  BY <1>2
<1>5. Stores!Used(c, user, action) = [user |-> c.user, action |-> c.action, expires |-> c.expires,
                               consumed |-> TRUE, uses |-> <<use>>]
  BY <1>1, <1>3, <1>4
<1>6. Stores!Used(c, user, action) \in Challenges
  BY <1>1, <1>4, <1>5 DEF Challenges
<1> QED  BY <1>2, <1>5, <1>6

LEMMA StoresNext == Stores!StoresAssumption /\ StoresInv /\ [Stores!Next]_(Stores!vars) => StoresInv'
<1> SUFFICES ASSUME Stores!StoresAssumption, StoresInv, [Stores!Next]_(Stores!vars) PROVE StoresInv'
  OBVIOUS
<1> USE DEF StoresInv
<1>1. ASSUME UNCHANGED <<store, versions, active, challenges>>,
             now' \in Nat,
             /\ grant'.actor = grant.actor /\ grant'.kind = grant.kind
             /\ grant'.tier = grant.tier /\ grant'.expiry = grant.expiry
      PROVE  StoresInv'
  BY <1>1 DEF StoresTypeOK, ActiveIsNamed, UnusedUntilConsumed, Stores!ChallengesUsedOnce
<1>2. CASE Stores!Draft
  <2>1. PICK l \in Stores!Limits : versions' = Append(versions, [limits |-> l, state |-> "draft"])
    BY <1>2 DEF Stores!Draft
  <2>2. UNCHANGED <<store, now, grant, active, challenges>>
    BY <1>2 DEF Stores!Draft
  <2> DEFINE n == Len(versions) + 1
  <2>3. /\ versions' \in Seq(CapsVersions)
        /\ Len(versions') = n /\ DOMAIN versions' = 1 .. n
        /\ \A v \in 1 .. Len(versions) : versions'[v] = versions[v]
        /\ versions'[n].state = "draft"
        /\ DOMAIN versions = 1 .. Len(versions) /\ Len(versions) \in Nat
    <3>1. [limits |-> l, state |-> "draft"] \in CapsVersions
      BY DEF CapsVersions, CapsStates
    <3> QED  BY <2>1, <3>1 DEF StoresTypeOK
  <2>4. StoresTypeOK'
    BY <2>2, <2>3 DEF StoresTypeOK
  <2>5. ActiveIsNamed'
    <3>1. active # n
      BY <2>3 DEF StoresTypeOK
    <3>2. ASSUME NEW v \in DOMAIN versions'
          PROVE  versions'[v].state = "active" <=> v = active
      <4>1. CASE v \in 1 .. Len(versions)
        BY <2>3, <4>1 DEF ActiveIsNamed
      <4>2. CASE v = n
        BY <2>3, <3>1, <4>2
      <4> QED  BY <2>3, <4>1, <4>2
    <3> QED  BY <2>2, <3>2 DEF ActiveIsNamed
  <2> QED
    BY <2>2, <2>4, <2>5 DEF UnusedUntilConsumed, Stores!ChallengesUsedOnce
<1>3. ASSUME NEW v \in DOMAIN versions, NEW kind \in Stores!Kinds, NEW stepUp \in BOOLEAN,
             Stores!Activate(v, kind, stepUp)
      PROVE  StoresInv'
  <2>1. /\ DOMAIN versions' = DOMAIN versions
        /\ \A k \in DOMAIN versions :
             versions'[k] = IF k = v THEN [versions[k] EXCEPT !.state = "active"]
                            ELSE IF k = active THEN [versions[k] EXCEPT !.state = "superseded"]
                            ELSE versions[k]
        /\ active' = v
        /\ UNCHANGED <<store, now, grant, challenges>>
    BY <1>3 DEF Stores!Activate
  <2>2. \A k \in DOMAIN versions : versions[k] \in CapsVersions
    BY DEF StoresTypeOK
  <2>3. \A k \in DOMAIN versions :
          /\ versions'[k] \in CapsVersions
          /\ versions'[k].state = "active" <=> k = v
    BY <2>1, <2>2 DEF ActiveIsNamed, CapsVersions, CapsStates
  <2>4. /\ DOMAIN versions = 1 .. Len(versions) /\ Len(versions) \in Nat
        /\ versions' = [k \in 1 .. Len(versions) |-> versions'[k]]
    BY <1>3 DEF StoresTypeOK, Stores!Activate
  <2>5. /\ versions' \in Seq(CapsVersions)
        /\ Len(versions') = Len(versions)
    BY <2>1, <2>3, <2>4
  <2>6. StoresTypeOK'
    BY <2>1, <2>4, <2>5 DEF StoresTypeOK
  <2>7. ActiveIsNamed'
    BY <2>1, <2>3 DEF ActiveIsNamed
  <2> QED
    BY <2>1, <2>6, <2>7 DEF UnusedUntilConsumed, Stores!ChallengesUsedOnce
<1>4. ASSUME NEW user \in Users, NEW action \in ChallengeActions, Stores!Issue(user, action)
      PROVE  StoresInv'
  <2> DEFINE n == Len(challenges) + 1
             c == [user |-> user, action |-> action, expires |-> now + StepUpValidity,
                   consumed |-> FALSE, uses |-> << >>]
  <2>1. challenges' = Append(challenges, c) /\ UNCHANGED <<store, now, grant, versions, active>>
    BY <1>4 DEF Stores!Issue
  <2>2. c \in Challenges /\ c.uses = << >>
    BY DEF StoresTypeOK, Stores!StoresAssumption, Challenges
  <2>3. /\ challenges' \in Seq(Challenges)
        /\ DOMAIN challenges' = 1 .. n /\ DOMAIN challenges = 1 .. Len(challenges)
        /\ \A k \in 1 .. Len(challenges) : challenges'[k] = challenges[k]
        /\ challenges'[n] = c
        /\ Len(challenges) \in Nat
    BY <2>1, <2>2 DEF StoresTypeOK
  <2> HIDE DEF c
  <2>4. \A k \in DOMAIN challenges' : k \in DOMAIN challenges \/ k = n
    BY <2>3
  <2>5. UnusedUntilConsumed'
    BY <2>2, <2>3, <2>4 DEF UnusedUntilConsumed
  <2>6. Stores!ChallengesUsedOnce'
    BY <2>2, <2>3, <2>4 DEF Stores!ChallengesUsedOnce
  <2> QED  BY <2>1, <2>3, <2>5, <2>6 DEF StoresTypeOK, ActiveIsNamed
<1>5. ASSUME NEW k \in DOMAIN challenges, NEW user \in Users, NEW action \in ChallengeActions,
             NEW step \in 0 .. MaxTime, Stores!Consume(k, user, action, Stores!VerifyTotp(step, now))
      PROVE  StoresInv'
  <2> DEFINE c == challenges[k]
             d == Stores!Used(c, user, action)
  <2>1. /\ c.user = user /\ c.action = action /\ ~c.consumed /\ now < c.expires
        /\ challenges' = [challenges EXCEPT ![k] = d]
        /\ UNCHANGED <<store, now, grant, versions, active>>
    BY <1>5 DEF Stores!Consume
  <2>2. c \in Challenges /\ c.uses = << >> /\ now \in Nat
    BY <2>1 DEF StoresTypeOK, UnusedUntilConsumed
  <2> HIDE DEF c
  <2>3. /\ d \in Challenges /\ d.consumed /\ Len(d.uses) <= 1
        /\ \A j \in DOMAIN d.uses : /\ d.uses[j].user = d.user /\ d.uses[j].action = d.action
                                    /\ d.uses[j].at < d.expires
    BY <2>1, <2>2, UsedOnce
  <2> HIDE DEF d
  <2>4. /\ DOMAIN challenges' = DOMAIN challenges /\ challenges'[k] = d
        /\ \A q \in DOMAIN challenges \ {k} : challenges'[q] = challenges[q]
        /\ challenges' \in Seq(Challenges)
    BY <2>1, <2>3 DEF StoresTypeOK, c
  <2>5. UnusedUntilConsumed' /\ Stores!ChallengesUsedOnce'
    BY <2>3, <2>4 DEF UnusedUntilConsumed, Stores!ChallengesUsedOnce
  <2> QED  BY <2>1, <2>4, <2>5 DEF StoresTypeOK, ActiveIsNamed
<1>6. CASE Stores!Tick \/ Stores!Revoke \/ Stores!Touch \/ Stores!RevokeSession \/ Stores!LoginFails \/ Stores!LoginSucceeds
  <2>1. CASE Stores!Revoke
    BY <1>1, <2>1 DEF Stores!Revoke, StoresTypeOK
  <2>2. CASE ~Stores!Revoke
    BY <1>1, <1>6, <2>2
       DEF Stores!Tick, Stores!Touch, Stores!RevokeSession, Stores!LoginFails, Stores!LoginSucceeds, StoresTypeOK
  <2> QED  BY <2>1, <2>2
<1>7. CASE UNCHANGED Stores!vars
  BY <1>1, <1>7 DEF Stores!vars, StoresTypeOK
<1> QED  BY <1>2, <1>3, <1>4, <1>5, <1>6, <1>7 DEF Stores!Next

\* The lower of two limits is within both.
LEMMA CapsTighten == Stores!StoresAssumption /\ StoresInv => Stores!CapsOnlyTighten
<1> SUFFICES ASSUME Stores!StoresAssumption, StoresInv, active # 0 PROVE Stores!CapsOnlyTighten
  BY DEF Stores!CapsOnlyTighten
<1>1. active \in DOMAIN versions
  BY DEF StoresInv, StoresTypeOK
<1>2. \A v \in DOMAIN versions :
        versions[v].limits.perOrder \in Nat /\ versions[v].limits.daily \in Nat
  <2>1. \A v \in DOMAIN versions : versions[v] \in CapsVersions
    BY DEF StoresInv, StoresTypeOK
  <2> QED  BY <2>1 DEF CapsVersions, Stores!Limits, Stores!StoresAssumption
<1>3. {v \in DOMAIN versions : versions[v].state = "active"} = {active}
  BY <1>1 DEF StoresInv, ActiveIsNamed
<1>4. ASSUME NEW v \in DOMAIN versions,
             NEW l \in {versions[v].limits, versions[active].limits}
      PROVE  Stores!ExecutionLimits(v).perOrder <= l.perOrder /\ Stores!ExecutionLimits(v).daily <= l.daily
  BY <1>1, <1>2 DEF Stores!ExecutionLimits, Stores!LowerOf, Stores!Lesser
<1> QED  BY <1>3, <1>4 DEF Stores!CapsOnlyTighten

\* The policy's promise to the grants of the store, from what evaluate() allows.
LEMMA PolicyHolds == StoresInv => Stores!PolicySound
<1> SUFFICES ASSUME StoresInv, NEW user \in Users, NEW action \in Stores!Actions, NEW ctx \in Stores!Contexts,
                    Stores!Evaluate(user, grant.kind, grant, action, ctx) = "Allow"
             PROVE  /\ user = Holder
                    /\ action \notin Stores!HardDenied /\ ~grant.revoked /\ now < grant.expiry
                    /\ grant.kind = "human" => ctx.sessionTier >= Stores!MinimumTier(action)
                    /\ action = "SubmitLiveOrder" /\ ctx.historyDays < 30 => ctx.stepUp
                    /\ action = "SubmitLiveOrder" /\ grant.kind # "human" /\ grant.tier = 4 =>
                         ctx.confirmed
  BY DEF Stores!PolicySound
<1>1. /\ grant.actor = Holder /\ grant.kind \in Stores!Kinds /\ grant.tier \in Stores!Tiers /\ grant.expiry = 3
      /\ ctx.now = now /\ ctx.sessionTier \in Nat
  BY DEF StoresInv, StoresTypeOK, Stores!Contexts
<1>2. /\ action \notin Stores!HardDenied /\ grant.actor = user /\ Stores!IsActive(grant, ctx.now)
      /\ grant.kind = "human" => Stores!MinimumTier(action) <= ctx.sessionTier
      /\ Stores!NeedsStepUp(action, ctx) => ctx.stepUp
      /\ Stores!NeedsConfirmation(Stores!EffectiveTier(grant.kind, grant, ctx), action) => ctx.confirmed
  BY <1>1, AllowedOnlyInside
<1>3. ~grant.revoked /\ now < grant.expiry
  BY <1>1, <1>2 DEF Stores!IsActive
<1>4. grant.kind = "human" => ctx.sessionTier >= Stores!MinimumTier(action)
  BY <1>1, <1>2, MinimumTierType DEF Stores!Tiers
<1>5. action = "SubmitLiveOrder" /\ ctx.historyDays < 30 => ctx.stepUp
  BY <1>2 DEF Stores!NeedsStepUp
<1>6. action = "SubmitLiveOrder" /\ grant.kind # "human" /\ grant.tier = 4 => ctx.confirmed
  BY <1>2 DEF Stores!NeedsConfirmation, Stores!EffectiveTier
<1> QED  BY <1>1, <1>2, <1>3, <1>4, <1>5, <1>6

\* The stores' promise, whatever is drafted, activated, issued, consumed or
\* revoked in between: what evaluate() allows, what an order executes under and
\* what a challenge is good for.
THEOREM StoresAreSound ==
  Stores!StoresAssumption => (Stores!Spec => [](Stores!PolicySound /\ Stores!CapsOnlyTighten /\ Stores!ChallengesUsedOnce))
<1> SUFFICES ASSUME Stores!StoresAssumption
             PROVE  Stores!Spec => [](Stores!PolicySound /\ Stores!CapsOnlyTighten /\ Stores!ChallengesUsedOnce)
  OBVIOUS
<1>1. Stores!Init => StoresInv
  BY StoresInit
<1>2. StoresInv /\ [Stores!Next]_(Stores!vars) => StoresInv'
  BY StoresNext
<1>3. StoresInv => Stores!PolicySound /\ Stores!CapsOnlyTighten /\ Stores!ChallengesUsedOnce
  BY CapsTighten, PolicyHolds DEF StoresInv
<1> QED  BY <1>1, <1>2, <1>3, PTL DEF Stores!Spec

-----------------------------------------------------------------------------
(* AlertDelivery: AlertsSound for any topic, limit, window and timeout.  The *)
(* claims of an alert that the history answered for are kept apart by the  *)
(* claim timeout; the passes in memory are the latest of this life.        *)

TaskStates == {"wait", "evaluate", "record", "send", "sent", "failed", "commit", "dead"}
AlertRows  == [status : {"none", "pending", "sent", "failed"}, at : Int]

AlertTypeOK ==
  /\ now \in Int /\ crashes \in Int /\ committed \in Nat
  /\ task \in [pc : TaskStates, opp : Nat, claimed : BOOLEAN]
  /\ task.pc # "wait" => task.opp \in Alerts!Messages
  /\ task.pc = "wait" => task.opp = 0
  /\ passes \in Seq(Int)
  /\ row \in [Alerts!Messages -> AlertRows]
  /\ sent \in [Alerts!Messages -> Seq(Int)]
  /\ evaluated \in Seq([at : Int, life : Int])

\* A claim at time t is later than each at which o was sent, by more than the
\* time after which a claim is lost.
Older(o, t) == \A i \in DOMAIN sent[o] : t - sent[o][i] > ClaimTimeout

Apart(o) ==
  \A i, j \in DOMAIN sent[o] : i < j => sent[o][j] - sent[o][i] > ClaimTimeout

\* The row of an alert that the history always answered for.
ClaimOK(o) ==
  /\ Apart(o)
  /\ row[o].status = "none" => sent[o] = << >>
  /\ row[o].status = "pending" =>
       /\ row[o].at <= now
       /\ \A i \in DOMAIN sent[o] : \/ sent[o][i] = row[o].at
                                    \/ row[o].at - sent[o][i] > ClaimTimeout
  /\ row[o].status = "failed" => row[o].at <= now /\ Older(o, row[o].at)
  /\ task.opp = o /\ task.pc \in {"send", "failed"} =>
       row[o].status = "pending" /\ Older(o, row[o].at)
  /\ task.opp = o /\ task.pc = "sent" => row[o].status = "pending"

\* The passes in memory are the last ones of this life, and those of this life
\* that were dropped are outside the window.
PassesOK ==
  LET gone == Len(evaluated) - Len(passes) IN
  /\ gone >= 0
  /\ \A i \in 1 .. Len(passes) :
       evaluated[gone + i].at = passes[i] /\ evaluated[gone + i].life = crashes
  /\ \A i \in 1 .. gone : evaluated[i].life = crashes => evaluated[i].at < now - RateWindow
  /\ \A i \in DOMAIN evaluated : evaluated[i].life <= crashes

AlertInv ==
  /\ AlertTypeOK
  /\ \A o \in Alerts!Messages \ unclaimed : ClaimOK(o)
  /\ PassesOK
  /\ Alerts!RateHeld

LEMMA AlertInit == Alerts!AlertAssumption /\ Alerts!Init => AlertInv
<1> SUFFICES ASSUME Alerts!AlertAssumption, Alerts!Init PROVE AlertInv
  OBVIOUS
<1>1. AlertTypeOK
  BY DEF Alerts!Init, Alerts!AlertAssumption, AlertTypeOK, Alerts!Waiting, Alerts!NoRow,
     Alerts!Never, TaskStates, AlertRows, Alerts!Messages
<1>2. \A o \in Alerts!Messages \ unclaimed : ClaimOK(o)
  BY DEF Alerts!Init, ClaimOK, Apart, Older, Alerts!NoRow, Alerts!Waiting, Alerts!Messages
<1>3. PassesOK /\ Alerts!RateHeld
  BY DEF Alerts!Init, PassesOK, Alerts!RateHeld
<1> QED  BY <1>1, <1>2, <1>3 DEF AlertInv

\* Nothing of an alert's claims changes, and no alert is handed to the channel.
LEMMA ClaimsStay ==
  ASSUME AlertTypeOK, NEW o \in Alerts!Messages, ClaimOK(o), now' \in Int, now' >= now,
         row'[o] = row[o], sent'[o] = sent[o],
         task' = task \/ task'.opp # o \/ task'.pc \notin {"send", "sent", "failed"}
  PROVE  ClaimOK(o)'
<1>1. row[o].at \in Int
  BY DEF AlertTypeOK, AlertRows
<1> QED  BY <1>1 DEF AlertTypeOK, ClaimOK, Apart, Older

LEMMA PassShape ==
  ASSUME AlertTypeOK
  PROVE  /\ Len(passes) \in Nat /\ Len(evaluated) \in Nat
         /\ DOMAIN evaluated = 1 .. Len(evaluated) /\ DOMAIN passes = 1 .. Len(passes)
         /\ \A i \in 1 .. Len(evaluated) : evaluated[i].at \in Int /\ evaluated[i].life \in Int
         /\ \A i \in 1 .. Len(passes) : passes[i] \in Int
         /\ now \in Int /\ crashes \in Int
<1>1. passes \in Seq(Int) /\ now \in Int /\ crashes \in Int
  BY DEF AlertTypeOK
<1>2. PICK R : R = [at : Int, life : Int]
  OBVIOUS
<1>3. evaluated \in Seq(R)
  BY <1>2 DEF AlertTypeOK
<1>4. \A i \in 1 .. Len(evaluated) : evaluated[i] \in R
  BY <1>3
<1>5. \A r \in R : r.at \in Int /\ r.life \in Int
  BY <1>2
<1> QED  BY <1>1, <1>3, <1>4, <1>5

\* The passes stay, while time goes on.
LEMMA PassesStay ==
  ASSUME Alerts!AlertAssumption, AlertTypeOK, PassesOK, Alerts!RateHeld, now' \in Int, now' >= now,
         UNCHANGED <<crashes, passes, evaluated>>
  PROVE  PassesOK' /\ Alerts!RateHeld'
<1>1. now - RateWindow <= now' - RateWindow /\ now - RateWindow \in Int /\ now' - RateWindow \in Int
  BY PassShape DEF Alerts!AlertAssumption
<1>2. ASSUME NEW i \in 1 .. Len(evaluated) - Len(passes), evaluated[i].life = crashes
      PROVE  evaluated[i].at < now' - RateWindow
  <2>1. i \in 1 .. Len(evaluated)
    BY PassShape
  <2>2. evaluated[i].at < now - RateWindow
    BY <1>2 DEF PassesOK
  <2> QED  BY <1>1, <2>1, <2>2, PassShape
<1>3. PassesOK'
  BY <1>2 DEF PassesOK
<1> QED  BY <1>3 DEF Alerts!RateHeld

\* The passes without the oldest k of them.
LEMMA FreshShape ==
  ASSUME AlertTypeOK, NEW k \in 0 .. Len(passes)
  PROVE  \E fresh \in Seq(Int) :
           /\ fresh = SubSeq(passes, k + 1, Len(passes))
           /\ Len(passes) = k + Len(fresh)
           /\ \A i \in 1 .. Len(fresh) : fresh[i] = passes[k + i]
<1>1. passes \in Seq(Int) /\ Len(passes) \in Nat
  BY PassShape DEF AlertTypeOK
<1>2. k \in Nat /\ k <= Len(passes)
  BY <1>1
<1>3. SubSeq(passes, k + 1, Len(passes)) \in Seq(Int)
  BY <1>1, <1>2
<1>4. PICK fresh \in Seq(Int) : fresh = SubSeq(passes, k + 1, Len(passes))
  BY <1>3
<1>5. Len(fresh) = Len(passes) - k
  BY <1>1, <1>2, <1>4
<1>6. \A i \in 1 .. Len(passes) - k : fresh[i] = passes[k + i]
  BY <1>1, <1>2, <1>4
<1>7. Len(passes) = k + Len(fresh)
  BY <1>1, <1>2, <1>5
<1> QED  BY <1>4, <1>5, <1>6, <1>7

\* The oldest k passes are dropped, all outside the window; no alert passes.
LEMMA PassesDropped ==
  ASSUME AlertTypeOK, PassesOK, NEW k \in Nat, Alerts!Stale(k),
         NEW fresh \in Seq(Int), Len(passes) = k + Len(fresh),
         \A i \in 1 .. Len(fresh) : fresh[i] = passes[k + i]
  PROVE  \E gone \in Nat :
           /\ Len(evaluated) = gone + Len(fresh)
           /\ \A i \in 1 .. Len(fresh) :
                evaluated[gone + i].at = fresh[i] /\ evaluated[gone + i].life = crashes
           /\ \A i \in 1 .. gone : evaluated[i].life = crashes => evaluated[i].at < now - RateWindow
<1>1. Len(fresh) \in Nat /\ Len(passes) \in Nat /\ Len(evaluated) \in Nat
  BY PassShape
<1>2. Len(evaluated) - Len(passes) \in Nat
  BY <1>1 DEF PassesOK
<1>3. PICK before \in Nat : before = Len(evaluated) - Len(passes)
  BY <1>2
<1>4. /\ \A i \in 1 .. Len(passes) :
           evaluated[before + i].at = passes[i] /\ evaluated[before + i].life = crashes
      /\ \A i \in 1 .. before : evaluated[i].life = crashes => evaluated[i].at < now - RateWindow
  BY <1>3 DEF PassesOK
<1>5. Len(evaluated) = (before + k) + Len(fresh) /\ before + k \in Nat
  BY <1>1, <1>3
<1>6. ASSUME NEW i \in 1 .. Len(fresh)
      PROVE  /\ evaluated[(before + k) + i].at = fresh[i]
             /\ evaluated[(before + k) + i].life = crashes
  <2>1. k + i \in 1 .. Len(passes) /\ (before + k) + i = before + (k + i)
    BY <1>1
  <2>2. evaluated[before + (k + i)].at = passes[k + i] /\ evaluated[before + (k + i)].life = crashes
    BY <1>4, <2>1
  <2> QED  BY <2>1, <2>2
<1>7. ASSUME NEW i \in 1 .. before + k, evaluated[i].life = crashes
      PROVE  evaluated[i].at < now - RateWindow
  <2>1. CASE i <= before
    <3>1. i \in 1 .. before
      BY <2>1
    <3> QED  BY <1>4, <1>7, <3>1
  <2>2. CASE i > before
    <3>1. i - before \in 1 .. k /\ i - before \in 1 .. Len(passes) /\ i = before + (i - before)
      BY <1>1, <2>2
    <3>2. evaluated[i].at = passes[i - before]
      BY <1>4, <3>1
    <3>3. passes[i - before] < now - RateWindow
      BY <3>1 DEF Alerts!Stale
    <3> QED  BY <3>2, <3>3
  <2> QED  BY <2>1, <2>2
<1> QED  BY <1>5, <1>6, <1>7

LEMMA EvaluatePasses ==
  ASSUME Alerts!AlertAssumption, AlertInv, Alerts!Evaluate
  PROVE  passes' \in Seq(Int) /\ evaluated' \in Seq([at : Int, life : Int]) /\ PassesOK' /\ Alerts!RateHeld'
<1> USE DEF AlertInv
<1>1. CASE UNCHANGED <<passes, evaluated>>
  <2>1. UNCHANGED <<now, crashes>>
    BY DEF Alerts!Evaluate
  <2> QED  BY <1>1, <2>1, PassesStay DEF AlertTypeOK
<1>2. CASE ~UNCHANGED <<passes, evaluated>>
  <2>1. PICK k \in 0 .. Len(passes) :
          LET fresh == SubSeq(passes, k + 1, Len(passes)) IN
          /\ Alerts!Stale(k)
          /\ IF Len(fresh) >= RateLimit
             THEN /\ passes' = fresh
                  /\ task' = [task EXCEPT !.pc = "commit"] /\ UNCHANGED evaluated
             ELSE /\ passes' = Append(fresh, now)
                  /\ evaluated' = Append(evaluated, [at |-> now, life |-> crashes])
                  /\ task' = [task EXCEPT !.pc = "record"]
    BY <1>2 DEF Alerts!Evaluate
  <2>2. PICK fresh \in Seq(Int) : /\ fresh = SubSeq(passes, k + 1, Len(passes))
                                 /\ Len(passes) = k + Len(fresh)
                                 /\ \A i \in 1 .. Len(fresh) : fresh[i] = passes[k + i]
    BY FreshShape
  <2>3. PICK gone \in Nat :
          /\ Len(evaluated) = gone + Len(fresh)
          /\ \A i \in 1 .. Len(fresh) :
               evaluated[gone + i].at = fresh[i] /\ evaluated[gone + i].life = crashes
          /\ \A i \in 1 .. gone : evaluated[i].life = crashes => evaluated[i].at < now - RateWindow
    <3>1. Alerts!Stale(k) /\ k \in Nat
      BY <2>1, PassShape
    <3> QED  BY <2>2, <3>1, PassesDropped
  <2>4. Len(fresh) \in Nat /\ gone = Len(evaluated) - Len(fresh)
    BY <2>3
  <2>5. UNCHANGED <<now, crashes>> /\ now \in Int /\ crashes \in Int
    BY DEF Alerts!Evaluate, AlertTypeOK
  <2>6. \A i \in DOMAIN evaluated : /\ evaluated[i].life <= crashes
                                    /\ evaluated[i].at \in Int /\ evaluated[i].life \in Int
    BY PassShape DEF PassesOK
  <2>7. CASE passes' = fresh /\ evaluated' = evaluated
    <3>1. PassesOK'
      <4>1. crashes' = crashes /\ now' = now /\ gone >= 0
        BY <2>3, <2>5
      <4>2. Len(evaluated') - Len(passes') = gone /\ passes' = fresh /\ evaluated' = evaluated
        BY <2>4, <2>7
      <4> QED  BY <2>3, <2>6, <4>1, <4>2 DEF PassesOK
    <3> QED  BY <2>3, <2>4, <2>7, <3>1 DEF Alerts!RateHeld, AlertTypeOK
  <2>8. CASE /\ ~(Len(fresh) >= RateLimit)
             /\ passes' = Append(fresh, now)
             /\ evaluated' = Append(evaluated, [at |-> now, life |-> crashes])
    <3>1. PICK e \in [at : Int, life : Int] : e = [at |-> now, life |-> crashes]
      BY <2>5
    <3>2. e.at = now /\ e.life = crashes
      BY <3>1
    <3>3. /\ evaluated' \in Seq([at : Int, life : Int])
          /\ Len(evaluated') = Len(evaluated) + 1
          /\ evaluated'[Len(evaluated) + 1] = e
          /\ \A i \in 1 .. Len(evaluated) : evaluated'[i] = evaluated[i]
      BY <2>8, <3>1 DEF AlertTypeOK
    <3>4. /\ passes' \in Seq(Int)
          /\ Len(passes') = Len(fresh) + 1
          /\ passes'[Len(fresh) + 1] = now
          /\ \A i \in 1 .. Len(fresh) : passes'[i] = fresh[i]
      BY <2>3, <2>4, <2>5, <2>8
    <3>5. Len(evaluated') - Len(passes') = gone /\ DOMAIN evaluated = 1 .. Len(evaluated)
          /\ DOMAIN evaluated' = 1 .. Len(evaluated')
      BY <2>3, <2>4, <3>3, <3>4 DEF AlertTypeOK
    <3>6. \A i \in 1 .. Len(passes') :
             evaluated'[gone + i].at = passes'[i] /\ evaluated'[gone + i].life = crashes
      <4> SUFFICES ASSUME NEW i \in 1 .. Len(passes')
                   PROVE  evaluated'[gone + i].at = passes'[i] /\ evaluated'[gone + i].life = crashes
        OBVIOUS
      <4>1. CASE i = Len(fresh) + 1
        <5>1. gone + i = Len(evaluated) + 1
          BY <2>3, <2>4, <4>1
        <5> QED  BY <3>2, <3>3, <3>4, <4>1, <5>1
      <4>2. CASE i <= Len(fresh)
        <5>1. gone + i \in 1 .. Len(evaluated) /\ i \in 1 .. Len(fresh)
          BY <2>3, <2>4, <4>2
        <5> QED  BY <2>3, <2>4, <3>3, <3>4, <5>1
      <4> QED  BY <2>3, <2>4, <3>4, <4>1, <4>2
    <3>7. \A i \in 1 .. gone : evaluated'[i].life = crashes => evaluated'[i].at < now - RateWindow
      <4>1. \A i \in 1 .. gone : i \in 1 .. Len(evaluated)
        BY <2>3, <2>4
      <4> QED  BY <2>3, <2>4, <3>3, <4>1
    <3>8. \A i \in DOMAIN evaluated' : evaluated'[i].life <= crashes
      <4>1. e.life <= crashes
        BY <2>5, <3>2
      <4>2. \A i \in 1 .. Len(evaluated) : evaluated'[i].life <= crashes
        BY <2>6, <3>3, <3>5
      <4>3. \A i \in 1 .. Len(evaluated) + 1 : i = Len(evaluated) + 1 \/ i \in 1 .. Len(evaluated)
        BY PassShape
      <4> QED  BY <3>3, <3>5, <4>1, <4>2, <4>3
    <3>9. PassesOK'
      <4>1. crashes' = crashes /\ now' = now /\ gone >= 0
        BY <2>3, <2>4, <2>5
      <4> QED  BY <3>5, <3>6, <3>7, <3>8, <4>1 DEF PassesOK
    <3>10. Alerts!RateHeld'
      <4> SUFFICES ASSUME NEW i \in 1 .. Len(evaluated) + 1, NEW j \in 1 .. Len(evaluated) + 1,
                          i <= j, evaluated'[i].life = evaluated'[j].life,
                          evaluated'[j].at - evaluated'[i].at <= RateWindow
                   PROVE  j - i + 1 <= RateLimit
        BY <3>3, <3>5 DEF Alerts!RateHeld
      <4>1. CASE j <= Len(evaluated)
        <5>1. /\ i \in DOMAIN evaluated /\ j \in DOMAIN evaluated
              /\ evaluated'[i] = evaluated[i] /\ evaluated'[j] = evaluated[j]
          <6>1. Len(evaluated) \in Nat
            BY <2>3, <2>4
          <6>2. i \in 1 .. Len(evaluated) /\ j \in 1 .. Len(evaluated)
            BY <4>1, <6>1
          <6> QED  BY <3>3, <3>5, <6>2
        <5> QED  BY <5>1 DEF Alerts!RateHeld
      <4>2. CASE j = Len(evaluated) + 1
        <5>1. i > gone
          <6> SUFFICES ASSUME i <= gone PROVE FALSE
            BY <2>3, <2>4
          <6>1. i \in 1 .. gone /\ i \in DOMAIN evaluated /\ evaluated'[i] = evaluated[i]
            <7>1. i \in 1 .. gone /\ i \in 1 .. Len(evaluated)
              BY <2>3, <2>4
            <7> QED  BY <3>3, <3>5, <7>1
          <6>2. evaluated[i].at < now - RateWindow
            BY <2>3, <2>4, <3>2, <3>3, <4>2, <6>1
          <6>3. now - evaluated[i].at <= RateWindow
            BY <3>2, <3>3, <4>2, <6>1
          <6> QED  BY <2>5, <2>6, <6>1, <6>2, <6>3 DEF Alerts!AlertAssumption
        <5>2. Len(fresh) < RateLimit /\ Len(evaluated) = gone + Len(fresh)
          BY <2>3, <2>4, <2>8 DEF Alerts!AlertAssumption
        <5>3. j - i + 1 <= Len(fresh) + 1
          BY <2>3, <2>4, <4>2, <5>1, <5>2
        <5> QED  BY <2>3, <2>4, <4>2, <5>1, <5>2, <5>3 DEF Alerts!AlertAssumption
      <4> QED  BY PassShape, <4>1, <4>2
    <3> QED  BY <3>3, <3>4, <3>9, <3>10
  <2> QED  BY <2>1, <2>2, <2>7, <2>8
<1> QED  BY <1>1, <1>2

\* A claim is taken, of a row that is free or was pending for too long.
LEMMA ClaimTaken ==
  ASSUME Alerts!AlertAssumption, AlertTypeOK, NEW o \in Alerts!Messages, ClaimOK(o), Alerts!Claimable(row[o]),
         row' = [row EXCEPT ![o] = [status |-> "pending", at |-> now]],
         sent' = sent, now' = now, task' = [task EXCEPT !.pc = "send", !.claimed = TRUE]
  PROVE  ClaimOK(o)'
<1>1. row'[o].status = "pending" /\ row'[o].at = now
  BY DEF AlertTypeOK
<1>2. task'.pc = "send" /\ now \in Int
  BY DEF AlertTypeOK
<1>3. \A i \in DOMAIN sent[o] : sent[o][i] \in Int
  BY DEF AlertTypeOK
<1>4. row[o].at \in Int
  BY DEF AlertTypeOK, AlertRows
<1>5. Older(o, now)
  <2>1. CASE row[o].status = "none"
    BY <2>1 DEF ClaimOK, Older
  <2>2. CASE row[o].status = "failed"
    BY <1>2, <1>3, <1>4, <2>2 DEF ClaimOK, Older, Alerts!AlertAssumption
  <2>3. CASE row[o].status = "pending" /\ row[o].at < now - ClaimTimeout
    BY <1>2, <1>3, <1>4, <2>3 DEF ClaimOK, Older, Alerts!AlertAssumption
  <2> QED  BY <2>1, <2>2, <2>3 DEF Alerts!Claimable
<1> QED  BY <1>1, <1>2, <1>3, <1>5 DEF ClaimOK, Apart, Older

\* The channel takes an alert.
LEMMA AlertSent ==
  ASSUME Alerts!AlertAssumption, AlertTypeOK, NEW o \in Alerts!Messages, ClaimOK(o),
         task.opp = o, task.pc = "send", row' = row, now' = now,
         sent' = [sent EXCEPT ![o] = Append(@, row[o].at)], task' = [task EXCEPT !.pc = "sent"]
  PROVE  ClaimOK(o)'
<1>1. /\ sent[o] \in Seq(Int) /\ row[o].at \in Int /\ sent'[o] = Append(sent[o], row[o].at)
      /\ row[o].status = "pending" /\ Older(o, row[o].at)
  BY DEF AlertTypeOK, AlertRows, ClaimOK
<1>2. task'.pc = "sent"
  BY DEF AlertTypeOK
<1>3. /\ Len(sent'[o]) = Len(sent[o]) + 1 /\ sent'[o][Len(sent[o]) + 1] = row[o].at
      /\ \A i \in 1 .. Len(sent[o]) : sent'[o][i] = sent[o][i] /\ sent[o][i] \in Int
      /\ DOMAIN sent'[o] = 1 .. Len(sent[o]) + 1 /\ DOMAIN sent[o] = 1 .. Len(sent[o])
      /\ Len(sent[o]) \in Nat
  BY <1>1
<1>4. Apart(o)'
  <2> SUFFICES ASSUME NEW i \in 1 .. Len(sent[o]) + 1, NEW j \in 1 .. Len(sent[o]) + 1, i < j
               PROVE  sent'[o][j] - sent'[o][i] > ClaimTimeout
    BY <1>3 DEF Apart
  <2>1. i \in 1 .. Len(sent[o])
    BY <1>3
  <2>2. CASE j = Len(sent[o]) + 1
    BY <1>1, <1>3, <2>1, <2>2 DEF Older
  <2>3. CASE j \in 1 .. Len(sent[o])
    BY <1>3, <2>1, <2>3 DEF ClaimOK, Apart
  <2> QED  BY <1>3, <2>2, <2>3
<1>5. \A i \in DOMAIN sent'[o] : sent'[o][i] = row[o].at \/ row[o].at - sent'[o][i] > ClaimTimeout
  BY <1>1, <1>3 DEF Older
<1> QED  BY <1>1, <1>2, <1>4, <1>5 DEF ClaimOK

\* The outcome goes into the row.
LEMMA AlertUpdated ==
  ASSUME Alerts!AlertAssumption, AlertTypeOK, NEW o \in Alerts!Messages, ClaimOK(o),
         task.opp = o, task.pc \in {"sent", "failed"},
         row' = [row EXCEPT ![o] = [status |-> task.pc, at |-> now]],
         sent' = sent, now' = now, task' = [task EXCEPT !.pc = "commit"]
  PROVE  ClaimOK(o)'
<1>1. row'[o].status = task.pc /\ row'[o].at = now
  BY DEF AlertTypeOK
<1>2. task'.pc = "commit" /\ now \in Int /\ row[o].at \in Int
  BY DEF AlertTypeOK, AlertRows
<1>3. \A i \in DOMAIN sent[o] : sent[o][i] \in Int
  BY DEF AlertTypeOK
<1>4. task.pc = "failed" => Older(o, now)
  BY <1>2, <1>3 DEF ClaimOK, Older, Alerts!AlertAssumption
<1> QED  BY <1>1, <1>2, <1>4 DEF ClaimOK, Apart, Older

LEMMA AlertNext == Alerts!AlertAssumption /\ AlertInv /\ [Alerts!Next]_(Alerts!vars) => AlertInv'
<1> SUFFICES ASSUME Alerts!AlertAssumption, AlertInv, [Alerts!Next]_(Alerts!vars) PROVE AlertInv'
  OBVIOUS
<1> USE DEF AlertInv
<1>0. now \in Int /\ crashes \in Int
  BY DEF AlertTypeOK
<1>1. CASE Alerts!Take
  <2>1. task' \in [pc : TaskStates, opp : Nat, claimed : BOOLEAN] /\ task'.opp \in Alerts!Messages /\ task'.pc = "evaluate"
    BY <1>1 DEF Alerts!Take, AlertTypeOK, Alerts!AlertAssumption, Alerts!Messages, TaskStates
  <2>2. AlertTypeOK'
    BY <1>1, <2>1 DEF Alerts!Take, AlertTypeOK
  <2>3. \A o \in Alerts!Messages \ unclaimed' : ClaimOK(o)'
    BY <1>0, <1>1, <2>1, ClaimsStay DEF Alerts!Take
  <2> QED  BY <1>0, <1>1, <2>2, <2>3, PassesStay DEF Alerts!Take
<1>2. CASE Alerts!Evaluate
  <2>1. /\ task' \in [pc : TaskStates, opp : Nat, claimed : BOOLEAN] /\ task'.opp = task.opp
        /\ task'.pc \in {"commit", "record"}
    BY <1>2 DEF Alerts!Evaluate, AlertTypeOK, TaskStates
  <2>2. task.opp \in Alerts!Messages
    BY <1>2 DEF Alerts!Evaluate, AlertTypeOK
  <2>3. UNCHANGED <<now, crashes, committed, row, sent, unclaimed>>
    BY <1>2 DEF Alerts!Evaluate
  <2>4. passes' \in Seq(Int) /\ evaluated' \in Seq([at : Int, life : Int]) /\ PassesOK' /\ Alerts!RateHeld'
    BY <1>2, EvaluatePasses
  <2>5. AlertTypeOK'
    BY <2>1, <2>2, <2>3, <2>4 DEF AlertTypeOK
  <2>6. \A o \in Alerts!Messages \ unclaimed' : ClaimOK(o)'
    BY <1>0, <2>1, <2>3, ClaimsStay
  <2> QED  BY <2>4, <2>5, <2>6
<1>3. CASE Alerts!Record
  <2>1. /\ task' \in [pc : TaskStates, opp : Nat, claimed : BOOLEAN] /\ task'.opp = task.opp
        /\ task'.pc \in {"send", "commit"} /\ task.opp \in Alerts!Messages
    BY <1>3 DEF Alerts!Record, AlertTypeOK, TaskStates
  <2>2. /\ UNCHANGED <<now, crashes, committed, passes, sent, evaluated>>
        /\ unclaimed \subseteq unclaimed'
    BY <1>3 DEF Alerts!Record
  <2>3. row' = row \/ row' = [row EXCEPT ![task.opp] = [status |-> "pending", at |-> now]]
    BY <1>3 DEF Alerts!Record
  <2>4. row' \in [Alerts!Messages -> AlertRows] /\ \A o \in Alerts!Messages : o # task.opp => row'[o] = row[o]
    <3>1. PICK r : r = [status |-> "pending", at |-> now]
      OBVIOUS
    <3>2. r \in AlertRows
      BY <1>0, <2>1, <3>1 DEF AlertRows
    <3>3. row' = row \/ row' = [row EXCEPT ![task.opp] = r]
      BY <2>3, <3>1
    <3> QED  BY <2>1, <3>2, <3>3 DEF AlertTypeOK
  <2>5. AlertTypeOK'
    BY <2>1, <2>2, <2>4 DEF AlertTypeOK
  <2>6. ASSUME NEW o \in Alerts!Messages \ unclaimed' PROVE ClaimOK(o)'
    <3>1. ClaimOK(o)
      BY <2>2
    <3>2. CASE o # task.opp
      BY <1>0, <2>1, <2>2, <2>4, <3>1, <3>2, ClaimsStay
    <3>3. CASE o = task.opp /\ task'.pc = "commit"
      <4>1. row' = row
        <5>1. task'.pc # "send"
          BY <3>3
        <5> QED  BY <1>3, <5>1 DEF Alerts!Record, AlertTypeOK
      <4> QED  BY <1>0, <2>1, <2>2, <3>1, <3>3, <4>1, ClaimsStay
    <3>4. CASE o = task.opp /\ task'.pc = "send"
      <4>1. /\ Alerts!Claimable(row[o]) /\ row' = [row EXCEPT ![o] = [status |-> "pending", at |-> now]]
            /\ task' = [task EXCEPT !.pc = "send", !.claimed = TRUE]
        BY <1>3, <3>4 DEF Alerts!Record, AlertTypeOK
      <4> QED  BY <2>2, <3>1, <4>1, ClaimTaken
    <3> QED  BY <2>1, <3>2, <3>3, <3>4
  <2> QED  BY <1>0, <2>2, <2>5, <2>6, PassesStay
<1>4. CASE Alerts!Send
  <2>1. /\ task.pc = "send" /\ task.opp \in Alerts!Messages
        /\ UNCHANGED <<now, crashes, committed, passes, row, evaluated, unclaimed>>
    BY <1>4 DEF Alerts!Send, AlertTypeOK
  <2>2. \/ /\ sent' = [sent EXCEPT ![task.opp] = Append(@, row[task.opp].at)]
           /\ task' = [task EXCEPT !.pc = "sent"]
        \/ task' = [task EXCEPT !.pc = "failed"] /\ sent' = sent
    BY <1>4 DEF Alerts!Send
  <2>3. /\ task' \in [pc : TaskStates, opp : Nat, claimed : BOOLEAN] /\ task'.opp = task.opp
        /\ task'.pc \in {"sent", "failed"}
    BY <2>2 DEF AlertTypeOK, TaskStates
  <2>4. row[task.opp].at \in Int
    BY <2>1 DEF AlertTypeOK, AlertRows
  <2>5. sent' \in [Alerts!Messages -> Seq(Int)] /\ \A o \in Alerts!Messages : o # task.opp => sent'[o] = sent[o]
    <3>1. sent[task.opp] \in Seq(Int)
      BY <2>1 DEF AlertTypeOK
    <3>2. Append(sent[task.opp], row[task.opp].at) \in Seq(Int)
      BY <2>4, <3>1
    <3>3. sent' = sent \/ sent' = [sent EXCEPT ![task.opp] = Append(sent[task.opp], row[task.opp].at)]
      BY <2>2
    <3> QED  BY <2>1, <3>2, <3>3 DEF AlertTypeOK
  <2>6. AlertTypeOK'
    BY <2>1, <2>3, <2>5 DEF AlertTypeOK
  <2>7. ASSUME NEW o \in Alerts!Messages \ unclaimed' PROVE ClaimOK(o)'
    <3>1. ClaimOK(o)
      BY <2>1
    <3>2. CASE o # task.opp
      BY <1>0, <2>1, <2>3, <2>5, <3>1, <3>2, ClaimsStay
    <3>3. CASE o = task.opp /\ task' = [task EXCEPT !.pc = "failed"] /\ sent' = sent
      <4>1. task'.pc = "failed"
        BY <3>3 DEF AlertTypeOK
      <4> QED  BY <2>1, <3>1, <3>3, <4>1 DEF ClaimOK, Apart, Older
    <3>4. CASE /\ o = task.opp /\ task' = [task EXCEPT !.pc = "sent"]
               /\ sent' = [sent EXCEPT ![task.opp] = Append(@, row[task.opp].at)]
      BY <2>1, <3>1, <3>4, AlertSent
    <3> QED  BY <2>2, <3>2, <3>3, <3>4
  <2> QED  BY <1>0, <2>1, <2>6, <2>7, PassesStay
<1>5. CASE Alerts!Update
  <2>1. /\ task.pc \in {"sent", "failed"} /\ task.opp \in Alerts!Messages
        /\ UNCHANGED <<now, crashes, committed, passes, sent, evaluated, unclaimed>>
    BY <1>5 DEF Alerts!Update, AlertTypeOK
  <2>2. task' = [task EXCEPT !.pc = "commit"]
    BY <1>5 DEF Alerts!Update
  <2>3. /\ task' \in [pc : TaskStates, opp : Nat, claimed : BOOLEAN] /\ task'.opp = task.opp
        /\ task'.pc = "commit"
    BY <2>2 DEF AlertTypeOK, TaskStates
  <2>4. \/ row' = row
        \/ row' = [row EXCEPT ![task.opp] = [status |-> task.pc, at |-> now]]
    BY <1>5 DEF Alerts!Update
  <2>5. row' \in [Alerts!Messages -> AlertRows] /\ \A o \in Alerts!Messages : o # task.opp => row'[o] = row[o]
    <3>1. PICK r : r = [status |-> task.pc, at |-> now]
      OBVIOUS
    <3>2. r \in AlertRows
      BY <1>0, <2>1, <3>1 DEF AlertRows
    <3>3. row' = row \/ row' = [row EXCEPT ![task.opp] = r]
      BY <2>4, <3>1
    <3> QED  BY <2>1, <3>2, <3>3 DEF AlertTypeOK
  <2>6. AlertTypeOK'
    BY <2>1, <2>3, <2>5 DEF AlertTypeOK
  <2>7. ASSUME NEW o \in Alerts!Messages \ unclaimed' PROVE ClaimOK(o)'
    <3>1. ClaimOK(o)
      BY <2>1
    <3>2. CASE o # task.opp \/ row' = row
      BY <1>0, <2>1, <2>3, <2>5, <3>1, <3>2, ClaimsStay
    <3>3. CASE o = task.opp /\ row' = [row EXCEPT ![task.opp] = [status |-> task.pc, at |-> now]]
      BY <2>1, <2>2, <3>1, <3>3, AlertUpdated
    <3> QED  BY <2>4, <3>2, <3>3
  <2> QED  BY <1>0, <2>1, <2>6, <2>7, PassesStay
<1>6. CASE Alerts!Raises \/ Alerts!Commit
  <2>1. UNCHANGED <<now, crashes, passes, row, sent, evaluated, unclaimed>>
    BY <1>6 DEF Alerts!Raises, Alerts!Commit
  <2>2. task' = [task EXCEPT !.pc = "dead"] \/ task' = Alerts!Waiting
    BY <1>6 DEF Alerts!Raises, Alerts!Commit
  <2>3. AlertTypeOK'
    <3>1. Alerts!Waiting \in [pc : TaskStates, opp : Nat, claimed : BOOLEAN] /\ Alerts!Waiting.pc = "wait"
          /\ Alerts!Waiting.opp = 0
      BY DEF Alerts!Waiting, TaskStates
    <3>2. committed' \in Nat
      BY <1>6 DEF Alerts!Raises, Alerts!Commit, AlertTypeOK
    <3>3. CASE task' = Alerts!Waiting
      BY <2>1, <3>1, <3>2, <3>3 DEF AlertTypeOK
    <3>4. CASE Alerts!Raises
      <4>1. task.opp \in Alerts!Messages /\ task' = [task EXCEPT !.pc = "dead"]
        BY <3>4 DEF Alerts!Raises, AlertTypeOK
      <4>2. /\ task' \in [pc : TaskStates, opp : Nat, claimed : BOOLEAN] /\ task'.opp = task.opp
            /\ task'.pc = "dead"
        BY <4>1 DEF AlertTypeOK, TaskStates
      <4> QED  BY <2>1, <3>2, <4>1, <4>2 DEF AlertTypeOK
    <3> QED  BY <1>6, <3>3, <3>4 DEF Alerts!Commit
  <2>4. task'.pc \in {"dead", "wait"}
    BY <2>2 DEF AlertTypeOK, Alerts!Waiting
  <2>5. \A o \in Alerts!Messages \ unclaimed' : ClaimOK(o)'
    BY <1>0, <2>1, <2>4, ClaimsStay
  <2> QED  BY <1>0, <2>1, <2>3, <2>5, PassesStay
<1>7. CASE Alerts!Restart
  <2>1. /\ UNCHANGED <<now, committed, row, sent, evaluated, unclaimed>>
        /\ crashes' = crashes + 1 /\ task' = Alerts!Waiting /\ passes' = << >>
    BY <1>7 DEF Alerts!Restart
  <2>2. task'.pc = "wait" /\ task'.opp = 0 /\ task' \in [pc : TaskStates, opp : Nat, claimed : BOOLEAN]
    BY <2>1 DEF Alerts!Waiting, TaskStates
  <2>3. AlertTypeOK'
    BY <2>1, <2>2 DEF AlertTypeOK
  <2>4. \A o \in Alerts!Messages \ unclaimed' : ClaimOK(o)'
    BY <1>0, <2>1, <2>2, ClaimsStay
  <2>5. \A i \in DOMAIN evaluated : /\ evaluated[i].life <= crashes
                                    /\ evaluated[i].at \in Int /\ evaluated[i].life \in Int
    BY PassShape DEF PassesOK
  <2>6. PassesOK'
    <3>1. Len(passes') = 0 /\ Len(evaluated') = Len(evaluated) /\ evaluated' = evaluated
      BY <2>1
    <3>2. \A i \in 1 .. Len(evaluated) : evaluated[i].life < crashes'
      BY <1>0, <2>1, <2>5, PassShape
    <3>3. \A i \in DOMAIN evaluated : evaluated[i].life <= crashes'
      BY <1>0, <2>1, <2>5
    <3>4. Len(evaluated') - Len(passes') = Len(evaluated) /\ Len(evaluated) \in Nat
      BY <3>1, PassShape
    <3>5. \A i \in 1 .. Len(evaluated) : evaluated[i].life # crashes'
      BY <1>0, <2>1, <2>5, <3>2, PassShape
    <3> QED  BY <3>1, <3>3, <3>4, <3>5 DEF PassesOK
  <2>7. Alerts!RateHeld'
    BY <2>1 DEF Alerts!RateHeld
  <2> QED  BY <2>3, <2>4, <2>6, <2>7
<1>8. CASE Alerts!Tick
  <2>1. UNCHANGED <<crashes, committed, task, passes, row, sent, evaluated, unclaimed>>
    BY <1>8 DEF Alerts!Tick
  <2>2. now' \in Int /\ now' >= now
    BY <1>0, <1>8 DEF Alerts!Tick
  <2>3. \A o \in Alerts!Messages \ unclaimed' : ClaimOK(o)'
    BY <2>1, <2>2, ClaimsStay
  <2> QED  BY <2>1, <2>2, <2>3, PassesStay DEF AlertTypeOK
<1>9. CASE UNCHANGED Alerts!vars
  <2>1. \A o \in Alerts!Messages \ unclaimed' : ClaimOK(o)'
    BY <1>0, <1>9, ClaimsStay DEF Alerts!vars
  <2> QED  BY <1>0, <1>9, <2>1, PassesStay DEF Alerts!vars, AlertTypeOK
<1> QED  BY <1>1, <1>2, <1>3, <1>4, <1>5, <1>6, <1>7, <1>8, <1>9 DEF Alerts!Next

\* AlertsSound (server/alerts): while the history answers, an alert is sent
\* again only when its claim was held for longer than the claim timeout, and
\* between restarts no window holds more alerts than the limit.
THEOREM AlertsAreSound == Alerts!AlertAssumption => (Alerts!Spec => []Alerts!AlertsSound)
<1> SUFFICES ASSUME Alerts!AlertAssumption PROVE Alerts!Spec => []Alerts!AlertsSound
  OBVIOUS
<1>1. Alerts!Init => AlertInv
  BY AlertInit
<1>2. AlertInv /\ [Alerts!Next]_(Alerts!vars) => AlertInv'
  BY AlertNext
<1>3. AlertInv => Alerts!AlertsSound
  BY DEF AlertInv, Alerts!AlertsSound, Alerts!SentOnce, ClaimOK, Apart
<1> QED  BY <1>1, <1>2, <1>3, PTL DEF Alerts!Spec

-----------------------------------------------------------------------------
(* GuardianService: GuardianServiceSound for any proposals, transactions and *)
(* lifetimes.  Nothing confirms a nonce, so that only the first is reserved. *)

ProposalRows == [tx : Transactions, custody : {"guardian", "walletconnect"},
                 state : {"denied", "pending", "auto_approved", "approved", "broadcast", "expired"},
                 expires : Int, until : Int, nonce : Int]

\* What the policy left of a proposal.
RowOK(q) == /\ q \in ProposalRows
            /\ q.state # "denied" => Guardian!Allowed(q.tx)
            /\ q.state = "auto_approved" => ~Guardian!IsWithdrawal(q.tx)

\* A transaction that is on its way, or that the node is asked to take.
SentOK(t) ==
  /\ t.id \in DOMAIN proposal /\ t.begun \in Int
  /\ proposal[t.id].custody = "guardian"
  /\ proposal[t.id].state \notin {"pending", "denied"}
  /\ t.begun <= proposal[t.id].until
  /\ Guardian!Encodable(proposal[t.id].tx)

ServiceTypeOK ==
  /\ now \in Nat
  /\ proposal = [p \in DOMAIN proposal |-> proposal[p]]
  /\ \A p \in DOMAIN proposal : RowOK(proposal[p])
  /\ pending \in Seq(Nat)

\* Nothing confirms a nonce, so that the first one ever reserved, 0, is the only
\* one there is: one transaction is mined at most.
NonceInv ==
  /\ pending = <<>> => call = Guardian!None /\ DOMAIN pool = {} /\ mined = <<>>
  /\ \A i \in DOMAIN pending : pending[i] = 0
  /\ call # Guardian!None => call.nonce = 0 /\ SentOK(call)
  /\ DOMAIN pool \subseteq {0} /\ \A n \in DOMAIN pool : SentOK(pool[n])
  /\ mined = <<>> \/ (DOMAIN mined = {1} /\ Len(mined) = 1 /\ SentOK(mined[1]) /\ DOMAIN pool = {})

\* Requests to the external wallet.
RequestOK(r) == r.id \in DOMAIN proposal /\ Guardian!Requestable(r.id) /\ proposal[r.id].tx = r.tx

ServiceInv ==
  ServiceTypeOK /\ NonceInv /\ \A r \in requests : RequestOK(r)

\* A step after which every proposal is what it was, or one more is there, or a
\* pending one is approved or expired, or the one being broadcast is recorded.
LEMMA RowsMove ==
  ASSUME ServiceInv, UNCHANGED <<mined>>,
         NEW p, p \in DOMAIN proposal' , DOMAIN proposal' = DOMAIN proposal \cup {p},
         proposal' = [q \in DOMAIN proposal' |-> proposal'[q]],
         \A q \in DOMAIN proposal \ {p} : proposal'[q] = proposal[q],
         RowOK(proposal'[p]),
         p \in DOMAIN proposal =>
           /\ proposal'[p].tx = proposal[p].tx /\ proposal'[p].custody = proposal[p].custody
           /\ \/ proposal[p].state = "pending"
              \/ /\ proposal[p].custody = "guardian"
                 /\ proposal'[p].state \notin {"pending", "denied"}
                 /\ proposal'[p].until = proposal[p].until
  PROVE  /\ \A t : SentOK(t) => SentOK(t)'
         /\ \A r : RequestOK(r) => RequestOK(r)'
         /\ \A q \in DOMAIN proposal' : RowOK(proposal'[q])
<1>1. \A q \in DOMAIN proposal' : RowOK(proposal'[q])
  BY DEF ServiceInv, ServiceTypeOK
<1>2. ASSUME NEW t, SentOK(t) PROVE SentOK(t)'
  BY <1>2 DEF SentOK
<1>3. ASSUME NEW r, RequestOK(r) PROVE RequestOK(r)'
  BY <1>3 DEF RequestOK, Guardian!Requestable, Guardian!PolicyApproved
<1> QED  BY <1>1, <1>2, <1>3

LEMMA ServiceInit == Guardian!ServiceAssumption /\ Guardian!Init => ServiceInv
<1> SUFFICES ASSUME Guardian!ServiceAssumption, Guardian!Init PROVE ServiceInv
  OBVIOUS
<1>1. DOMAIN proposal = {} /\ DOMAIN pool = {} /\ mined = <<>> /\ DOMAIN pending = {}
  BY DEF Guardian!Init
<1> QED  BY <1>1 DEF Guardian!Init, ServiceInv, ServiceTypeOK, NonceInv

\* What waits, is mined or is asked for stays right when proposals move.
LEMMA RestMoves ==
  ASSUME ServiceInv, \A t : SentOK(t) => SentOK(t)', UNCHANGED <<pending, pool, mined>>,
         call' = call \/ call' = Guardian!None
  PROVE  NonceInv'
  BY DEF ServiceInv, NonceInv

LEMMA ServiceNext ==
  ASSUME Guardian!ServiceAssumption, ServiceInv, [Guardian!Next]_(Guardian!vars)
  PROVE  ServiceInv'
<1> USE DEF ServiceInv
<1>1. ASSUME UNCHANGED <<proposal, requests>>, now' \in Nat, pending' \in Seq(Nat), NonceInv'
      PROVE  ServiceInv'
  <2>1. ServiceTypeOK'
    BY <1>1 DEF ServiceTypeOK, RowOK
  <2>2. \A r : RequestOK(r) => RequestOK(r)'
    BY <1>1 DEF RequestOK, Guardian!Requestable, Guardian!PolicyApproved
  <2> QED  BY <1>1, <2>1, <2>2
<1>2. ASSUME UNCHANGED proposal PROVE \A t : SentOK(t) => SentOK(t)'
  BY <1>2 DEF SentOK
<1>3. ASSUME NEW p \in Proposals, NEW tx \in Transactions,
             NEW custody \in {"guardian", "walletconnect"}, Guardian!ProposeTransaction(p, tx, custody)
      PROVE  ServiceInv'
  <2> DEFINE s == Guardian!ProposedState(tx)
             u == IF s = "auto_approved" THEN now + ApprovalTtl ELSE Guardian!Malformed
             fresh == [tx |-> tx, custody |-> custody, state |-> s, expires |-> now + ProposalTtl,
                       until |-> u, nonce |-> Guardian!Malformed]
  <2>1. /\ p \notin DOMAIN proposal
        /\ proposal' = [q \in DOMAIN proposal \cup {p} |-> IF q = p THEN fresh ELSE proposal[q]]
        /\ UNCHANGED <<now, available, pending, call, sends, pool, mined, client, wallet, requests>>
    BY <1>3 DEF Guardian!ProposeTransaction
  <2>2. /\ s \in {"denied", "pending", "auto_approved"}
        /\ s # "denied" => Guardian!Allowed(tx)
        /\ s = "auto_approved" => ~Guardian!IsWithdrawal(tx)
    BY DEF Guardian!ProposedState
  <2>3. u \in Int /\ now + ProposalTtl \in Int /\ Guardian!Malformed \in Int /\ now \in Nat
    BY DEF Guardian!Malformed, Guardian!ServiceAssumption, ServiceTypeOK
  <2> HIDE DEF s, u
  <2>4. RowOK(fresh)
    BY <2>2, <2>3 DEF RowOK, ProposalRows
  <2>5. DOMAIN proposal' = DOMAIN proposal \cup {p} /\ proposal'[p] = fresh
    BY <2>1
  <2> HIDE DEF fresh
  <2>6. /\ \A t : SentOK(t) => SentOK(t)'
        /\ \A r : RequestOK(r) => RequestOK(r)'
        /\ \A q \in DOMAIN proposal' : RowOK(proposal'[q])
    BY <2>1, <2>4, <2>5, RowsMove
  <2>7. NonceInv'
    BY <2>1, <2>6, RestMoves
  <2> QED  BY <2>1, <2>3, <2>6, <2>7 DEF ServiceTypeOK
<1>4. ASSUME NEW p \in DOMAIN proposal, NEW q \in DOMAIN proposal,
             Guardian!ApproveProposal(p, Guardian!ProposalHash(q))
      PROVE  ServiceInv'
  <2>1. /\ proposal[p].state = "pending" /\ now \in Nat /\ now + ApprovalTtl \in Int
        /\ UNCHANGED <<now, available, pending, call, sends, pool, mined, client, wallet, requests>>
    BY <1>4 DEF Guardian!ApproveProposal, ServiceTypeOK, Guardian!ServiceAssumption
  <2>2. RowOK(proposal[p])
    BY DEF ServiceTypeOK
  <2>3. PICK s \in {"expired", "approved"} :
          \/ proposal' = [proposal EXCEPT ![p] = [proposal[p] EXCEPT !.state = s]]
          \/ proposal' = [proposal EXCEPT ![p] = [proposal[p] EXCEPT !.state = s,
                                                                    !.until = now + ApprovalTtl]]
    BY <1>4 DEF Guardian!ApproveProposal
  <2>4. /\ DOMAIN proposal' = DOMAIN proposal
        /\ proposal' = [r \in DOMAIN proposal' |-> proposal'[r]]
        /\ \A r \in DOMAIN proposal \ {p} : proposal'[r] = proposal[r]
        /\ \/ proposal'[p] = [proposal[p] EXCEPT !.state = s]
           \/ proposal'[p] = [proposal[p] EXCEPT !.state = s, !.until = now + ApprovalTtl]
    BY <2>3 DEF ServiceTypeOK
  <2>5. /\ proposal'[p] \in ProposalRows /\ proposal'[p].state = s
        /\ proposal'[p].tx = proposal[p].tx /\ proposal'[p].custody = proposal[p].custody
    <3>1. proposal[p] \in ProposalRows /\ s \in {"expired", "approved", "broadcast"}
      BY <2>2 DEF RowOK
    <3>2. PICK u \in Int : u = now + ApprovalTtl
      BY <2>1
    <3>3. \/ proposal'[p] = [proposal[p] EXCEPT !.state = s]
          \/ proposal'[p] = [proposal[p] EXCEPT !.state = s, !.until = u]
      BY <2>4, <3>2
    <3>4. PICK x \in ProposalRows : x = proposal[p]
      BY <3>1
    <3>5. PICK y : y = proposal'[p]
      OBVIOUS
    <3>6. y = [x EXCEPT !.state = s] \/ y = [x EXCEPT !.state = s, !.until = u]
      BY <3>3, <3>4, <3>5
    <3>7. y \in ProposalRows /\ y.state = s /\ y.tx = x.tx /\ y.custody = x.custody
      <4>1. CASE y = [x EXCEPT !.state = s]
        BY <3>1, <4>1 DEF ProposalRows
      <4>2. CASE y = [x EXCEPT !.state = s, !.until = u]
        BY <3>1, <4>2 DEF ProposalRows
      <4> QED  BY <3>6, <4>1, <4>2
    <3> QED  BY <3>4, <3>5, <3>7
  <2>6. RowOK(proposal'[p])
    BY <2>1, <2>2, <2>5 DEF RowOK
  <2>7. /\ \A t : SentOK(t) => SentOK(t)'
        /\ \A r : RequestOK(r) => RequestOK(r)'
        /\ \A r \in DOMAIN proposal' : RowOK(proposal'[r])
    BY <2>1, <2>4, <2>5, <2>6, RowsMove
  <2>8. NonceInv'
    BY <2>1, <2>7, RestMoves
  <2> QED  BY <2>1, <2>4, <2>7, <2>8 DEF ServiceTypeOK
<1>5. ASSUME NEW p \in Proposals, Guardian!BeginBroadcast(p) PROVE ServiceInv'
  <2>1. /\ p \in DOMAIN proposal /\ call = Guardian!None /\ pending' = Append(pending, Guardian!ReservedNonce)
        /\ UNCHANGED <<now, available, proposal, pool, mined, client, wallet, requests>>
    BY <1>5 DEF Guardian!BeginBroadcast
  <2>2. Guardian!ReservedNonce = 0
    <3>1. CASE pending = <<>>
      <4>1. Len(mined) = 0
        BY <3>1 DEF NonceInv
      <4> QED  BY <3>1, <4>1 DEF Guardian!ReservedNonce
    <3>2. CASE pending # <<>>
      <4>1. 1 \in DOMAIN pending /\ Head(pending) = pending[1]
        BY <3>2 DEF ServiceTypeOK
      <4> QED  BY <3>2, <4>1 DEF Guardian!ReservedNonce, NonceInv
    <3> QED  BY <3>1, <3>2
  <2>3. /\ pending' \in Seq(Nat) /\ pending' # <<>>
        /\ \A i \in DOMAIN pending' : pending'[i] = 0
    BY <2>1, <2>2 DEF ServiceTypeOK, NonceInv
  <2>4. call' # Guardian!None => call'.nonce = 0 /\ SentOK(call)'
    <3> SUFFICES ASSUME call' # Guardian!None PROVE call'.nonce = 0 /\ SentOK(call)'
      OBVIOUS
    <3>1. /\ Guardian!Encodable(proposal[p].tx)
          /\ call' = [id |-> p, nonce |-> 0, begun |-> now]
      BY <1>5, <2>2 DEF Guardian!BeginBroadcast
    <3>2. proposal[p].custody = "guardian" /\ Guardian!PolicyApproved(p) /\ now <= proposal[p].until
      BY <1>5 DEF Guardian!BeginBroadcast, Guardian!MayBroadcast
    <3> QED  BY <2>1, <3>1, <3>2 DEF SentOK, Guardian!PolicyApproved, ServiceTypeOK
  <2>5. NonceInv'
    BY <1>2, <2>1, <2>3, <2>4 DEF NonceInv
  <2> QED  BY <1>1, <2>1, <2>3, <2>5 DEF ServiceTypeOK
<1>6. ASSUME NEW p \in Proposals, Guardian!BuildWalletConnectRequest(p) PROVE ServiceInv'
  <2>1. /\ p \in DOMAIN proposal /\ Guardian!Requestable(p)
        /\ requests' = requests \cup {[id |-> p, tx |-> proposal[p].tx, built |-> now,
                                       approved |-> FALSE]}
        /\ UNCHANGED <<now, available, proposal, pending, call, sends, pool, mined, client, wallet>>
    BY <1>6 DEF Guardian!BuildWalletConnectRequest
  <2>2. \A r \in requests' : RequestOK(r)'
    <3> DEFINE new == [id |-> p, tx |-> proposal[p].tx, built |-> now, approved |-> FALSE]
    <3>1. new.id = p /\ new.tx = proposal[p].tx
      OBVIOUS
    <3>2. \A r \in requests' : r = new \/ r \in requests
      BY <2>1
    <3> HIDE DEF new
    <3> QED  BY <2>1, <3>1, <3>2 DEF RequestOK, Guardian!Requestable, Guardian!PolicyApproved
  <2>3. NonceInv' /\ ServiceTypeOK'
    BY <1>2, <2>1, RestMoves DEF ServiceTypeOK, RowOK
  <2> QED  BY <2>2, <2>3
<1>7. ASSUME Guardian!NodeAccepts \/ UNCHANGED pool, call # Guardian!None, UNCHANGED <<pending, mined>>,
             call' = Guardian!None, \A t : SentOK(t) => SentOK(t)'
      PROVE  NonceInv'
  <2>1. call.nonce = 0 /\ SentOK(call) /\ pending # <<>>
    BY <1>7 DEF NonceInv
  <2>2. CASE UNCHANGED pool
    BY <1>7, <2>2, RestMoves
  <2>3. CASE Guardian!NodeAccepts
    <3>1. Len(mined) <= 0 /\ mined = <<>>
      BY <2>1, <2>3 DEF Guardian!NodeAccepts, NonceInv
    <3>2. DOMAIN pool' = {0} /\ pool'[0] = [id |-> call.id, begun |-> call.begun]
      BY <2>1, <2>3 DEF Guardian!NodeAccepts, NonceInv
    <3>3. SentOK(pool'[0])
      BY <2>1, <3>2 DEF SentOK
    <3>4. SentOK(pool[0])'
      <4>1. PICK t : t = pool'[0]
        OBVIOUS
      <4>2. SentOK(t)'
        BY <1>7, <3>3, <4>1
      <4> QED  BY <4>1, <4>2 DEF SentOK
    <3> QED  BY <1>7, <2>1, <3>1, <3>2, <3>4 DEF NonceInv
  <2> QED  BY <1>7, <2>2, <2>3
<1>8. CASE Guardian!SendAnswered
  <2> DEFINE p == call.id
  <2>1. /\ Guardian!NodeAccepts /\ call # Guardian!None /\ call' = Guardian!None /\ proposal' = Guardian!Recorded(call.id)
        /\ UNCHANGED <<now, available, pending, sends, mined, client, wallet, requests>>
    BY <1>8 DEF Guardian!SendAnswered
  <2>2. /\ SentOK(call) /\ call.nonce = 0 /\ p \in DOMAIN proposal
    BY <2>1 DEF NonceInv, SentOK
  <2>3. RowOK(proposal[p])
    BY <2>2 DEF ServiceTypeOK
  <2>4. PICK s \in {"expired", "broadcast"} :
          \/ proposal' = [proposal EXCEPT ![p] = [proposal[p] EXCEPT !.state = s]]
          \/ proposal' = [proposal EXCEPT ![p] = [proposal[p] EXCEPT !.state = s, !.nonce = 0]]
    BY <2>1, <2>2 DEF Guardian!Recorded
  <2>5. /\ DOMAIN proposal' = DOMAIN proposal
        /\ proposal' = [r \in DOMAIN proposal' |-> proposal'[r]]
        /\ \A r \in DOMAIN proposal \ {p} : proposal'[r] = proposal[r]
        /\ \/ proposal'[p] = [proposal[p] EXCEPT !.state = s]
           \/ proposal'[p] = [proposal[p] EXCEPT !.state = s, !.nonce = 0]
    BY <2>2, <2>4 DEF ServiceTypeOK
  <2>6. /\ proposal'[p] \in ProposalRows /\ proposal'[p].state = s
        /\ proposal'[p].tx = proposal[p].tx /\ proposal'[p].custody = proposal[p].custody
        /\ proposal'[p].until = proposal[p].until
    <3>1. /\ proposal[p] \in ProposalRows /\ 0 \in Int
          /\ s \in {"expired", "approved", "broadcast"}
      BY <2>3 DEF RowOK
    <3>2. PICK x \in ProposalRows : x = proposal[p]
      BY <3>1
    <3>3. PICK y : y = proposal'[p]
      OBVIOUS
    <3>4. y = [x EXCEPT !.state = s] \/ y = [x EXCEPT !.state = s, !.nonce = 0]
      BY <2>5, <3>2, <3>3
    <3>5. /\ y \in ProposalRows /\ y.state = s /\ y.tx = x.tx /\ y.custody = x.custody
          /\ y.until = x.until
      <4>1. CASE y = [x EXCEPT !.state = s]
        BY <3>1, <4>1 DEF ProposalRows
      <4>2. CASE y = [x EXCEPT !.state = s, !.nonce = 0]
        BY <3>1, <4>2 DEF ProposalRows
      <4> QED  BY <3>4, <4>1, <4>2
    <3> QED  BY <3>2, <3>3, <3>5
  <2>7. proposal[p].custody = "guardian" /\ proposal[p].state \notin {"pending", "denied"}
    BY <2>2 DEF SentOK
  <2>8. RowOK(proposal'[p])
    BY <2>3, <2>6, <2>7 DEF RowOK
  <2> HIDE DEF p
  <2>9. /\ \A t : SentOK(t) => SentOK(t)'
        /\ \A r : RequestOK(r) => RequestOK(r)'
        /\ \A r \in DOMAIN proposal' : RowOK(proposal'[r])
    <3>1. PICK q : q = p
      OBVIOUS
    <3> QED  BY <2>1, <2>2, <2>5, <2>6, <2>7, <2>8, <3>1, RowsMove
  <2>10. NonceInv'
    BY <1>7, <2>1, <2>9
  <2> QED  BY <2>1, <2>5, <2>9, <2>10 DEF ServiceTypeOK
<1>9. CASE Guardian!SendFails
  <2>1. NonceInv'
    BY <1>2, <1>7, <1>9 DEF Guardian!SendFails
  <2> QED  BY <1>1, <1>9, <2>1 DEF Guardian!SendFails, ServiceTypeOK
<1>10. CASE UNCHANGED <<proposal, pending, call, pool, mined, requests>> /\ now' \in Nat
  <2>1. NonceInv'
    BY <1>2, <1>10, RestMoves
  <2> QED  BY <1>1, <1>10, <2>1 DEF ServiceTypeOK
<1>11. ASSUME NEW t \in Topics, Guardian!CompletePairing(t) \/ Guardian!ScanPairing(t) PROVE ServiceInv'
  BY <1>10, <1>11 DEF Guardian!CompletePairing, Guardian!ScanPairing, ServiceTypeOK
<1>12. ASSUME NEW r \in requests, Guardian!ApproveRequest(r) PROVE ServiceInv'
  <2>1. /\ requests' = (requests \ {r}) \cup {[r EXCEPT !.approved = TRUE]}
        /\ UNCHANGED <<now, available, proposal, pending, call, sends, pool, mined, client, wallet>>
    BY <1>12 DEF Guardian!ApproveRequest
  <2>2. [r EXCEPT !.approved = TRUE].id = r.id /\ [r EXCEPT !.approved = TRUE].tx = r.tx
    OBVIOUS
  <2>3. \A q \in requests' : RequestOK(q)'
    <3> SUFFICES ASSUME NEW q \in requests' PROVE RequestOK(q)'
      OBVIOUS
    <3>1. \E o \in requests : q.id = o.id /\ q.tx = o.tx
      BY <2>1, <2>2
    <3> QED  BY <2>1, <3>1 DEF RequestOK, Guardian!Requestable, Guardian!PolicyApproved
  <2>4. NonceInv' /\ ServiceTypeOK'
    BY <1>2, <2>1, RestMoves DEF ServiceTypeOK, RowOK
  <2> QED  BY <2>3, <2>4
<1>13. CASE Guardian!Mine
  <2>1. /\ Len(mined) \in DOMAIN pool /\ mined' = Append(mined, pool[Len(mined)])
        /\ pool' = [n \in DOMAIN pool \ {Len(mined)} |-> pool[n]]
        /\ UNCHANGED <<now, available, proposal, pending, call, sends, client, wallet, requests>>
    BY <1>13 DEF Guardian!Mine
  <2>2. Len(mined) = 0 /\ mined = <<>> /\ DOMAIN pool = {0} /\ pending # <<>>
    BY <2>1 DEF NonceInv
  <2>3. DOMAIN pool' = {} /\ mined' = <<pool[0]>> /\ SentOK(pool[0])
    BY <2>1, <2>2 DEF NonceInv
  <2>4. DOMAIN mined' = {1} /\ Len(mined') = 1 /\ mined'[1] = pool[0]
    BY <2>3
  <2>5. SentOK(mined[1])'
    BY <2>1, <2>3, <2>4 DEF SentOK
  <2>6. call' # Guardian!None => call'.nonce = 0 /\ SentOK(call)'
    BY <1>2, <2>1 DEF NonceInv
  <2>7. NonceInv'
    BY <2>1, <2>2, <2>3, <2>4, <2>5, <2>6 DEF NonceInv
  <2> QED  BY <1>1, <2>1, <2>7 DEF ServiceTypeOK
<1>14. CASE Guardian!Lock \/ Guardian!Tick \/ UNCHANGED Guardian!vars
  BY <1>10, <1>14 DEF Guardian!Lock, Guardian!Tick, Guardian!vars, ServiceTypeOK
<1> QED  BY <1>3, <1>4, <1>5, <1>6, <1>8, <1>9, <1>11, <1>12, <1>13, <1>14 DEF Guardian!Next

LEMMA ServiceHolds ==
  ASSUME Guardian!ServiceAssumption, ServiceInv
  PROVE  Guardian!GuardianServiceSound
<1>1. ASSUME NEW t, SentOK(t)
      PROVE  LET q == proposal[t.id] IN
             /\ q.custody = "guardian"
             /\ q.tx.permitted /\ q.tx.simulates /\ q.tx.tip <= q.tx.fee
             /\ q.state # "pending" /\ q.state # "denied"
             /\ t.begun <= q.until
             /\ q.state = "auto_approved" => q.tx.value = 0
  <2>1. RowOK(proposal[t.id])
    BY <1>1 DEF SentOK, ServiceInv, ServiceTypeOK
  <2>2. Guardian!Allowed(proposal[t.id].tx) /\ proposal[t.id].tx \in Transactions
    BY <1>1, <2>1 DEF SentOK, RowOK, ProposalRows
  <2>3. proposal[t.id].state = "auto_approved" => proposal[t.id].tx.value = 0
    <3> SUFFICES ASSUME proposal[t.id].state = "auto_approved" PROVE proposal[t.id].tx.value = 0
      OBVIOUS
    <3>1. ~Guardian!IsWithdrawal(proposal[t.id].tx) /\ Guardian!Encodable(proposal[t.id].tx)
      BY <1>1, <2>1 DEF SentOK, RowOK
    <3>2. proposal[t.id].tx.value \in Nat
      BY <2>2, <3>1 DEF Guardian!Encodable, Guardian!ServiceAssumption
    <3> QED  BY <3>1, <3>2 DEF Guardian!IsWithdrawal, Guardian!ValueUsd, Guardian!Encodable,
                Guardian!ServiceAssumption
  <2> QED  BY <1>1, <2>2, <2>3 DEF SentOK, Guardian!Allowed
<1>2. Guardian!SentWithApproval
  <2> SUFFICES ASSUME NEW t \in Guardian!OnTheWay PROVE SentOK(t)
    BY <1>1 DEF Guardian!SentWithApproval
  <2> QED  BY DEF Guardian!OnTheWay, ServiceInv, NonceInv
<1>3. Guardian!MinedOnce
  <2>1. DOMAIN mined \subseteq {1}
    BY DEF ServiceInv, NonceInv
  <2> QED  BY <2>1 DEF Guardian!MinedOnce
<1>4. Guardian!AskedWithApproval
  BY DEF Guardian!AskedWithApproval, ServiceInv, RequestOK, Guardian!Requestable
<1> QED  BY <1>2, <1>3, <1>4 DEF Guardian!GuardianServiceSound

\* GuardianServiceSound (service.rs, broadcast.rs and wc of wallet-guardian):
\* what reaches the node was approved in time, a proposal is mined at most once
\* however its broadcast is retried, and the external wallet is asked with an
\* approval only.
THEOREM ServiceIsSound == Guardian!ServiceAssumption => (Guardian!Spec => []Guardian!GuardianServiceSound)
<1> SUFFICES ASSUME Guardian!ServiceAssumption PROVE Guardian!Spec => []Guardian!GuardianServiceSound
  OBVIOUS
<1>1. Guardian!Init => ServiceInv
  BY ServiceInit
<1>2. ServiceInv /\ [Guardian!Next]_(Guardian!vars) => ServiceInv'
  BY ServiceNext
<1>3. ServiceInv => Guardian!GuardianServiceSound
  BY ServiceHolds
<1> QED  BY <1>1, <1>2, <1>3, PTL DEF Guardian!Spec

-----------------------------------------------------------------------------
(* GatewaySession: CountersExact and ConfirmationsSound for any finite set *)
(* of connections, whatever the session and the grants are changed to.     *)

Orders == [conn : Conns, action : {"SubmitPaperOrder"}, at : Int]
Orderings == [conn : Conns, ref : Nat, action : {"SubmitPaperOrder"}, at : Int, live : BOOLEAN]

\* A connection has its fields; one that is not open has nothing subscribed.
Shaped(link) ==
  /\ link = [state |-> link.state, info |-> link.info, subscribed |-> link.subscribed,
             unread |-> link.unread, pending |-> link.pending]
  /\ link.subscribed \in BOOLEAN
  /\ link.state # "open" => ~link.subscribed

GatewayTypeOK ==
  /\ now \in Int
  /\ conns = [c \in Conns |-> conns[c]]
  /\ \A c \in Conns : Shaped(conns[c])
  /\ issued \in Seq(Orders)
  /\ authorized \in Seq(Orderings)

\* A confirmation that waits is one that was issued to its connection, and no
\* order was authorized by it.
WaitingOK(c, p) ==
  /\ p.ref \in DOMAIN issued
  /\ issued[p.ref].conn = c /\ issued[p.ref].action = p.action
  /\ p.expires = issued[p.ref].at + Validity
  /\ \A k \in DOMAIN authorized : authorized[k].ref # p.ref

GatewayInv ==
  /\ GatewayTypeOK
  /\ Gateway!CountersExact
  /\ \A c \in Conns : \A p \in conns[c].pending : WaitingOK(c, p)
  /\ \A k \in DOMAIN authorized : authorized[k].ref # 0 => authorized[k].ref \in DOMAIN issued
  /\ Gateway!ConfirmationsSound

Opened == {c \in Conns : Gateway!Open(c)}
Subscribed == {c \in Conns : Gateway!Open(c) /\ conns[c].subscribed}

\* A connection with nothing subscribed or asked.
LEMMA EmptyShape ==
  ASSUME NEW st, NEW info, NEW y, NEW b \in BOOLEAN, ~b,
         y = [state |-> st, info |-> info, subscribed |-> b, unread |-> 0, pending |-> {}]
  PROVE  Shaped(y) /\ y.state = st /\ y.pending = {} /\ ~y.subscribed
  BY DEF Shaped

LEMMA NoConnShape ==
  ASSUME NEW y, y = Gateway!NoConn \/ y = [Gateway!NoConn EXCEPT !.state = "closed"]
  PROVE  Shaped(y) /\ y.state # "open" /\ y.pending = {} /\ ~y.subscribed
<1>1. PICK b \in BOOLEAN : b = FALSE
  OBVIOUS
<1>2. Gateway!NoConn = [state |-> "new", info |-> Gateway!NoInfo, subscribed |-> b, unread |-> 0, pending |-> {}]
  BY <1>1 DEF Gateway!NoConn
<1>3. CASE y = Gateway!NoConn
  BY <1>1, <1>2, <1>3, EmptyShape
<1>4. CASE y = [Gateway!NoConn EXCEPT !.state = "closed"]
  <2>1. y = [state |-> "closed", info |-> Gateway!NoInfo, subscribed |-> b, unread |-> 0, pending |-> {}]
    BY <1>2, <1>4
  <2> QED  BY <1>1, <2>1, EmptyShape
<1> QED  BY <1>3, <1>4

\* An upgraded connection.
LEMMA OpenShape ==
  ASSUME NEW info, NEW y, y = [Gateway!NoConn EXCEPT !.state = "open", !.info = info]
  PROVE  Shaped(y) /\ y.state = "open" /\ y.pending = {} /\ ~y.subscribed
<1>1. PICK b \in BOOLEAN : b = FALSE
  OBVIOUS
<1>2. Gateway!NoConn = [state |-> "new", info |-> Gateway!NoInfo, subscribed |-> b, unread |-> 0, pending |-> {}]
  BY <1>1 DEF Gateway!NoConn
<1>3. y = [state |-> "open", info |-> info, subscribed |-> b, unread |-> 0, pending |-> {}]
  BY <1>2
<1> QED  BY <1>1, <1>3, EmptyShape

\* An open connection that subscribes or not,
LEMMA Resubscribed ==
  ASSUME NEW x, Shaped(x), x.state = "open", NEW v \in BOOLEAN, NEW y, y = [x EXCEPT !.subscribed = v]
  PROVE  Shaped(y) /\ y.state = "open" /\ y.pending = x.pending
<1>1. /\ x = [state |-> x.state, info |-> x.info, subscribed |-> x.subscribed,
              unread |-> x.unread, pending |-> x.pending]
      /\ x.subscribed \in BOOLEAN
  BY DEF Shaped
<1>2. y = [state |-> x.state, info |-> x.info, subscribed |-> v, unread |-> x.unread,
           pending |-> x.pending]
  BY <1>1
<1> QED  BY <1>1, <1>2 DEF Shaped

\* with more or less to read,
LEMMA Reread ==
  ASSUME NEW x, Shaped(x), x.state = "open", NEW v, NEW y, y = [x EXCEPT !.unread = v]
  PROVE  Shaped(y) /\ y.state = "open" /\ y.pending = x.pending /\ y.subscribed = x.subscribed
<1>1. /\ x = [state |-> x.state, info |-> x.info, subscribed |-> x.subscribed,
              unread |-> x.unread, pending |-> x.pending]
      /\ x.subscribed \in BOOLEAN
  BY DEF Shaped
<1>2. y = [state |-> x.state, info |-> x.info, subscribed |-> x.subscribed, unread |-> v,
           pending |-> x.pending]
  BY <1>1
<1> QED  BY <1>1, <1>2 DEF Shaped

\* or that waits for other confirmations.
LEMMA Rewaited ==
  ASSUME NEW x, Shaped(x), x.state = "open", NEW v, NEW y, y = [x EXCEPT !.pending = v]
  PROVE  Shaped(y) /\ y.state = "open" /\ y.pending = v
<1>1. /\ x = [state |-> x.state, info |-> x.info, subscribed |-> x.subscribed,
              unread |-> x.unread, pending |-> x.pending]
      /\ x.subscribed \in BOOLEAN
  BY DEF Shaped
<1>2. y = [state |-> x.state, info |-> x.info, subscribed |-> x.subscribed, unread |-> x.unread,
           pending |-> v]
  BY <1>1
<1> QED  BY <1>1, <1>2 DEF Shaped

\* The instance counts as the library does.
LEMMA GatewayCounts ==
  \A S : /\ Gateway!Cardinality(S) = Cardinality(S)
         /\ Gateway!IsFiniteSet(S) <=> IsFiniteSet(S)
<1>1. \A S : Gateway!Cardinality(S) = Cardinality(S)
  BY DEF Gateway!Cardinality, Cardinality
<1>2. \A S : Gateway!IsFiniteSet(S) <=> IsFiniteSet(S)
  BY DEF Gateway!IsFiniteSet, IsFiniteSet
<1> QED  BY <1>1, <1>2

LEMMA GatewayInit == Gateway!GatewayAssumption /\ Gateway!Init => GatewayInv
<1> SUFFICES ASSUME Gateway!GatewayAssumption, Gateway!Init PROVE GatewayInv
  OBVIOUS
<1>1. /\ conns = [c \in Conns |-> Gateway!NoConn] /\ connectionCount = 0 /\ subscriptionCount = 0
      /\ now = 1 /\ issued = <<>> /\ authorized = <<>>
  BY DEF Gateway!Init
<1>2. GatewayTypeOK
  BY <1>1, NoConnShape DEF GatewayTypeOK
<1>3. Gateway!CountersExact
  <2>1. {c \in Conns : Gateway!Open(c)} = {} /\ {c \in Conns : Gateway!Open(c) /\ conns[c].subscribed} = {}
    BY <1>1, NoConnShape DEF Gateway!Open
  <2> QED  BY GatewayCounts, <1>1, <2>1, FS_EmptySet DEF Gateway!CountersExact
<1> QED  BY <1>1, <1>2, <1>3, NoConnShape DEF GatewayInv, Gateway!ConfirmationsSound

\* One connection changes: the counts move by what became of it.
LEMMA CountsMove ==
  ASSUME Gateway!GatewayAssumption, GatewayTypeOK, Gateway!CountersExact, NEW c \in Conns,
         conns' = [conns EXCEPT ![c] = conns'[c]], Shaped(conns'[c]),
         connectionCount' = connectionCount + (IF conns'[c].state = "open" THEN 1 ELSE 0)
                                            - (IF conns[c].state = "open" THEN 1 ELSE 0),
         subscriptionCount' = subscriptionCount + (IF conns'[c].subscribed THEN 1 ELSE 0)
                                                - (IF conns[c].subscribed THEN 1 ELSE 0)
  PROVE  Gateway!CountersExact'
<1>1. /\ Opened \in SUBSET Conns /\ Subscribed \in SUBSET Conns
      /\ connectionCount = Cardinality(Opened) /\ subscriptionCount = Cardinality(Subscribed)
      /\ Gateway!CountersExact' <=> /\ connectionCount' = Cardinality(Opened')
                            /\ subscriptionCount' = Cardinality(Subscribed')
  BY GatewayCounts DEF Gateway!CountersExact, Opened, Subscribed
<1>2. /\ IsFiniteSet(Opened) /\ IsFiniteSet(Subscribed)
      /\ Cardinality(Opened) \in Nat /\ Cardinality(Subscribed) \in Nat
  BY GatewayCounts, <1>1, FS_Subset, FS_CardinalityType DEF Gateway!GatewayAssumption
<1>3. /\ \A q \in Conns \ {c} : conns'[q] = conns[q]
      /\ Shaped(conns[c])
  BY DEF GatewayTypeOK
<1>4. Opened' = IF conns'[c].state = "open" THEN Opened \cup {c} ELSE Opened \ {c}
  BY <1>3 DEF Opened, Gateway!Open
<1>5. Subscribed' = IF conns'[c].subscribed THEN Subscribed \cup {c} ELSE Subscribed \ {c}
  BY <1>3 DEF Subscribed, Gateway!Open, Shaped
<1>6. c \in Opened <=> conns[c].state = "open"
  BY DEF Opened, Gateway!Open
<1>7. c \in Subscribed <=> conns[c].subscribed
  BY <1>3 DEF Subscribed, Gateway!Open, Shaped
<1>8. connectionCount' = Cardinality(Opened')
  <2>1. CASE conns'[c].state = "open" /\ c \notin Opened
    <3>1. Cardinality(Opened') = Cardinality(Opened) + 1
      BY <1>2, <1>4, <2>1, FS_AddElement
    <3> QED  BY <1>1, <1>2, <1>6, <2>1, <3>1
  <2>2. CASE conns'[c].state # "open" /\ c \in Opened
    <3>1. Cardinality(Opened') = Cardinality(Opened) - 1
      BY <1>2, <1>4, <2>2, FS_RemoveElement
    <3> QED  BY <1>1, <1>2, <1>6, <2>2, <3>1
  <2>3. CASE conns'[c].state = "open" <=> c \in Opened
    <3>1. Opened' = Opened
      BY <1>4, <2>3
    <3> QED  BY <1>1, <1>2, <1>6, <2>3, <3>1
  <2> QED  BY <2>1, <2>2, <2>3
<1>9. subscriptionCount' = Cardinality(Subscribed')
  <2>1. CASE conns'[c].subscribed /\ c \notin Subscribed
    <3>1. Cardinality(Subscribed') = Cardinality(Subscribed) + 1
      BY <1>2, <1>5, <2>1, FS_AddElement
    <3> QED  BY <1>1, <1>2, <1>7, <2>1, <3>1
  <2>2. CASE ~conns'[c].subscribed /\ c \in Subscribed
    <3>1. Cardinality(Subscribed') = Cardinality(Subscribed) - 1
      BY <1>2, <1>5, <2>2, FS_RemoveElement
    <3> QED  BY <1>1, <1>2, <1>7, <2>2, <3>1
  <2>3. CASE conns'[c].subscribed <=> c \in Subscribed
    <3>1. Subscribed' = Subscribed
      BY <1>5, <2>3
    <3> QED  BY <1>1, <1>2, <1>7, <2>3, <3>1
  <2> QED  BY <2>1, <2>2, <2>3
<1> QED  BY <1>1, <1>8, <1>9

\* A step of an open connection ends with what it goes on as, or closed; either
\* way the counts are right.
LEMMA Continued ==
  ASSUME Gateway!GatewayAssumption, GatewayTypeOK, Gateway!CountersExact, NEW c \in Conns, Gateway!Open(c),
         NEW link, Shaped(link), link.state = "open", Gateway!Continue(c, link)
  PROVE  /\ conns' = [q \in Conns |-> conns'[q]]
         /\ \A q \in Conns : Shaped(conns'[q])
         /\ Gateway!CountersExact'
         /\ \A q \in Conns \ {c} : conns'[q] = conns[q]
         /\ conns'[c] = link \/ conns'[c].pending = {}
<1> DEFINE over == [Gateway!NoConn EXCEPT !.state = "closed"]
<1>1. PICK delivered \in BOOLEAN :
        /\ conns' = [conns EXCEPT ![c] = IF delivered THEN link ELSE over]
        /\ connectionCount' = connectionCount - IF delivered THEN 0 ELSE 1
        /\ subscriptionCount' = subscriptionCount
             + (IF link.subscribed /\ delivered THEN 1 ELSE 0) - (IF conns[c].subscribed THEN 1 ELSE 0)
  BY DEF Gateway!Continue
<1>2. Shaped(over) /\ over.state # "open" /\ over.pending = {} /\ ~over.subscribed
  BY NoConnShape
<1> HIDE DEF over
<1>3. /\ conns'[c] = IF delivered THEN link ELSE over
      /\ conns' = [conns EXCEPT ![c] = conns'[c]]
      /\ conns' = [q \in Conns |-> conns'[q]]
      /\ \A q \in Conns \ {c} : conns'[q] = conns[q]
  BY <1>1 DEF GatewayTypeOK
<1>4. Shaped(conns'[c])
  BY <1>2, <1>3
<1>5. connectionCount \in Int /\ subscriptionCount \in Int
  <2>1. Opened \in SUBSET Conns /\ Subscribed \in SUBSET Conns
    BY DEF Opened, Subscribed
  <2>2. Cardinality(Opened) \in Nat /\ Cardinality(Subscribed) \in Nat
    BY GatewayCounts, <2>1, FS_Subset, FS_CardinalityType DEF Gateway!GatewayAssumption
  <2> QED  BY GatewayCounts, <2>2 DEF Gateway!CountersExact, Opened, Subscribed
<1>6. Gateway!CountersExact'
  <2>1. connectionCount' = connectionCount + (IF conns'[c].state = "open" THEN 1 ELSE 0)
                                           - (IF conns[c].state = "open" THEN 1 ELSE 0)
    BY <1>1, <1>2, <1>3, <1>5 DEF Gateway!Open
  <2>2. subscriptionCount' = subscriptionCount + (IF conns'[c].subscribed THEN 1 ELSE 0)
                                               - (IF conns[c].subscribed THEN 1 ELSE 0)
    BY <1>1, <1>2, <1>3, <1>5
  <2> QED  BY <1>3, <1>4, <2>1, <2>2, CountsMove
<1>7. \A q \in Conns : Shaped(conns'[q])
  BY <1>3, <1>4 DEF GatewayTypeOK
<1> QED  BY <1>2, <1>3, <1>6, <1>7

\* What connections go on as has the confirmations that waited, or fewer.
LEMMA QuietStep ==
  ASSUME GatewayInv, now' \in Int, UNCHANGED <<issued, authorized>>,
         conns' = [q \in Conns |-> conns'[q]], Gateway!CountersExact',
         \A q \in Conns : Shaped(conns'[q]) /\ conns'[q].pending \subseteq conns[q].pending
  PROVE  GatewayInv'
<1>1. GatewayTypeOK'
  BY DEF GatewayInv, GatewayTypeOK
<1>2. \A c, p : WaitingOK(c, p) => WaitingOK(c, p)'
  BY DEF WaitingOK
<1> QED  BY <1>1, <1>2 DEF GatewayInv, Gateway!ConfirmationsSound

LEMMA GatewayNext ==
  ASSUME Gateway!GatewayAssumption, GatewayInv, [Gateway!Next]_(Gateway!vars)
  PROVE  GatewayInv'
<1> USE DEF GatewayInv
<1>1. ASSUME NEW c \in Conns, Gateway!Open(c), NEW link, Shaped(link), link.state = "open",
             link.pending \subseteq conns[c].pending, Gateway!Continue(c, link),
             UNCHANGED <<now, issued, authorized>>
      PROVE  GatewayInv'
  <2>1. /\ conns' = [q \in Conns |-> conns'[q]]
        /\ \A q \in Conns : Shaped(conns'[q])
        /\ Gateway!CountersExact'
        /\ \A q \in Conns \ {c} : conns'[q] = conns[q]
        /\ conns'[c] = link \/ conns'[c].pending = {}
    BY <1>1, Continued
  <2>2. \A q \in Conns : conns'[q].pending \subseteq conns[q].pending
    BY <1>1, <2>1
  <2>3. now' \in Int
    BY <1>1 DEF GatewayTypeOK
  <2> QED  BY <1>1, <2>1, <2>2, <2>3, QuietStep
<1>2. ASSUME NEW c \in Conns, Gateway!Open(c)
      PROVE  conns[c].state = "open" /\ Shaped(conns[c])
  BY <1>2 DEF Gateway!Open, GatewayTypeOK
<1>3. CASE UNCHANGED <<conns, connectionCount, subscriptionCount, issued, authorized>> /\ now' \in Int
  <2>1. Gateway!CountersExact'
    BY <1>3 DEF Gateway!CountersExact, Gateway!Open
  <2> QED  BY <1>3, <2>1, QuietStep DEF GatewayTypeOK
<1>4. ASSUME NEW c \in Conns, Gateway!Upgrade(c) PROVE GatewayInv'
  <2>1. conns[c].state = "new" /\ UNCHANGED <<now, subscriptionCount, issued, authorized>>
    BY <1>4 DEF Gateway!Upgrade, Gateway!log
  <2>2. now' \in Int
    BY <2>1 DEF GatewayTypeOK
  <2>3. CASE UNCHANGED <<conns, connectionCount>>
    BY <1>3, <2>1, <2>2, <2>3
  <2>4. CASE /\ conns' = [conns EXCEPT ![c] = [Gateway!NoConn EXCEPT !.state = "open", !.info = Gateway!SessionInfo]]
             /\ connectionCount' = connectionCount + 1
    <3>1. PICK y : y = [Gateway!NoConn EXCEPT !.state = "open", !.info = Gateway!SessionInfo]
      OBVIOUS
    <3>2. Shaped(y) /\ y.state = "open" /\ y.pending = {} /\ ~y.subscribed
      BY <3>1, OpenShape
    <3>3. /\ conns'[c] = y /\ conns' = [conns EXCEPT ![c] = conns'[c]]
          /\ conns' = [q \in Conns |-> conns'[q]]
          /\ \A q \in Conns \ {c} : conns'[q] = conns[q]
      BY <2>4, <3>1 DEF GatewayTypeOK
    <3>4. ~conns[c].subscribed /\ conns[c].subscribed \in BOOLEAN
      BY <2>1 DEF GatewayTypeOK, Shaped
    <3>5. connectionCount \in Int /\ subscriptionCount \in Int
      <4>1. Opened \in SUBSET Conns /\ Subscribed \in SUBSET Conns
        BY DEF Opened, Subscribed
      <4>2. Cardinality(Opened) \in Nat /\ Cardinality(Subscribed) \in Nat
        BY GatewayCounts, <4>1, FS_Subset, FS_CardinalityType DEF Gateway!GatewayAssumption
      <4> QED  BY GatewayCounts, <4>2 DEF Gateway!CountersExact, Opened, Subscribed
    <3>6. connectionCount' = connectionCount + (IF conns'[c].state = "open" THEN 1 ELSE 0)
                                             - (IF conns[c].state = "open" THEN 1 ELSE 0)
      BY <2>1, <2>4, <3>2, <3>3, <3>5
    <3>7. subscriptionCount' = subscriptionCount + (IF conns'[c].subscribed THEN 1 ELSE 0)
                                                 - (IF conns[c].subscribed THEN 1 ELSE 0)
      BY <2>1, <3>2, <3>3, <3>4, <3>5
    <3>8. Gateway!CountersExact'
      BY <3>2, <3>3, <3>6, <3>7, CountsMove
    <3>9. \A q \in Conns : Shaped(conns'[q]) /\ conns'[q].pending \subseteq conns[q].pending
      BY <3>2, <3>3 DEF GatewayTypeOK
    <3> QED  BY <2>1, <2>2, <3>3, <3>8, <3>9, QuietStep
  <2> QED  BY <1>4, <2>3, <2>4 DEF Gateway!Upgrade
<1>5. ASSUME NEW c \in Conns, Gateway!Subscribe(c) PROVE GatewayInv'
  <2>1. Gateway!Open(c) /\ UNCHANGED <<now, issued, authorized>>
    BY <1>5 DEF Gateway!Subscribe, Gateway!log
  <2>2. PICK link : /\ Gateway!Continue(c, link)
                    /\ link = IF conns[c].subscribed THEN conns[c]
                              ELSE [conns[c] EXCEPT !.subscribed = TRUE, !.unread = 0]
    BY <1>5 DEF Gateway!Subscribe
  <2>3. Shaped(link) /\ link.state = "open" /\ link.pending = conns[c].pending
    <3>1. CASE link = conns[c]
      BY <1>2, <2>1, <3>1
    <3>2. CASE link = [conns[c] EXCEPT !.subscribed = TRUE, !.unread = 0]
      <4>1. PICK x : x = [conns[c] EXCEPT !.subscribed = TRUE]
        OBVIOUS
      <4>2. Shaped(x) /\ x.state = "open" /\ x.pending = conns[c].pending
        BY <1>2, <2>1, <4>1, Resubscribed
      <4>3. link = [x EXCEPT !.unread = 0]
        BY <3>2, <4>1
      <4> QED  BY <4>2, <4>3, Reread
    <3> QED  BY <2>2, <3>1, <3>2
  <2> QED  BY <1>1, <2>1, <2>2, <2>3
<1>6. ASSUME NEW c \in Conns, Gateway!Unsubscribe(c) PROVE GatewayInv'
  <2>1. Gateway!Open(c) /\ UNCHANGED <<now, issued, authorized>>
    BY <1>6 DEF Gateway!Unsubscribe, Gateway!log
  <2>2. PICK link : Gateway!Continue(c, link) /\ link = [conns[c] EXCEPT !.subscribed = FALSE]
    BY <1>6 DEF Gateway!Unsubscribe
  <2>3. Shaped(link) /\ link.state = "open" /\ link.pending = conns[c].pending
    BY <1>2, <2>1, <2>2, Resubscribed
  <2> QED  BY <1>1, <2>1, <2>2, <2>3
<1>7. ASSUME NEW c \in Conns, Gateway!OtherFrame(c) \/ Gateway!OrderRefused(c) PROVE GatewayInv'
  <2>1. Gateway!Open(c) /\ UNCHANGED <<now, issued, authorized>> /\ Gateway!Continue(c, conns[c])
    BY <1>7 DEF Gateway!OtherFrame, Gateway!OrderRefused, Gateway!log
  <2> QED  BY <1>1, <1>2, <2>1
<1>8. ASSUME NEW c \in Conns, Gateway!Disconnect(c) PROVE GatewayInv'
  <2>1. Gateway!Open(c) /\ UNCHANGED <<now, issued, authorized>>
    BY <1>8 DEF Gateway!Disconnect, Gateway!log
  <2>2. Gateway!Continue(c, conns[c])
    <3>1. connectionCount' = connectionCount - (IF FALSE THEN 0 ELSE 1)
      BY <1>8 DEF Gateway!Disconnect
    <3>2. subscriptionCount \in Int
      <4>1. Subscribed \in SUBSET Conns
        BY DEF Subscribed
      <4>2. Cardinality(Subscribed) \in Nat
        BY GatewayCounts, <4>1, FS_Subset, FS_CardinalityType DEF Gateway!GatewayAssumption
      <4> QED  BY GatewayCounts, <4>2 DEF Gateway!CountersExact, Subscribed
    <3>3. subscriptionCount' = subscriptionCount
            + (IF conns[c].subscribed /\ FALSE THEN 1 ELSE 0) - (IF conns[c].subscribed THEN 1 ELSE 0)
      BY <1>8, <3>2 DEF Gateway!Disconnect
    <3>4. conns' = [conns EXCEPT ![c] = IF FALSE THEN conns[c] ELSE [Gateway!NoConn EXCEPT !.state = "closed"]]
      BY <1>8 DEF Gateway!Disconnect
    <3>5. FALSE \in BOOLEAN
      OBVIOUS
    <3> QED  BY <3>1, <3>3, <3>4, <3>5 DEF Gateway!Continue
  <2> QED  BY <1>1, <1>2, <2>1, <2>2
<1>9. ASSUME NEW c \in Conns, Gateway!Push(c) PROVE GatewayInv'
  <2>1. Gateway!Open(c) /\ UNCHANGED <<now, issued, authorized>>
    BY <1>9 DEF Gateway!Push, Gateway!log
  <2>2. CASE conns' = [conns EXCEPT ![c].unread = FeedCapacity] /\ UNCHANGED Gateway!counters
    <3>1. PICK link : link = [conns[c] EXCEPT !.unread = FeedCapacity]
      OBVIOUS
    <3>2. Shaped(link) /\ link.state = "open" /\ link.pending = conns[c].pending
          /\ link.subscribed = conns[c].subscribed
      BY <1>2, <2>1, <3>1, Reread
    <3>3. /\ conns'[c] = link /\ conns' = [q \in Conns |-> conns'[q]]
          /\ \A q \in Conns \ {c} : conns'[q] = conns[q]
      BY <2>2, <3>1 DEF GatewayTypeOK
    <3>4. \A q \in Conns : /\ conns'[q].state = "open" <=> conns[q].state = "open"
                           /\ conns'[q].subscribed = conns[q].subscribed
                           /\ Shaped(conns'[q]) /\ conns'[q].pending = conns[q].pending
      BY <1>2, <2>1, <3>2, <3>3 DEF GatewayTypeOK
    <3>5. {q \in Conns : Gateway!Open(q)}' = {q \in Conns : Gateway!Open(q)}
          /\ {q \in Conns : Gateway!Open(q) /\ conns[q].subscribed}' = {q \in Conns : Gateway!Open(q) /\ conns[q].subscribed}
      BY <3>4 DEF Gateway!Open
    <3>6. Gateway!CountersExact'
      BY <2>2, <3>5 DEF Gateway!CountersExact, Gateway!counters
    <3>7. now' \in Int
      BY <2>1 DEF GatewayTypeOK
    <3> QED  BY <2>1, <3>3, <3>4, <3>6, <3>7, QuietStep
  <2>3. CASE Gateway!Continue(c, [conns[c] EXCEPT !.unread = @ - 1])
    <3>1. PICK link : Gateway!Continue(c, link) /\ link = [conns[c] EXCEPT !.unread = @ - 1]
      BY <2>3
    <3>2. Shaped(link) /\ link.state = "open" /\ link.pending = conns[c].pending
      BY <1>2, <2>1, <3>1, Reread
    <3> QED  BY <1>1, <2>1, <3>1, <3>2
  <2> QED  BY <1>9, <2>2, <2>3 DEF Gateway!Push
<1>10. CASE Gateway!Surface
  <2>1. /\ conns' = [c \in Conns |-> IF Gateway!Open(c) /\ conns[c].subscribed /\ ~Gateway!Lagged(conns[c])
                                     THEN [conns[c] EXCEPT !.unread = @ + 1] ELSE conns[c]]
        /\ UNCHANGED <<now, Gateway!counters, issued, authorized>>
    BY <1>10 DEF Gateway!Surface, Gateway!log
  <2>2. ASSUME NEW q \in Conns
        PROVE  /\ conns'[q].state = "open" <=> conns[q].state = "open"
               /\ conns'[q].subscribed = conns[q].subscribed
               /\ Shaped(conns'[q]) /\ conns'[q].pending = conns[q].pending
    <3>1. Shaped(conns[q])
      BY DEF GatewayTypeOK
    <3>2. CASE conns'[q] = conns[q]
      BY <3>1, <3>2
    <3>3. CASE conns'[q] = [conns[q] EXCEPT !.unread = @ + 1]
      BY <3>1, <3>3 DEF Shaped
    <3> QED  BY <2>1, <3>2, <3>3
  <2>3. {q \in Conns : Gateway!Open(q)}' = {q \in Conns : Gateway!Open(q)}
        /\ {q \in Conns : Gateway!Open(q) /\ conns[q].subscribed}' = {q \in Conns : Gateway!Open(q) /\ conns[q].subscribed}
    BY <2>2 DEF Gateway!Open
  <2>4. Gateway!CountersExact'
    BY <2>1, <2>3 DEF Gateway!CountersExact, Gateway!counters
  <2>5. now' \in Int /\ conns' = [q \in Conns |-> conns'[q]]
    BY <2>1 DEF GatewayTypeOK
  <2> QED  BY <2>1, <2>2, <2>4, <2>5, QuietStep
<1>11. ASSUME NEW c \in Conns, Gateway!OrderIntent(c) PROVE GatewayInv'
  <2>1. Gateway!Open(c) /\ UNCHANGED now /\ now \in Int
    BY <1>11 DEF Gateway!OrderIntent, GatewayTypeOK
  <2>2. PICK action \in {Gateway!OrderAction(b) : b \in {b \in Gateway!Bodies : ~Gateway!Refuses(c, b)}} :
          IF Gateway!Authorize(conns[c].info, action, FALSE) = "Allow"
          THEN Gateway!Continue(c, conns[c]) /\ Gateway!Authorized(c, 0, action) /\ UNCHANGED issued
          ELSE /\ issued' = Append(issued, [conn |-> c, action |-> action, at |-> now])
               /\ Gateway!Continue(c, [conns[c] EXCEPT !.pending = @ \cup
                    {[ref |-> Len(issued) + 1, action |-> action, expires |-> now + Validity]}])
               /\ UNCHANGED authorized
    BY <1>11 DEF Gateway!OrderIntent
  <2>3. action = "SubmitPaperOrder"
    BY <2>2 DEF Gateway!OrderAction, Gateway!Refuses
  <2>4. CASE Gateway!Continue(c, conns[c]) /\ Gateway!Authorized(c, 0, action) /\ UNCHANGED issued
    <3>1. /\ conns' = [q \in Conns |-> conns'[q]]
          /\ \A q \in Conns : Shaped(conns'[q])
          /\ Gateway!CountersExact'
          /\ \A q \in Conns \ {c} : conns'[q] = conns[q]
          /\ conns'[c] = conns[c] \/ conns'[c].pending = {}
      BY <1>2, <2>1, <2>4, Continued
    <3>2. PICK live \in BOOLEAN :
            authorized' = Append(authorized, [conn |-> c, ref |-> 0, action |-> action, at |-> now,
                                              live |-> live])
      BY <2>4 DEF Gateway!Authorized
    <3>3. PICK new : new = [conn |-> c, ref |-> 0, action |-> action, at |-> now, live |-> live]
      OBVIOUS
    <3>4. new \in Orderings /\ new.ref = 0 /\ new.action = "SubmitPaperOrder"
      BY <2>1, <2>3, <3>3 DEF Orderings
    <3>5. /\ authorized' \in Seq(Orderings) /\ Len(authorized') = Len(authorized) + 1
          /\ DOMAIN authorized' = 1 .. Len(authorized) + 1 /\ DOMAIN authorized = 1 .. Len(authorized)
          /\ \A k \in DOMAIN authorized : authorized'[k] = authorized[k]
          /\ authorized'[Len(authorized) + 1] = new /\ Len(authorized) \in Nat
      BY <3>2, <3>3, <3>4 DEF GatewayTypeOK
    <3>6. \A k \in DOMAIN authorized' : k \in DOMAIN authorized \/ authorized'[k] = new
      BY <3>5
    <3>7. GatewayTypeOK'
      BY <2>1, <2>4, <3>1, <3>5 DEF GatewayTypeOK
    <3>8. \A q \in Conns : \A p \in conns'[q].pending : WaitingOK(q, p)'
      <4>1. ASSUME NEW q \in Conns, NEW p \in conns'[q].pending PROVE WaitingOK(q, p)'
        <5>1. WaitingOK(q, p)
          BY <3>1, <4>1
        <5>2. DOMAIN issued = 1 .. Len(issued) /\ Len(issued) \in Nat /\ p.ref \in DOMAIN issued
          BY <5>1 DEF WaitingOK, GatewayTypeOK
        <5>3. p.ref # 0
          BY <5>2
        <5>4. \A k \in DOMAIN authorized' : authorized'[k].ref # p.ref
          BY <3>4, <3>5, <3>6, <5>1, <5>3 DEF WaitingOK
        <5> QED  BY <2>4, <5>1, <5>4 DEF WaitingOK
      <4> QED  BY <4>1
    <3>9. \A k \in DOMAIN authorized' : authorized'[k].ref # 0 => authorized'[k].ref \in DOMAIN issued'
      BY <2>4, <3>4, <3>5, <3>6
    <3>10. Gateway!ConfirmationsSound'
      BY <2>4, <3>4, <3>5, <3>6 DEF Gateway!ConfirmationsSound
    <3> QED  BY <3>1, <3>7, <3>8, <3>9, <3>10
  <2>5. CASE /\ issued' = Append(issued, [conn |-> c, action |-> action, at |-> now])
             /\ Gateway!Continue(c, [conns[c] EXCEPT !.pending = @ \cup
                  {[ref |-> Len(issued) + 1, action |-> action, expires |-> now + Validity]}])
             /\ UNCHANGED authorized
    <3>1. PICK new : new = [ref |-> Len(issued) + 1, action |-> action, expires |-> now + Validity]
      OBVIOUS
    <3>2. PICK link : Gateway!Continue(c, link) /\ link = [conns[c] EXCEPT !.pending = @ \cup {new}]
      BY <2>5, <3>1
    <3>3. Shaped(link) /\ link.state = "open" /\ link.pending = conns[c].pending \cup {new}
      BY <1>2, <2>1, <3>2, Rewaited
    <3>4. /\ conns' = [q \in Conns |-> conns'[q]]
          /\ \A q \in Conns : Shaped(conns'[q])
          /\ Gateway!CountersExact'
          /\ \A q \in Conns \ {c} : conns'[q] = conns[q]
          /\ conns'[c] = link \/ conns'[c].pending = {}
      BY <2>1, <3>2, <3>3, Continued
    <3>5. PICK entry : entry = [conn |-> c, action |-> action, at |-> now]
      OBVIOUS
    <3>6. entry \in Orders
      BY <2>1, <2>3, <3>5 DEF Orders
    <3>7. /\ issued' \in Seq(Orders) /\ DOMAIN issued = 1 .. Len(issued)
          /\ DOMAIN issued' = 1 .. Len(issued) + 1 /\ Len(issued) \in Nat
          /\ \A k \in DOMAIN issued : issued'[k] = issued[k]
          /\ issued'[Len(issued) + 1] = entry
      BY <2>5, <3>5, <3>6 DEF GatewayTypeOK
    <3>8. GatewayTypeOK'
      BY <2>1, <2>5, <3>4, <3>7 DEF GatewayTypeOK
    <3>9. \A q, p : WaitingOK(q, p) => WaitingOK(q, p)'
      BY <2>5, <3>7 DEF WaitingOK
    <3>10. WaitingOK(c, new)'
      <4>1. new.ref = Len(issued) + 1 /\ new.action = action /\ new.expires = now + Validity
        BY <3>1
      <4>2. entry.conn = c /\ entry.action = action /\ entry.at = now
        BY <3>5
      <4>3. \A k \in DOMAIN authorized : authorized[k].ref # Len(issued) + 1
        <5> SUFFICES ASSUME NEW k \in DOMAIN authorized, authorized[k].ref = Len(issued) + 1
                     PROVE  FALSE
          OBVIOUS
        <5>1. authorized[k].ref # 0
          BY <3>7
        <5> QED  BY <3>7, <5>1
      <4> QED  BY <2>5, <3>7, <4>1, <4>2, <4>3 DEF WaitingOK
    <3>11. \A q \in Conns : \A p \in conns'[q].pending : WaitingOK(q, p)'
      BY <3>3, <3>4, <3>9, <3>10
    <3>12. \A k \in DOMAIN authorized' : authorized'[k].ref # 0 => authorized'[k].ref \in DOMAIN issued'
      BY <2>5, <3>7
    <3>13. Gateway!ConfirmationsSound'
      BY <2>5, <3>7 DEF Gateway!ConfirmationsSound
    <3> QED  BY <3>4, <3>8, <3>11, <3>12, <3>13
  <2> QED  BY <2>2, <2>4, <2>5
<1>12. ASSUME NEW c \in Conns, Gateway!Confirm(c) PROVE GatewayInv'
  <2>1. Gateway!Open(c) /\ UNCHANGED <<now, issued>> /\ now \in Int
    BY <1>12 DEF Gateway!Confirm, GatewayTypeOK
  <2>2. PICK ref \in DOMAIN issued :
          LET found == {p \in conns[c].pending : p.ref = ref}
              after == [conns[c] EXCEPT !.pending = @ \ found]
          IN  \/ Gateway!Continue(c, after) /\ UNCHANGED authorized
              \/ \E p \in found :
                   /\ now < p.expires /\ Gateway!Authorize(conns[c].info, p.action, TRUE) = "Allow"
                   /\ Gateway!Continue(c, after) /\ Gateway!Authorized(c, ref, p.action)
    BY <1>12 DEF Gateway!Confirm
  <2>3. PICK found : found = {p \in conns[c].pending : p.ref = ref}
    OBVIOUS
  <2>4. PICK after : after = [conns[c] EXCEPT !.pending = @ \ found]
    OBVIOUS
  <2>5. Shaped(after) /\ after.state = "open" /\ after.pending = conns[c].pending \ found
    BY <1>2, <2>1, <2>4, Rewaited
  <2>6. CASE Gateway!Continue(c, after) /\ UNCHANGED authorized
    BY <1>1, <2>1, <2>5, <2>6
  <2>7. ASSUME NEW p \in found, now < p.expires, Gateway!Continue(c, after), Gateway!Authorized(c, ref, p.action)
        PROVE  GatewayInv'
    <3>1. /\ conns' = [q \in Conns |-> conns'[q]]
          /\ \A q \in Conns : Shaped(conns'[q])
          /\ Gateway!CountersExact'
          /\ \A q \in Conns \ {c} : conns'[q] = conns[q]
          /\ conns'[c] = after \/ conns'[c].pending = {}
      BY <2>1, <2>5, <2>7, Continued
    <3>2. PICK live \in BOOLEAN :
            authorized' = Append(authorized, [conn |-> c, ref |-> ref, action |-> p.action,
                                              at |-> now, live |-> live])
      BY <2>7 DEF Gateway!Authorized
    <3>3. /\ DOMAIN issued = 1 .. Len(issued) /\ Len(issued) \in Nat
          /\ ref \in Nat /\ ref # 0 /\ issued[ref] \in Orders
      BY DEF GatewayTypeOK
    <3>4. WaitingOK(c, p) /\ p.ref = ref
      BY <2>3, <2>7
    <3>5. p.action = "SubmitPaperOrder"
      BY <3>3, <3>4 DEF WaitingOK, Orders
    <3>6. PICK new : new = [conn |-> c, ref |-> ref, action |-> p.action, at |-> now, live |-> live]
      OBVIOUS
    <3>7. /\ new \in Orderings /\ new.ref = ref /\ new.action = p.action /\ new.conn = c /\ new.at = now
      BY <2>1, <3>3, <3>5, <3>6 DEF Orderings
    <3>8. /\ authorized' \in Seq(Orderings) /\ Len(authorized') = Len(authorized) + 1
          /\ DOMAIN authorized' = 1 .. Len(authorized) + 1 /\ DOMAIN authorized = 1 .. Len(authorized)
          /\ \A k \in DOMAIN authorized : authorized'[k] = authorized[k]
          /\ authorized'[Len(authorized) + 1] = new /\ Len(authorized) \in Nat
      BY <3>2, <3>6, <3>7 DEF GatewayTypeOK
    <3>9. \A k \in DOMAIN authorized' : k \in DOMAIN authorized \/ (k = Len(authorized) + 1 /\ authorized'[k] = new)
      BY <3>8
    <3>10. GatewayTypeOK'
      BY <2>1, <3>1, <3>8 DEF GatewayTypeOK
    <3>11. ASSUME NEW q \in Conns, NEW w \in conns'[q].pending PROVE WaitingOK(q, w)'
      <4>1. WaitingOK(q, w) /\ w.ref # ref
        <5>1. CASE q = c
          BY <2>3, <2>5, <3>1, <3>11, <5>1
        <5>2. CASE q # c
          BY <3>1, <3>4, <3>11, <5>2 DEF WaitingOK
        <5> QED  BY <5>1, <5>2
      <4>2. \A k \in DOMAIN authorized' : authorized'[k].ref # w.ref
        BY <3>7, <3>8, <3>9, <4>1 DEF WaitingOK
      <4> QED  BY <2>1, <4>1, <4>2 DEF WaitingOK
    <3>12. \A k \in DOMAIN authorized' : authorized'[k].ref # 0 => authorized'[k].ref \in DOMAIN issued'
      BY <2>1, <3>7, <3>8, <3>9
    <3>13. Gateway!ConfirmationsSound'
      <4> SUFFICES ASSUME NEW k \in DOMAIN authorized'
                   PROVE  /\ authorized'[k].action = "SubmitPaperOrder"
                          /\ authorized'[k].ref # 0 =>
                               /\ issued[authorized'[k].ref].conn = authorized'[k].conn
                               /\ issued[authorized'[k].ref].action = authorized'[k].action
                               /\ authorized'[k].at < issued[authorized'[k].ref].at + Validity
                               /\ \A j \in DOMAIN authorized' :
                                    authorized'[j].ref = authorized'[k].ref => j = k
        BY <2>1 DEF Gateway!ConfirmationsSound
      <4>1. CASE k \in DOMAIN authorized
        <5>1. authorized'[k] = authorized[k] /\ authorized[k].ref # ref
          BY <3>4, <3>8, <4>1 DEF WaitingOK
        <5> QED  BY <3>7, <3>8, <3>9, <4>1, <5>1 DEF Gateway!ConfirmationsSound
      <4>2. CASE k = Len(authorized) + 1 /\ authorized'[k] = new
        <5>1. \A j \in DOMAIN authorized' : authorized'[j].ref = ref => j = k
          BY <3>4, <3>8, <3>9, <4>2 DEF WaitingOK
        <5> QED  BY <2>7, <3>4, <3>5, <3>7, <4>2, <5>1 DEF WaitingOK
      <4> QED  BY <3>9, <4>1, <4>2
    <3> QED  BY <3>1, <3>10, <3>11, <3>12, <3>13
  <2> QED  BY <2>2, <2>3, <2>4, <2>6, <2>7
<1>13. CASE \/ \E g \in DOMAIN grants : Gateway!RevokeGrant(g)
            \/ Gateway!Validate \/ Gateway!RevokeSession \/ Gateway!Tick \/ UNCHANGED Gateway!vars
  BY <1>3, <1>13 DEF Gateway!RevokeGrant, Gateway!Validate, Gateway!RevokeSession, Gateway!Tick,
     Gateway!vars, Gateway!counters, Gateway!log, GatewayTypeOK
<1> QED  BY <1>4, <1>5, <1>6, <1>7, <1>8, <1>9, <1>10, <1>11, <1>12, <1>13 DEF Gateway!Next

\* CountersExact and ConfirmationsSound (lib.rs and frames.rs of aether-gateway):
\* the health counters are the connections and subscriptions there are, and a
\* confirmation is good once, on its connection and in time.
THEOREM GatewayIsSound ==
  Gateway!GatewayAssumption => (Gateway!Spec => [](Gateway!CountersExact /\ Gateway!ConfirmationsSound))
<1> SUFFICES ASSUME Gateway!GatewayAssumption PROVE Gateway!Spec => [](Gateway!CountersExact /\ Gateway!ConfirmationsSound)
  OBVIOUS
<1>1. Gateway!Init => GatewayInv
  BY GatewayInit
<1>2. GatewayInv /\ [Gateway!Next]_(Gateway!vars) => GatewayInv'
  BY GatewayNext
<1>3. GatewayInv => Gateway!CountersExact /\ Gateway!ConfirmationsSound
  BY DEF GatewayInv
<1> QED  BY <1>1, <1>2, <1>3, PTL DEF Gateway!Spec
-----------------------------------------------------------------------------
(* VenueOrders: BudgetHeld and SentOnce for any requests, bucket and rate, *)
(* and any number of attempts.                                             *)

OrderStages == {"idle", "gate", "token", "sent", "backoff", "done"}
OrderKinds  == {"none", "submit", "account", "data"}
Refusals    == {"precondition", "invalid_argument", "internal"}
OrderAnswers == {"none", "ok", "unparsable", "breaker", "unavailable"} \cup Refusals
AskedRequests == [stage : OrderStages, kind : OrderKinds, attempt : Int, wake : Int, answer : OrderAnswers]

OrdersTypeOK ==
  /\ venue \in Client!Venues
  /\ now \in Nat
  /\ bucket \in [Client!Clients -> [tokens : 0 .. Capacity, at : 0 .. now]]
  /\ sends \in [Client!Clients -> Seq(0 .. now)]
  /\ req \in [Requests -> AskedRequests]
  /\ taken \in [Requests -> Nat]

\* Of a bucket b and the times at which its client sent: from any request to the
\* last, what left since and what is left is no more than the bucket holds and
\* what it gained.
RoomFor(b, times) ==
  \A i \in DOMAIN times :
    Len(times) - i + 1 + b.tokens <= Capacity + Rate * (b.at - times[i])

\* A client has kept its budget up to a time.
Keeps(b, times, t) ==
  /\ b \in [tokens : 0 .. Capacity, at : 0 .. t] /\ times \in Seq(0 .. t)
  /\ RoomFor(b, times) /\ Client!WithinBudget(times)

\* A request y whose order the venue has n times: an order is at the venue only
\* after its one request.
RequestFits(y, n) ==
  /\ n <= 1
  /\ y.stage # "done" => n = 0 /\ y.answer = "none"
  /\ y.kind # "submit" => n = 0
  /\ y.answer \in Refusals => n = 0
  /\ y.kind = "submit" /\ y.answer = "ok" => n = 1

TakenOK(r) == RequestFits(req[r], taken[r])

OrdersInv ==
  /\ OrdersTypeOK
  /\ \A c \in Client!Clients : Keeps(bucket[c], sends[c], now)
  /\ \A r \in Requests : TakenOK(r)

\* Nothing is sent, and time goes on or not.
LEMMA BudgetStays ==
  ASSUME NEW t \in Nat, NEW u \in Nat, t <= u, NEW b, NEW times, Keeps(b, times, t)
  PROVE  Keeps(b, times, u)
<1>1. PICK S : S = 0 .. t
  OBVIOUS
<1>2. PICK T : T = 0 .. u
  OBVIOUS
<1>3. S \subseteq T
  BY <1>1, <1>2
<1>4. times \in Seq(T)
  BY <1>1, <1>3 DEF Keeps
<1>5. b \in [tokens : 0 .. Capacity, at : T]
  BY <1>1, <1>3 DEF Keeps
<1> QED  BY <1>2, <1>4, <1>5 DEF Keeps

LEMMA Distributes ==
  ASSUME NEW k \in Nat, NEW a \in Int, NEW b \in Int, NEW c \in Int
  PROVE  k * (a - b) + k * (c - a) = k * (c - b)
  OBVIOUS

\* A token is taken of what the bucket has by now.
LEMMA BudgetSent ==
  ASSUME Client!OrdersAssumption, NEW u \in Nat, NEW b, NEW times, Keeps(b, times, u),
         Client!Refill(b, u).tokens >= 1,
         NEW rest, rest = [Client!Refill(b, u) EXCEPT !.tokens = @ - 1],
         NEW after, after = Append(times, u)
  PROVE  Keeps(rest, after, u)
<1>1. /\ u \in Nat /\ Capacity \in Nat /\ Rate \in Nat
      /\ b.tokens \in Nat /\ b.at \in Nat /\ b.at <= u
  BY DEF Keeps, Client!OrdersAssumption
<1>2. PICK gain \in Nat : gain = Rate * (u - b.at)
  <2>1. u - b.at \in Nat
    BY <1>1
  <2>2. Rate * (u - b.at) \in Nat
    BY <1>1, <2>1
  <2> QED  BY <2>2
<1>3. PICK t \in Int : /\ t <= b.tokens + gain /\ t <= Capacity
                       /\ Client!Refill(b, u) = [tokens |-> t, at |-> u]
  <2>1. PICK filled \in Nat : filled = b.tokens + gain
    BY <1>1
  <2>2. Client!Refill(b, u) = [tokens |-> IF filled < Capacity THEN filled ELSE Capacity, at |-> u]
    BY <1>2, <2>1 DEF Client!Refill
  <2>3. CASE filled < Capacity
    <3>1. Client!Refill(b, u) = [tokens |-> filled, at |-> u]
      BY <2>2, <2>3
    <3>2. filled \in Int /\ filled <= b.tokens + gain /\ filled <= Capacity
      BY SMTT(40), <1>1, <2>1, <2>3
    <3> QED  BY <3>1, <3>2
  <2>4. CASE ~(filled < Capacity)
    <3>1. Client!Refill(b, u) = [tokens |-> Capacity, at |-> u]
      BY <2>2, <2>4
    <3>2. Capacity \in Int /\ Capacity <= b.tokens + gain /\ Capacity <= Capacity
      BY SMTT(40), <1>1, <2>1, <2>4
    <3> QED  BY <3>1, <3>2
  <2> QED  BY <2>3, <2>4
<1>4. t >= 1 /\ rest = [tokens |-> t - 1, at |-> u]
  BY <1>3
<1>5. rest.tokens = t - 1 /\ rest.at = u
  BY <1>4
<1>6. PICK n \in Nat : n = Len(times)
  <2>1. PICK S : times \in Seq(S)
    BY DEF Keeps
  <2> QED  BY <2>1, LenProperties
<1>7. /\ after \in Seq(0 .. u) /\ Len(after) = n + 1 /\ DOMAIN after = 1 .. n + 1
      /\ after[n + 1] = u /\ DOMAIN times = 1 .. n
      /\ \A i \in 1 .. n : after[i] = times[i] /\ times[i] \in Nat
  <2>1. PICK S : S = 0 .. u
    OBVIOUS
  <2>2. times \in Seq(S) /\ u \in S
    BY <1>1, <2>1 DEF Keeps
  <2>3. \A i \in 1 .. n : times[i] \in S
    BY <1>6, <2>2
  <2>4. S \subseteq Nat
    BY <1>1, <2>1
  <2> QED  BY <1>6, <2>1, <2>2, <2>3, <2>4
<1>8. \A i \in 1 .. n : n - i + 1 + b.tokens <= Capacity + Rate * (b.at - times[i])
  BY <1>6, <1>7 DEF Keeps, RoomFor
<1>9. ASSUME NEW i \in 1 .. n + 1
      PROVE  (n + 1) - i + 1 + (t - 1) <= Capacity + Rate * (u - after[i])
  <2>1. CASE i = n + 1
    <3>1. Rate * (u - u) = 0
      BY <1>1
    <3> QED  BY <1>1, <1>3, <1>6, <1>7, <2>1, <3>1
  <2>2. CASE i \in 1 .. n
    <3>1. PICK s \in Nat : s = times[i] /\ after[i] = s
      BY <1>7, <2>2
    <3>2. PICK past \in Int : past = Rate * (b.at - s)
      BY SMTT(40), <1>1
    <3>3. Rate * (u - s) = past + gain
      <4>1. PICK k \in Nat, a \in Nat, c \in Nat : k = Rate /\ a = b.at /\ c = u
        BY <1>1
      <4>2. k * (a - s) + k * (c - a) = k * (c - s)
        BY Distributes
      <4> QED  BY <1>2, <3>2, <4>1, <4>2
    <3>4. n - i + 1 + b.tokens <= Capacity + past
      BY <1>8, <2>2, <3>1, <3>2
    <3>5. (n + 1) - i + 1 + (t - 1) <= Capacity + (past + gain)
      <4>1. PICK tok \in Nat, cap \in Nat : tok = b.tokens /\ cap = Capacity
        BY <1>1
      <4>2. t <= tok + gain
        BY <1>3, <4>1
      <4>3. n - i + 1 + tok <= cap + past
        BY <3>4, <4>1
      <4>4. (n + 1) - i + 1 + (t - 1) <= cap + (past + gain)
        <5>1. PICK m \in Int : m = i
          OBVIOUS
        <5>2. n - m + 1 + tok <= cap + past
          BY <4>3, <5>1
        <5>3. (n + 1) - m + 1 + (t - 1) <= cap + (past + gain)
          <6>1. PICK span \in Int : span = n - m + 1
            BY SMTT(40)
          <6>2. span + tok <= cap + past
            BY <5>2, <6>1
          <6>3. span + t <= cap + (past + gain)
            BY SMTT(40), <4>2, <6>2
          <6>4. (n + 1) - m + 1 + (t - 1) = span + t
            BY SMTT(40), <6>1
          <6> QED  BY <6>3, <6>4
        <5> QED  BY <5>1, <5>3
      <4> QED  BY <4>1, <4>4
    <3> QED  BY <3>1, <3>3, <3>5
  <2>3. i = n + 1 \/ i \in 1 .. n
    OBVIOUS
  <2> QED  BY <2>1, <2>2, <2>3
<1>10. RoomFor(rest, after)
  BY <1>5, <1>7, <1>9 DEF RoomFor
<1>11. Client!WithinBudget(after)
  <2> SUFFICES ASSUME NEW i \in 1 .. n + 1, NEW j \in 1 .. n + 1, i <= j
               PROVE  j - i + 1 <= Capacity + Rate * (after[j] - after[i])
    BY <1>7 DEF Client!WithinBudget
  <2>1. CASE j = n + 1
    <3>1. PICK room \in Int : room = Rate * (u - after[i])
      BY SMTT(40), <1>1, <1>7
    <3>2. (n + 1) - i + 1 + (t - 1) <= Capacity + room
      BY <1>9, <3>1
    <3>3. Rate * (after[j] - after[i]) = room
      BY <1>7, <2>1, <3>1
    <3>4. PICK cap \in Nat : cap = Capacity
      BY <1>1
    <3>5. t >= 1 /\ (n + 1) - i + 1 + (t - 1) <= cap + room
      BY <1>4, <3>2, <3>4
    <3>6. (n + 1) - i + 1 <= cap + room
      BY SMTT(40), <3>5
    <3> QED  BY <2>1, <3>3, <3>4, <3>6
  <2>2. CASE j \in 1 .. n
    <3>1. i \in 1 .. n
      BY <2>2
    <3> QED  BY <1>7, <2>2, <3>1 DEF Keeps, Client!WithinBudget
  <2>3. j = n + 1 \/ j \in 1 .. n
    OBVIOUS
  <2> QED  BY <2>1, <2>2, <2>3
<1>12. rest \in [tokens : 0 .. Capacity, at : 0 .. u]
  BY <1>1, <1>3, <1>4
<1> QED  BY <1>7, <1>10, <1>11, <1>12 DEF Keeps

LEMMA OrdersInit == Client!OrdersAssumption /\ Client!Init => OrdersInv
<1> SUFFICES ASSUME Client!OrdersAssumption, Client!Init PROVE OrdersInv
  OBVIOUS
<1>1. Client!Idle \in AskedRequests /\ Client!Idle.stage = "idle" /\ Client!Idle.kind = "none" /\ Client!Idle.answer = "none"
  BY DEF Client!Idle, AskedRequests, OrderStages, OrderKinds, OrderAnswers
<1>2. OrdersTypeOK
  BY <1>1 DEF Client!Init, OrdersTypeOK, Client!OrdersAssumption
<1>3. \A r \in Requests : TakenOK(r)
  BY <1>1 DEF Client!Init, TakenOK, RequestFits, Refusals
<1>4. \A c \in Client!Clients : Keeps(bucket[c], sends[c], now)
  BY DEF Client!Init, Client!OrdersAssumption, Keeps, RoomFor, Client!WithinBudget
<1> QED  BY <1>2, <1>3, <1>4 DEF OrdersInv

\* One request goes on, and nothing is sent.
LEMMA RequestMoves ==
  ASSUME OrdersInv, NEW r \in Requests, NEW y \in AskedRequests, req' = [req EXCEPT ![r] = y],
         NEW n \in Nat, taken' = [taken EXCEPT ![r] = n],
         venue' = venue, now' = now, bucket' = bucket, sends' = sends, RequestFits(y, n)
  PROVE  OrdersInv'
<1>1. /\ req' \in [Requests -> AskedRequests] /\ taken' \in [Requests -> Nat]
      /\ req'[r] = y /\ taken'[r] = n
      /\ \A q \in Requests \ {r} : req'[q] = req[q] /\ taken'[q] = taken[q]
  BY DEF OrdersInv, OrdersTypeOK
<1>2. \A q \in Requests : TakenOK(q)'
  <2>1. TakenOK(r)'
    BY <1>1 DEF TakenOK
  <2>2. \A q \in Requests \ {r} : TakenOK(q)'
    BY <1>1 DEF OrdersInv, TakenOK
  <2> QED  BY <2>1, <2>2
<1> QED  BY <1>1, <1>2 DEF OrdersInv, OrdersTypeOK

\* The forms in which a request goes on.
LEMMA AskedFields ==
  ASSUME NEW x \in AskedRequests
  PROVE  /\ x = [stage |-> x.stage, kind |-> x.kind, attempt |-> x.attempt, wake |-> x.wake, answer |-> x.answer]
         /\ x.stage \in OrderStages /\ x.kind \in OrderKinds
         /\ x.attempt \in Int /\ x.wake \in Int /\ x.answer \in OrderAnswers
  BY DEF AskedRequests

LEMMA StageMoves ==
  ASSUME NEW x \in AskedRequests, NEW s \in OrderStages, NEW y, y = [x EXCEPT !.stage = s]
  PROVE  y \in AskedRequests /\ y.stage = s /\ y.kind = x.kind /\ y.answer = x.answer
<1>1. y = [stage |-> s, kind |-> x.kind, attempt |-> x.attempt, wake |-> x.wake, answer |-> x.answer]
  BY AskedFields
<1> QED  BY <1>1, AskedFields DEF AskedRequests

EndedAs(x, a)    == [x EXCEPT !.stage = "done", !.answer = a]
BackedOffTo(x, w) == [x EXCEPT !.stage = "backoff", !.attempt = @ + 1, !.wake = w]
Entering(k)      == [Client!Idle EXCEPT !.stage = "gate", !.kind = k]
RefusedAs(k, a)  == [Client!Idle EXCEPT !.stage = "done", !.kind = k, !.answer = a]

LEMMA RequestEnds ==
  ASSUME NEW x \in AskedRequests, NEW a \in OrderAnswers
  PROVE  /\ EndedAs(x, a) \in AskedRequests /\ EndedAs(x, a).stage = "done"
         /\ EndedAs(x, a).kind = x.kind /\ EndedAs(x, a).answer = a
<1> PICK y : y = EndedAs(x, a)
  OBVIOUS
<1>1. PICK z : z = [x EXCEPT !.stage = "done"]
  OBVIOUS
<1>2. z = [stage |-> "done", kind |-> x.kind, attempt |-> x.attempt, wake |-> x.wake, answer |-> x.answer]
  BY <1>1, AskedFields
<1>3. y = [z EXCEPT !.answer = a]
  BY <1>1 DEF EndedAs
<1>4. y = [stage |-> "done", kind |-> x.kind, attempt |-> x.attempt, wake |-> x.wake, answer |-> a]
  BY <1>2, <1>3
<1> QED  BY <1>4, AskedFields DEF AskedRequests, OrderStages

LEMMA RequestBacksOff ==
  ASSUME NEW x \in AskedRequests, NEW w \in Int
  PROVE  /\ BackedOffTo(x, w) \in AskedRequests /\ BackedOffTo(x, w).stage = "backoff"
         /\ BackedOffTo(x, w).kind = x.kind /\ BackedOffTo(x, w).answer = x.answer
<1> PICK y : y = BackedOffTo(x, w)
  OBVIOUS
<1>0. PICK z : z = [x EXCEPT !.stage = "backoff"]
  OBVIOUS
<1>3. z = [stage |-> "backoff", kind |-> x.kind, attempt |-> x.attempt, wake |-> x.wake, answer |-> x.answer]
  BY <1>0, AskedFields
<1>4. PICK v : v = [z EXCEPT !.attempt = x.attempt + 1]
  OBVIOUS
<1>5. v = [stage |-> "backoff", kind |-> x.kind, attempt |-> x.attempt + 1, wake |-> x.wake, answer |-> x.answer]
  BY <1>3, <1>4
<1>6. y = [v EXCEPT !.wake = w]
  BY <1>0, <1>3, <1>4 DEF BackedOffTo
<1>1. y = [stage |-> "backoff", kind |-> x.kind, attempt |-> x.attempt + 1, wake |-> w, answer |-> x.answer]
  BY <1>5, <1>6
<1>2. x.attempt + 1 \in Int
  BY AskedFields
<1> QED  BY <1>1, <1>2, AskedFields DEF AskedRequests, OrderStages

LEMMA RequestEnters ==
  ASSUME NEW k \in OrderKinds
  PROVE  /\ Entering(k) \in AskedRequests /\ Entering(k).stage = "gate"
         /\ Entering(k).kind = k /\ Entering(k).answer = "none"
<1> PICK a \in OrderAnswers : a = "none"
  BY DEF OrderAnswers
<1>1. Entering(k) = [stage |-> "gate", kind |-> k, attempt |-> 0, wake |-> 0, answer |-> a]
  <2>1. PICK z : z = [Client!Idle EXCEPT !.stage = "gate"]
    OBVIOUS
  <2>2. z = [stage |-> "gate", kind |-> "none", attempt |-> 0, wake |-> 0, answer |-> "none"]
    BY <2>1 DEF Client!Idle
  <2>3. Entering(k) = [z EXCEPT !.kind = k]
    BY <2>1 DEF Entering
  <2> QED  BY <2>2, <2>3
<1> QED  BY <1>1 DEF AskedRequests, OrderStages

LEMMA RefusedAtOnce ==
  ASSUME NEW k \in OrderKinds, NEW a \in OrderAnswers
  PROVE  /\ RefusedAs(k, a) \in AskedRequests /\ RefusedAs(k, a).stage = "done"
         /\ RefusedAs(k, a).kind = k /\ RefusedAs(k, a).answer = a
<1>1. RefusedAs(k, a) = [stage |-> "done", kind |-> k, attempt |-> 0, wake |-> 0, answer |-> a]
  <2>1. PICK z : z = [Client!Idle EXCEPT !.stage = "done"]
    OBVIOUS
  <2>2. z = [stage |-> "done", kind |-> "none", attempt |-> 0, wake |-> 0, answer |-> "none"]
    BY <2>1 DEF Client!Idle
  <2>3. PICK v : v = [z EXCEPT !.kind = k]
    OBVIOUS
  <2>4. v = [stage |-> "done", kind |-> k, attempt |-> 0, wake |-> 0, answer |-> "none"]
    BY <2>2, <2>3
  <2>5. RefusedAs(k, a) = [v EXCEPT !.answer = a]
    BY <2>1, <2>3 DEF RefusedAs
  <2> QED  BY <2>4, <2>5
<1> QED  BY <1>1 DEF AskedRequests, OrderStages

LEMMA OrdersNext == Client!OrdersAssumption /\ OrdersInv /\ [Client!Next]_(Client!vars) => OrdersInv'
<1> SUFFICES ASSUME Client!OrdersAssumption, OrdersInv, [Client!Next]_(Client!vars) PROVE OrdersInv'
  OBVIOUS
<1>0. ASSUME NEW r \in Requests
      PROVE  /\ req[r] \in AskedRequests /\ taken[r] \in Nat /\ TakenOK(r)
             /\ taken = [taken EXCEPT ![r] = taken[r]] /\ RequestFits(req[r], taken[r])
             /\ now \in Nat
  BY DEF OrdersInv, OrdersTypeOK, TakenOK
<1>1. ASSUME NEW r \in Requests, Client!Submit(r) PROVE OrdersInv'
  <2>1. PICK verdict \in Client!Verdicts : req' = [req EXCEPT ![r] =
         IF verdict = "go" THEN [Client!Idle EXCEPT !.stage = "gate", !.kind = "submit"]
         ELSE [Client!Idle EXCEPT !.stage = "done", !.kind = "submit", !.answer = verdict]]
    BY <1>1, Zenon DEF Client!Submit
  <2>2. /\ venue' = venue /\ now' = now /\ bucket' = bucket /\ sends' = sends
        /\ taken' = [taken EXCEPT ![r] = 0]
    BY <1>0, <1>1 DEF Client!Submit, RequestFits
  <2>3. verdict # "go" => verdict \in Refusals
    <3>1. \A o : Client!Checked(o) \in {"invalid_argument", "precondition", "go"}
      BY DEF Client!Checked
    <3>2. \A o : Client!Told(Client!Checked(o)) \in {"go"} \cup Refusals
      BY <3>1 DEF Client!Told, Refusals
    <3> QED  BY <3>2 DEF Client!Verdicts
  <2>4. CASE verdict = "go"
    <3>1. PICK y : y = [Client!Idle EXCEPT !.stage = "gate", !.kind = "submit"]
      OBVIOUS
    <3>2. y \in AskedRequests /\ y.stage = "gate" /\ y.kind = "submit" /\ y.answer = "none"
      <4>1. y = Entering("submit") /\ "submit" \in OrderKinds
        BY <3>1 DEF Entering, OrderKinds
      <4> QED  BY <4>1, RequestEnters
    <3>3. req' = [req EXCEPT ![r] = y] /\ RequestFits(y, 0)
      BY <2>1, <2>4, <3>1, <3>2 DEF RequestFits, Refusals
    <3> QED  BY <2>2, <3>2, <3>3, RequestMoves
  <2>5. CASE verdict # "go"
    <3>1. PICK y : y = [Client!Idle EXCEPT !.stage = "done", !.kind = "submit", !.answer = verdict]
      OBVIOUS
    <3>2. y \in AskedRequests /\ y.stage = "done" /\ y.kind = "submit" /\ y.answer = verdict
      <4>1. verdict \in OrderAnswers /\ "submit" \in OrderKinds
        BY <2>3, <2>5 DEF OrderKinds, OrderAnswers
      <4>2. y = RefusedAs("submit", verdict)
        BY <3>1 DEF RefusedAs
      <4> QED  BY <4>1, <4>2, RefusedAtOnce
    <3>3. req' = [req EXCEPT ![r] = y] /\ RequestFits(y, 0)
      BY <2>1, <2>3, <2>5, <3>1, <3>2 DEF RequestFits, Refusals
    <3> QED  BY <2>2, <3>2, <3>3, RequestMoves
  <2> QED  BY <2>4, <2>5
<1>2. ASSUME NEW r \in Requests, Client!Ask(r) PROVE OrdersInv'
  <2>1. PICK kind \in {"account", "data"}, ok \in BOOLEAN :
          req' = [req EXCEPT ![r] =
            IF ok THEN [Client!Idle EXCEPT !.stage = "gate", !.kind = kind]
            ELSE [Client!Idle EXCEPT !.stage = "done", !.kind = kind, !.answer = Client!Told("precondition")]]
    BY <1>2 DEF Client!Ask
  <2>2. /\ venue' = venue /\ now' = now /\ bucket' = bucket /\ sends' = sends
        /\ taken' = [taken EXCEPT ![r] = 0]
    BY <1>0, <1>2 DEF Client!Ask, RequestFits
  <2>3. Client!Told("precondition") \in Refusals
    BY DEF Client!Told, Refusals
  <2>4. PICK a : a = Client!Told("precondition")
    OBVIOUS
  <2>5. CASE ok
    <3>1. PICK y : y = [Client!Idle EXCEPT !.stage = "gate", !.kind = kind]
      OBVIOUS
    <3>2. y \in AskedRequests /\ y.stage = "gate" /\ y.kind = kind /\ y.answer = "none"
      <4>1. y = Entering(kind) /\ kind \in OrderKinds
        BY <3>1 DEF Entering, OrderKinds
      <4> QED  BY <4>1, RequestEnters
    <3>3. req' = [req EXCEPT ![r] = y] /\ RequestFits(y, 0)
      BY <2>1, <2>5, <3>1, <3>2 DEF RequestFits, Refusals
    <3> QED  BY <2>2, <3>2, <3>3, RequestMoves
  <2>6. CASE ~ok
    <3>1. PICK y : y = [Client!Idle EXCEPT !.stage = "done", !.kind = kind, !.answer = a]
      OBVIOUS
    <3>2. y \in AskedRequests /\ y.stage = "done" /\ y.kind = kind /\ y.answer = a
      <4>1. a \in OrderAnswers /\ kind \in OrderKinds
        BY <2>3, <2>4, <2>6 DEF OrderKinds, OrderAnswers
      <4>2. y = RefusedAs(kind, a)
        BY <3>1 DEF RefusedAs
      <4> QED  BY <4>1, <4>2, RefusedAtOnce
    <3>3. req' = [req EXCEPT ![r] = y] /\ RequestFits(y, 0)
      BY <2>1, <2>3, <2>4, <2>6, <3>1, <3>2 DEF RequestFits, Refusals
    <3> QED  BY <2>2, <3>2, <3>3, RequestMoves
  <2> QED  BY <2>5, <2>6
<1>3. ASSUME NEW r \in Requests, Client!Again(r) PROVE OrdersInv'
  <2>1. /\ venue' = venue /\ now' = now /\ bucket' = bucket /\ sends' = sends
        /\ taken' = [taken EXCEPT ![r] = 0] /\ req' = [req EXCEPT ![r] = Client!Idle]
    BY <1>0, <1>3 DEF Client!Again, RequestFits
  <2>2. Client!Idle \in AskedRequests /\ Client!Idle.stage = "idle" /\ Client!Idle.kind = "none" /\ Client!Idle.answer = "none"
    BY DEF Client!Idle, AskedRequests, OrderStages, OrderKinds, OrderAnswers
  <2>3. RequestFits(Client!Idle, 0)
    BY <2>2 DEF RequestFits, Refusals
  <2> QED  BY <2>1, <2>2, <2>3, RequestMoves
<1>4. ASSUME NEW r \in Requests, Client!Gate(r) \/ Client!Wake(r) PROVE OrdersInv'
  <2>1. /\ venue' = venue /\ now' = now /\ bucket' = bucket /\ sends' = sends /\ taken' = taken /\ req[r].stage \in {"gate", "backoff"}
        /\ \/ req' = [req EXCEPT ![r].stage = "done", ![r].answer = "breaker"]
           \/ req' = [req EXCEPT ![r].stage = "token"]
           \/ req' = [req EXCEPT ![r].stage = "gate"]
    BY <1>4 DEF Client!Gate, Client!Wake
  <2>2. taken' = [taken EXCEPT ![r] = 0] /\ req[r].answer = "none"
    BY <1>0, <2>1 DEF RequestFits
  <2>3. CASE req' = [req EXCEPT ![r].stage = "done", ![r].answer = "breaker"]
    <3>1. PICK y : y = [req[r] EXCEPT !.stage = "done", !.answer = "breaker"]
      OBVIOUS
    <3>2. req' = [req EXCEPT ![r] = y]
      BY <2>3, <3>1 DEF OrdersInv, OrdersTypeOK
    <3>3. y \in AskedRequests /\ y.stage = "done" /\ y.kind = req[r].kind /\ y.answer = "breaker"
      <4>1. PICK x \in AskedRequests : x = req[r]
        BY <1>0
      <4>2. y = EndedAs(x, "breaker") /\ "breaker" \in OrderAnswers
        BY <3>1, <4>1 DEF OrderAnswers, EndedAs
      <4> QED  BY <4>1, <4>2, RequestEnds
    <3>4. RequestFits(y, 0)
      BY <3>3 DEF RequestFits, Refusals
    <3> QED  BY <2>1, <2>2, <3>2, <3>3, <3>4, RequestMoves
  <2>4. ASSUME NEW s \in {"token", "gate"}, req' = [req EXCEPT ![r].stage = s] PROVE OrdersInv'
    <3>1. PICK y : y = [req[r] EXCEPT !.stage = s]
      OBVIOUS
    <3>2. req' = [req EXCEPT ![r] = y]
      BY <2>4, <3>1 DEF OrdersInv, OrdersTypeOK
    <3>3. y \in AskedRequests /\ y.stage = s /\ y.kind = req[r].kind /\ y.answer = req[r].answer
      BY <1>0, <3>1, StageMoves DEF OrderStages
    <3>4. RequestFits(y, 0)
      BY <2>2, <3>3 DEF RequestFits, Refusals
    <3> QED  BY <2>1, <2>2, <3>2, <3>3, <3>4, RequestMoves
  <2> QED  BY <2>1, <2>3, <2>4
<1>5. ASSUME NEW r \in Requests, Client!Send(r) PROVE OrdersInv'
  <2> PICK d : d = Client!ClientOf(r)
    OBVIOUS
  <2>0. d \in Client!Clients
    BY DEF Client!ClientOf, Client!Clients
  <2>9. PICK full : full = Client!Refill(bucket[d], now)
    OBVIOUS
  <2>10. PICK rest : rest = [full EXCEPT !.tokens = @ - 1]
    OBVIOUS
  <2>1. /\ req[r].stage = "token" /\ UNCHANGED <<venue, now, taken>>
        /\ full.tokens >= 1
        /\ bucket' = [bucket EXCEPT ![d] = rest]
        /\ sends' = [sends EXCEPT ![d] = Append(@, now)]
        /\ req' = [req EXCEPT ![r].stage = "sent"]
    BY <1>5, <2>9, <2>10 DEF Client!Send
  <2>11. PICK after : after = Append(sends[d], now)
    OBVIOUS
  <2>12. Keeps(rest, after, now)
    <3>1. Keeps(bucket[d], sends[d], now) /\ now \in Nat
      BY <2>0 DEF OrdersInv, OrdersTypeOK
    <3> QED  BY <2>1, <2>9, <2>10, <2>11, <3>1, BudgetSent
  <2>13. bucket' = [bucket EXCEPT ![d] = rest] /\ sends' = [sends EXCEPT ![d] = after]
    BY <2>1, <2>11
  <2>2. /\ bucket' \in [Client!Clients -> [tokens : 0 .. Capacity, at : 0 .. now']]
        /\ sends' \in [Client!Clients -> Seq(0 .. now')]
        /\ \A c \in Client!Clients : Keeps(bucket'[c], sends'[c], now')
    <3>1. now' = now
      BY <2>1
    <3>2. rest \in [tokens : 0 .. Capacity, at : 0 .. now] /\ after \in Seq(0 .. now)
      BY <2>12 DEF Keeps
    <3>3. /\ bucket' \in [Client!Clients -> [tokens : 0 .. Capacity, at : 0 .. now]]
          /\ sends' \in [Client!Clients -> Seq(0 .. now)]
      BY <2>13, <3>2 DEF OrdersInv, OrdersTypeOK
    <3>4. bucket'[d] = rest /\ sends'[d] = after
      BY <2>0, <2>13 DEF OrdersInv, OrdersTypeOK
    <3>5. \A c \in Client!Clients \ {d} : bucket'[c] = bucket[c] /\ sends'[c] = sends[c]
      BY <2>13 DEF OrdersInv, OrdersTypeOK
    <3>6. \A c \in Client!Clients : Keeps(bucket'[c], sends'[c], now)
      BY <2>12, <3>4, <3>5 DEF OrdersInv
    <3> QED  BY <3>1, <3>3, <3>6
  <2>3. PICK y : y = [req[r] EXCEPT !.stage = "sent"]
    OBVIOUS
  <2>4. req' = [req EXCEPT ![r] = y]
    BY <2>1, <2>3 DEF OrdersInv, OrdersTypeOK
  <2>5. y \in AskedRequests /\ y.stage = "sent" /\ y.kind = req[r].kind /\ y.answer = req[r].answer
    BY <1>0, <2>3, StageMoves DEF OrderStages
  <2>6. req' \in [Requests -> AskedRequests] /\ req'[r] = y /\ \A q \in Requests \ {r} : req'[q] = req[q]
    BY <2>4, <2>5 DEF OrdersInv, OrdersTypeOK
  <2>7. \A q \in Requests : TakenOK(q)'
    <3>1. TakenOK(r)'
      BY <1>0, <2>1, <2>5, <2>6 DEF TakenOK, RequestFits
    <3>2. \A q \in Requests \ {r} : TakenOK(q)'
      BY <2>1, <2>6 DEF OrdersInv, TakenOK
    <3> QED  BY <3>1, <3>2
  <2> QED  BY <2>1, <2>2, <2>6, <2>7 DEF OrdersInv, OrdersTypeOK
<1>6. ASSUME NEW r \in Requests, Client!Succeeds(r) PROVE OrdersInv'
  <2>1. /\ req[r].stage = "sent" /\ venue' = venue /\ now' = now /\ bucket' = bucket /\ sends' = sends
        /\ IF req[r].kind = "submit" THEN Client!Takes(r) ELSE UNCHANGED taken
    BY <1>6 DEF Client!Succeeds
  <2>2. PICK a \in {"ok", "unparsable"} : req' = [req EXCEPT ![r].stage = "done", ![r].answer = a]
    BY <1>6 DEF Client!Succeeds, Client!Ends
  <2>3. taken[r] = 0 /\ taken = [taken EXCEPT ![r] = taken[r]]
    BY <1>0, <2>1 DEF RequestFits
  <2>4. PICK y : y = [req[r] EXCEPT !.stage = "done", !.answer = a]
    OBVIOUS
  <2>5. req' = [req EXCEPT ![r] = y]
    BY <2>2, <2>4 DEF OrdersInv, OrdersTypeOK
  <2>6. y \in AskedRequests /\ y.stage = "done" /\ y.kind = req[r].kind /\ y.answer = a
    <3>1. PICK x \in AskedRequests : x = req[r]
      BY <1>0
    <3>2. y = EndedAs(x, a) /\ a \in OrderAnswers
      BY <2>4, <3>1 DEF OrderAnswers, EndedAs
    <3> QED  BY <3>1, <3>2, RequestEnds
  <2>7. CASE req[r].kind = "submit"
    <3>1. taken' = [taken EXCEPT ![r] = 1]
      BY <2>1, <2>3, <2>7 DEF Client!Takes
    <3>2. RequestFits(y, 1)
      BY <2>6, <2>7 DEF RequestFits, Refusals
    <3> QED  BY <2>1, <2>5, <2>6, <3>1, <3>2, RequestMoves
  <2>8. CASE req[r].kind # "submit"
    <3>1. taken' = [taken EXCEPT ![r] = 0]
      BY <2>1, <2>3, <2>8
    <3>2. RequestFits(y, 0)
      BY <2>6, <2>8 DEF RequestFits, Refusals
    <3> QED  BY <2>1, <2>5, <2>6, <3>1, <3>2, RequestMoves
  <2> QED  BY <2>7, <2>8
<1>7. ASSUME NEW r \in Requests, NEW n \in {0, 1}, req[r].stage = "sent",
             venue' = venue, now' = now, bucket' = bucket, sends' = sends,
             taken' = [taken EXCEPT ![r] = n], req[r].kind # "submit" => n = 0,
             \/ n = 0 /\ req' = [req EXCEPT ![r].stage = "done", ![r].answer = "breaker"]
             \/ n = 0 /\ Client!Fails(r, 429)
             \/ Client!Fails(r, 500)
      PROVE  OrdersInv'
  <2>1. req[r].answer = "none" /\ now + 1 \in Int
    BY <1>0, <1>7 DEF RequestFits
  <2>2. \/ req' = [req EXCEPT ![r].stage = "done", ![r].answer = "breaker"]
        \/ req' = [req EXCEPT ![r].stage = "done", ![r].answer = "unavailable"]
        \/ n = 0 /\ req' = [req EXCEPT ![r].stage = "backoff", ![r].attempt = @ + 1, ![r].wake = now + 1]
    BY <1>7 DEF Client!Fails, Client!Ends, Client!Retries
  <2>3. ASSUME NEW a \in {"breaker", "unavailable"},
               req' = [req EXCEPT ![r].stage = "done", ![r].answer = a]
        PROVE  OrdersInv'
    <3>1. PICK y : y = [req[r] EXCEPT !.stage = "done", !.answer = a]
      OBVIOUS
    <3>2. req' = [req EXCEPT ![r] = y]
      BY <2>3, <3>1 DEF OrdersInv, OrdersTypeOK
    <3>3. y \in AskedRequests /\ y.stage = "done" /\ y.kind = req[r].kind /\ y.answer = a
      <4>1. PICK x \in AskedRequests : x = req[r]
        BY <1>0
      <4>2. y = EndedAs(x, a) /\ a \in OrderAnswers
        BY <3>1, <4>1 DEF OrderAnswers, EndedAs
      <4> QED  BY <4>1, <4>2, RequestEnds
    <3>4. RequestFits(y, n) /\ n \in Nat
      BY <1>7, <3>3 DEF RequestFits, Refusals
    <3> QED  BY <1>7, <3>2, <3>3, <3>4, RequestMoves
  <2>4. CASE n = 0 /\ req' = [req EXCEPT ![r].stage = "backoff", ![r].attempt = @ + 1, ![r].wake = now + 1]
    <3>1. PICK y : y = [req[r] EXCEPT !.stage = "backoff", !.attempt = @ + 1, !.wake = now + 1]
      OBVIOUS
    <3>2. req' = [req EXCEPT ![r] = y]
      BY <2>4, <3>1 DEF OrdersInv, OrdersTypeOK
    <3>3. y \in AskedRequests /\ y.stage = "backoff" /\ y.kind = req[r].kind /\ y.answer = req[r].answer
      <4>1. PICK x \in AskedRequests, w \in Int : x = req[r] /\ w = now + 1
        BY <1>0, <2>1
      <4>2. y = BackedOffTo(x, w)
        BY <3>1, <4>1 DEF BackedOffTo
      <4> QED  BY <4>1, <4>2, RequestBacksOff
    <3>4. RequestFits(y, n) /\ n \in Nat
      BY <2>1, <2>4, <3>3 DEF RequestFits, Refusals
    <3> QED  BY <1>7, <3>2, <3>3, <3>4, RequestMoves
  <2> QED  BY <2>2, <2>3, <2>4
<1>8. ASSUME NEW r \in Requests, Client!Limited(r) PROVE OrdersInv'
  <2>1. /\ req[r].stage = "sent" /\ venue' = venue /\ now' = now /\ bucket' = bucket /\ sends' = sends /\ taken' = taken
        /\ Client!Fails(r, 429) \/ req' = [req EXCEPT ![r].stage = "done", ![r].answer = "breaker"]
    BY <1>8 DEF Client!Limited, Client!Ends
  <2>2. taken' = [taken EXCEPT ![r] = 0]
    BY <1>0, <2>1 DEF RequestFits
  <2> QED  BY <1>7, <2>1, <2>2
<1>9. ASSUME NEW r \in Requests, Client!Lost(r) PROVE OrdersInv'
  <2>1. /\ req[r].stage = "sent" /\ venue' = venue /\ now' = now /\ bucket' = bucket /\ sends' = sends
        /\ Client!Fails(r, 500)
        /\ taken' = taken \/ (req[r].kind = "submit" /\ taken' = [taken EXCEPT ![r] = taken[r] + 1])
    BY <1>9 DEF Client!Lost, Client!Takes
  <2>2. taken[r] = 0
    BY <1>0, <2>1 DEF RequestFits
  <2>3. taken' = [taken EXCEPT ![r] = 0] \/ (req[r].kind = "submit" /\ taken' = [taken EXCEPT ![r] = 1])
    BY <1>0, <2>1, <2>2
  <2> QED  BY <1>7, <2>1, <2>3
<1>10. ASSUME Client!Tick \/ UNCHANGED Client!vars PROVE OrdersInv'
  <2>1. UNCHANGED <<venue, bucket, req, taken, sends>>
    BY <1>10 DEF Client!Tick, Client!vars
  <2>2. now' \in Nat /\ now <= now'
    BY <1>10 DEF Client!Tick, Client!vars, OrdersInv, OrdersTypeOK
  <2>3. ASSUME NEW c \in Client!Clients
        PROVE  Keeps(bucket[c], sends[c], now')
    BY <2>2, BudgetStays DEF OrdersInv, OrdersTypeOK
  <2>5. /\ bucket' \in [Client!Clients -> [tokens : 0 .. Capacity, at : 0 .. now']]
        /\ sends' \in [Client!Clients -> Seq(0 .. now')]
    BY <2>1, <2>3 DEF Keeps, OrdersInv, OrdersTypeOK
  <2>4. \A r \in Requests : TakenOK(r)'
    BY <2>1 DEF OrdersInv, TakenOK
  <2> QED  BY <2>1, <2>2, <2>3, <2>4, <2>5 DEF OrdersInv, OrdersTypeOK
<1> QED  BY <1>1, <1>2, <1>3, <1>4, <1>5, <1>6, <1>8, <1>9, <1>10 DEF Client!Next, Client!Step

\* BudgetHeld and SentOnce (client.rs of the venue packs): in no stretch of
\* time more requests leave than the bucket holds and gains, and an order that
\* the venue may have taken is never sent again by the client.
THEOREM OrdersAreSound == Client!OrdersAssumption => (Client!Spec => [](Client!BudgetHeld /\ Client!SentOnce))
<1> SUFFICES ASSUME Client!OrdersAssumption PROVE Client!Spec => [](Client!BudgetHeld /\ Client!SentOnce)
  OBVIOUS
<1>1. Client!Init => OrdersInv
  BY OrdersInit
<1>2. OrdersInv /\ [Client!Next]_(Client!vars) => OrdersInv'
  BY OrdersNext
<1>3. OrdersInv => Client!BudgetHeld /\ Client!SentOnce
  BY DEF OrdersInv, Keeps, Client!BudgetHeld, Client!SentOnce, TakenOK, RequestFits, Refusals
<1> QED  BY <1>1, <1>2, <1>3, PTL DEF Client!Spec

-----------------------------------------------------------------------------
(* Automations: AutomationsSound and StoppedForGood for any workers,       *)
(* slots and budget.                                                       *)

WorkerStates == {"idle", "begun", "locked"}
ProposalStates == {"none", "proposed", "application_authorized"}

\* The row of an automation that is there.
TaskRow ==
  /\ task = [status |-> task.status, cron |-> task.cron, runs |-> task.runs,
             cost |-> task.cost, last |-> task.last]
  /\ task.status \in Automation!Status /\ task.runs \in Nat /\ task.cost \in Nat /\ task.last \in Nat

\* The row of no automation.
NoTask == task = [status |-> "none"] /\ dispatched = << >>

\* The last slot handed out is the one the row remembers.
LastKept == dispatched # << >> => task.last = dispatched[Len(dispatched)]

\* A worker that has begun has an automation; one that holds the row's lock
\* has the row as it is, and is alone.
WorkerOK(w) ==
  /\ worker[w].pc \in WorkerStates /\ worker[w].slot \in Nat
  /\ worker[w] = [pc |-> worker[w].pc, slot |-> worker[w].slot,
                  grant |-> worker[w].grant, row |-> worker[w].row]
  /\ worker[w].pc # "idle" => TaskRow
  /\ worker[w].pc = "locked" =>
       /\ worker[w].row = task
       /\ \A v \in Workers : worker[v].pc = "locked" => v = w

AutomationTypeOK ==
  /\ now \in Nat /\ dispatched \in Seq(Nat)
  /\ DOMAIN worker = Workers
  /\ proposal \in ProposalStates
  /\ receipts \in Seq([kind : Automation!Kinds, stepUp : BOOLEAN])

AutomationInv ==
  /\ AutomationTypeOK
  /\ NoTask \/ TaskRow
  /\ LastKept
  /\ \A w \in Workers : WorkerOK(w)
  /\ Automation!RunsCounted /\ Automation!NoRepeat /\ Automation!AuthorizedOnce

\* Only a step-up lets an application be authorized.
LEMMA AppliesSteppedUp ==
  ASSUME NEW kind, NEW g, NEW stepUp \in BOOLEAN, NEW t,
         Automation!Evaluate("who", kind, g, "ApplySelfImprovement", Automation!Context(t, 4, TRUE, stepUp)) = "Allow"
  PROVE  stepUp
<1>1. Automation!NeedsStepUp("ApplySelfImprovement", Automation!Context(t, 4, TRUE, stepUp))
  BY DEF Automation!NeedsStepUp, Automation!StepUpActions
<1>2. Automation!Context(t, 4, TRUE, stepUp).stepUp
  BY <1>1 DEF Automation!Evaluate
<1> QED  BY <1>2 DEF Automation!Context

LEMMA AutomationInit == Automation!AutomationAssumption /\ Automation!Init => AutomationInv
<1> SUFFICES ASSUME Automation!AutomationAssumption, Automation!Init PROVE AutomationInv
  OBVIOUS
<1>1. now = 1 /\ task = [status |-> "none"] /\ task.status = "none" /\ dispatched = << >>
      /\ proposal = "none" /\ receipts = << >> /\ worker = [w \in Workers |-> Automation!Idle]
  BY DEF Automation!Init
<1>2. \A w \in Workers : WorkerOK(w)
  BY <1>1 DEF Automation!Idle, WorkerOK, WorkerStates
<1> QED  BY <1>1, <1>2 DEF AutomationInv, AutomationTypeOK, NoTask, LastKept, ProposalStates,
            Automation!RunsCounted, Automation!NoRepeat, Automation!AuthorizedOnce

\* A worker goes on, and nothing else changes.
LEMMA WorkerMoves ==
  ASSUME AutomationInv, NEW w \in Workers, NEW y, worker' = [worker EXCEPT ![w] = y],
         UNCHANGED <<now, task, dispatched, proposal, receipts>>,
         y.pc \in WorkerStates, y.slot \in Nat,
         y = [pc |-> y.pc, slot |-> y.slot, grant |-> y.grant, row |-> y.row],
         y.pc # "idle" => TaskRow,
         y.pc = "locked" => y.row = task /\ \A v \in Workers \ {w} : worker[v].pc # "locked"
  PROVE  AutomationInv'
<1>1. DOMAIN worker' = Workers /\ worker'[w] = y /\ \A v \in Workers \ {w} : worker'[v] = worker[v]
  BY DEF AutomationInv, AutomationTypeOK
<1>2. (NoTask \/ TaskRow)' /\ (TaskRow => TaskRow')
  BY DEF AutomationInv, NoTask, TaskRow
<1>3. WorkerOK(w)'
  BY <1>1, <1>2 DEF WorkerOK
<1>4. ASSUME NEW v \in Workers \ {w} PROVE WorkerOK(v)'
  BY <1>1, <1>2, <1>4 DEF AutomationInv, WorkerOK
<1>5. \A v \in Workers : WorkerOK(v)'
  BY <1>3, <1>4
<1> QED  BY <1>1, <1>2, <1>5 DEF AutomationInv, AutomationTypeOK, LastKept,
            Automation!RunsCounted, Automation!NoRepeat, Automation!AuthorizedOnce

\* A worker is done.
LEMMA WorkerRests ==
  ASSUME AutomationInv, NEW w \in Workers, worker' = [worker EXCEPT ![w] = Automation!Idle],
         UNCHANGED <<now, task, dispatched, proposal, receipts>>
  PROVE  AutomationInv'
<1>1. PICK y : y = Automation!Idle
  OBVIOUS
<1>2. y = [pc |-> "idle", slot |-> 0, grant |-> [revoked |-> TRUE], row |-> 0]
  BY <1>1 DEF Automation!Idle
<1>3. y.pc = "idle" /\ y.slot = 0
  BY <1>2
<1>4. y = [pc |-> y.pc, slot |-> y.slot, grant |-> y.grant, row |-> y.row]
  BY <1>2
<1>5. y.pc \in WorkerStates /\ y.slot \in Nat /\ y.pc # "locked"
  BY <1>3 DEF WorkerStates
<1>6. worker' = [worker EXCEPT ![w] = y]
  BY <1>1
<1> QED  BY <1>3, <1>4, <1>5, <1>6, WorkerMoves

\* The row's status changes while nobody holds its lock.
LEMMA TaskStops ==
  ASSUME AutomationInv, NEW s \in Automation!Status, task.status # "none", Automation!RowFree(Workers),
         task' = [task EXCEPT !.status = s],
         UNCHANGED <<now, worker, dispatched, proposal, receipts>>
  PROVE  AutomationInv'
<1>1. TaskRow
  BY DEF AutomationInv, NoTask
<1>2. task' = [status |-> s, cron |-> task.cron, runs |-> task.runs, cost |-> task.cost, last |-> task.last]
  BY <1>1 DEF TaskRow
<1>3. TaskRow' /\ task'.status # "none" /\ task'.cron = task.cron /\ task'.runs = task.runs
      /\ task'.cost = task.cost /\ task'.last = task.last
  BY <1>1, <1>2 DEF TaskRow, Automation!Status
<1>4. ASSUME NEW w \in Workers PROVE WorkerOK(w)'
  BY <1>3 DEF AutomationInv, WorkerOK, Automation!RowFree
<1> QED  BY <1>3, <1>4 DEF AutomationInv, AutomationTypeOK, LastKept, Automation!RunsCounted,
            Automation!NoRepeat, Automation!AuthorizedOnce

LEMMA OneMoreRun ==
  ASSUME NEW k \in Nat, NEW cost \in Nat, NEW per \in Nat, cost = k * per
  PROVE  cost + per = (k + 1) * per
  OBVIOUS

\* A claim is committed.
LEMMA ClaimCommits ==
  ASSUME Automation!AutomationAssumption, AutomationInv, NEW w \in Workers, Automation!Commit(w)
  PROVE  AutomationInv' /\ Automation!StoppedStep
<1>1. worker[w].pc = "locked" /\ worker' = [worker EXCEPT ![w] = Automation!Idle]
      /\ UNCHANGED <<now, proposal, receipts>>
  BY DEF Automation!Commit
<1>2. TaskRow /\ worker[w].row = task /\ worker[w].slot \in Nat
      /\ \A v \in Workers \ {w} : worker[v].pc # "locked"
  BY <1>1 DEF AutomationInv, WorkerOK
<1>3. DOMAIN worker' = Workers /\ worker'[w] = Automation!Idle /\ \A v \in Workers \ {w} : worker'[v] = worker[v]
  BY <1>1 DEF AutomationInv, AutomationTypeOK
<1>4. CASE task' = task /\ dispatched' = dispatched
  <2>1. AutomationInv'
    BY <1>1, <1>4, WorkerRests
  <2> QED  BY <1>4, <2>1 DEF Automation!StoppedStep
<1>5. CASE /\ Automation!Due(task, worker[w].slot) /\ Automation!InBudget(task)
           /\ task' = [task EXCEPT !.runs = task.runs + 1, !.cost = task.cost + CostPerRun,
                                   !.last = worker[w].slot]
           /\ dispatched' = Append(dispatched, worker[w].slot)
  <2>1. PICK slot \in Nat : slot = worker[w].slot
    BY <1>2
  <2>2. PICK count \in Nat, cost \in Nat : count = task.runs + 1 /\ cost = task.cost + CostPerRun
    BY <1>2 DEF TaskRow, Automation!AutomationAssumption
  <2>3. task.status = "active" /\ task.last # slot /\ Automation!Matches(task.cron, slot)
        /\ count <= MaxRuns /\ cost <= MaxCost
    BY <1>5, <2>1, <2>2 DEF Automation!Due, Automation!InBudget
  <2>4. task' = [status |-> task.status, cron |-> task.cron, runs |-> count, cost |-> cost, last |-> slot]
    <3>1. PICK a : a = [task EXCEPT !.runs = count]
      OBVIOUS
    <3>2. a = [status |-> task.status, cron |-> task.cron, runs |-> count, cost |-> task.cost, last |-> task.last]
      BY <1>2, <3>1 DEF TaskRow
    <3>3. PICK b : b = [a EXCEPT !.cost = cost]
      OBVIOUS
    <3>4. b = [status |-> task.status, cron |-> task.cron, runs |-> count, cost |-> cost, last |-> task.last]
      BY <3>2, <3>3
    <3>5. task' = [b EXCEPT !.last = slot]
      BY <1>5, <2>1, <2>2, <3>1, <3>3
    <3> QED  BY <3>4, <3>5
  <2>5. TaskRow' /\ task'.status = task.status /\ task'.cron = task.cron /\ task'.runs = count
        /\ task'.cost = cost /\ task'.last = slot
    BY <1>2, <2>4 DEF TaskRow
  <2>6. PICK n \in Nat : n = Len(dispatched)
    BY DEF AutomationInv, AutomationTypeOK
  <2>7. /\ dispatched' \in Seq(Nat) /\ Len(dispatched') = n + 1 /\ DOMAIN dispatched' = 1 .. n + 1
        /\ DOMAIN dispatched = 1 .. n /\ dispatched'[n + 1] = slot /\ dispatched' # << >>
        /\ \A k \in 1 .. n : dispatched'[k] = dispatched[k]
    <3>1. dispatched \in Seq(Nat) /\ dispatched' = Append(dispatched, slot)
      BY <1>5, <2>1 DEF AutomationInv, AutomationTypeOK
    <3>2. DOMAIN dispatched = 1 .. n
      BY <2>6, <3>1
    <3> QED  BY <2>6, <3>1, <3>2
  <2>8. LastKept'
    BY <2>5, <2>7 DEF LastKept
  <2>9. Automation!RunsCounted'
    <3>1. task.status # "none"
      BY <2>3
    <3>2. task.runs = n /\ task.cost = task.runs * CostPerRun /\ task.runs \in Nat /\ task.cost \in Nat
      BY <1>2, <2>6, <3>1 DEF AutomationInv, Automation!RunsCounted, TaskRow
    <3>3. cost = count * CostPerRun
      BY <2>2, <3>2, OneMoreRun DEF Automation!AutomationAssumption
    <3>4. count = n + 1
      BY <2>2, <3>2
    <3> QED  BY <2>3, <2>5, <2>7, <3>3, <3>4 DEF Automation!RunsCounted
  <2>10. Automation!NoRepeat'
    <3>1. n > 0 => dispatched[n] # slot
      BY <2>3, <2>6, <2>7 DEF AutomationInv, LastKept
    <3> SUFFICES ASSUME NEW k \in 1 .. n + 1
                 PROVE  /\ Automation!Matches(task'.cron, dispatched'[k])
                        /\ k < n + 1 => dispatched'[k] # dispatched'[k + 1]
      BY <2>7 DEF Automation!NoRepeat
    <3>2. CASE k = n + 1
      BY <2>3, <2>5, <2>7, <3>2
    <3>3. CASE k = n /\ k \in 1 .. n
      BY <2>5, <2>6, <2>7, <3>1, <3>3 DEF AutomationInv, Automation!NoRepeat
    <3>4. CASE k < n
      <4>1. k \in 1 .. n /\ k + 1 \in 1 .. n
        BY <3>4
      <4> QED  BY <2>5, <2>6, <2>7, <3>4, <4>1 DEF AutomationInv, Automation!NoRepeat
    <3>5. k = n + 1 \/ (k = n /\ k \in 1 .. n) \/ k < n
      OBVIOUS
    <3> QED  BY <3>2, <3>3, <3>4, <3>5
  <2>11. ASSUME NEW v \in Workers PROVE WorkerOK(v)'
    <3>1. CASE v = w
      BY <1>3, <3>1 DEF WorkerOK, WorkerStates, Automation!Idle
    <3>2. CASE v # w
      BY <1>2, <1>3, <2>5, <3>2 DEF AutomationInv, WorkerOK
    <3> QED  BY <3>1, <3>2
  <2>12. Automation!AuthorizedOnce'
    BY <1>1 DEF AutomationInv, Automation!AuthorizedOnce
  <2>13. Automation!StoppedStep
    BY <2>3 DEF Automation!StoppedStep
  <2> QED  BY <1>1, <1>3, <2>5, <2>7, <2>8, <2>9, <2>10, <2>11, <2>12, <2>13 DEF AutomationInv,
              AutomationTypeOK
<1> QED  BY <1>2, <1>4, <1>5 DEF Automation!Commit

\* The proposal goes on.
LEMMA ProposalMoves ==
  ASSUME AutomationInv, Automation!ProposalStep
  PROVE  AutomationInv'
<1>1. UNCHANGED <<now, task, worker, dispatched>>
  BY DEF Automation!ProposalStep, Automation!Propose, Automation!Authorize
<1>2. TaskRow <=> TaskRow'
  BY <1>1 DEF TaskRow
<1>3. (NoTask \/ TaskRow)' /\ LastKept' /\ Automation!RunsCounted' /\ Automation!NoRepeat' /\ \A w \in Workers : WorkerOK(w)'
  BY <1>1, <1>2 DEF AutomationInv, NoTask, LastKept, Automation!RunsCounted, Automation!NoRepeat,
     WorkerOK
<1>4. CASE Automation!Propose
  <2>1. proposal = "none" /\ proposal' = "proposed" /\ receipts' = receipts
    BY <1>4 DEF Automation!Propose
  <2> QED  BY <1>1, <1>3, <2>1 DEF AutomationInv, AutomationTypeOK, ProposalStates,
              Automation!AuthorizedOnce
<1>5. ASSUME NEW kind \in Automation!Kinds, NEW stepUp \in BOOLEAN, Automation!Authorize(kind, stepUp) PROVE AutomationInv'
  <2>1. stepUp
    BY <1>5, AppliesSteppedUp DEF Automation!Authorize
  <2>2. /\ kind = "human" /\ proposal = "proposed" /\ proposal' = "application_authorized"
        /\ receipts' = Append(receipts, [kind |-> kind, stepUp |-> stepUp])
    BY <1>5 DEF Automation!Authorize
  <2>3. Len(receipts) = 0 /\ receipts \in Seq([kind : Automation!Kinds, stepUp : BOOLEAN])
    BY <2>2 DEF AutomationInv, AutomationTypeOK, Automation!AuthorizedOnce
  <2>4. PICK rec \in [kind : Automation!Kinds, stepUp : BOOLEAN] :
          rec = [kind |-> kind, stepUp |-> stepUp] /\ rec.kind = "human" /\ rec.stepUp = stepUp
    BY <2>2
  <2>5. receipts' \in Seq([kind : Automation!Kinds, stepUp : BOOLEAN]) /\ Len(receipts') = 1
        /\ DOMAIN receipts' = {1} /\ receipts'[1] = rec
    BY <2>2, <2>3, <2>4
  <2>6. rec.stepUp
    BY <2>1, <2>4
  <2>7. Automation!AuthorizedOnce'
    BY <2>2, <2>4, <2>5, <2>6 DEF Automation!AuthorizedOnce
  <2> QED  BY <1>1, <1>3, <2>2, <2>5, <2>7 DEF AutomationInv, AutomationTypeOK, ProposalStates
<1> QED  BY <1>4, <1>5 DEF Automation!ProposalStep

LEMMA AutomationNext ==
  Automation!AutomationAssumption /\ AutomationInv /\ [Automation!Next]_(Automation!vars) => AutomationInv' /\ Automation!StoppedStep
<1> SUFFICES ASSUME Automation!AutomationAssumption, AutomationInv, [Automation!Next]_(Automation!vars) PROVE AutomationInv' /\ Automation!StoppedStep
  OBVIOUS
<1>1. CASE Automation!Schedule
  <2>1. task.status = "none" /\ UNCHANGED <<now, worker, dispatched, proposal, receipts>>
        /\ MaxRuns > 0 /\ CostPerRun <= MaxCost
    BY <1>1 DEF Automation!Schedule, Automation!MaySchedule
  <2>2. PICK cron : task' = [status |-> "active", cron |-> cron, runs |-> 0, cost |-> 0, last |-> 0]
    BY <1>1 DEF Automation!Schedule
  <2>3. NoTask
    BY <2>1 DEF AutomationInv, TaskRow, Automation!Status
  <2>4. TaskRow' /\ task'.runs = 0 /\ task'.cost = 0 /\ dispatched' = << >>
    BY <2>1, <2>2, <2>3 DEF TaskRow, Automation!Status, NoTask
  <2>5. \A w \in Workers : WorkerOK(w)'
    BY <2>1, <2>3, <2>4 DEF AutomationInv, WorkerOK, NoTask, TaskRow, Automation!Status
  <2>6. Automation!RunsCounted'
    BY <2>4, <2>1 DEF Automation!RunsCounted, Automation!AutomationAssumption
  <2>7. Automation!NoRepeat' /\ LastKept' /\ Automation!AuthorizedOnce'
    BY <2>1, <2>4 DEF Automation!NoRepeat, LastKept, AutomationInv, Automation!AuthorizedOnce
  <2> QED  BY <2>1, <2>3, <2>4, <2>5, <2>6, <2>7 DEF AutomationInv, AutomationTypeOK,
              Automation!StoppedStep, NoTask
<1>2. CASE Automation!Tick \/ Automation!RevokeGrant \/ UNCHANGED Automation!vars
  <2>1. UNCHANGED <<task, worker, dispatched, proposal, receipts>> /\ now' \in Nat
    BY <1>2 DEF Automation!Tick, Automation!RevokeGrant, Automation!vars, AutomationInv,
       AutomationTypeOK
  <2>2. TaskRow <=> TaskRow'
    BY <2>1 DEF TaskRow
  <2> QED  BY <2>1, <2>2 DEF AutomationInv, AutomationTypeOK, NoTask, LastKept, WorkerOK,
              Automation!RunsCounted, Automation!NoRepeat, Automation!AuthorizedOnce, Automation!StoppedStep
<1>3. CASE Automation!Pause \/ Automation!RevokeTask
  <2>1. task.status # "none" /\ Automation!RowFree(Workers) /\ UNCHANGED <<now, worker, dispatched, proposal, receipts>>
        /\ \E s \in Automation!Status : task' = [task EXCEPT !.status = s]
    BY <1>3 DEF Automation!Pause, Automation!RevokeTask, Automation!Status
  <2> QED  BY <2>1, TaskStops DEF Automation!StoppedStep
<1>4. CASE Automation!ProposalStep
  <2>1. dispatched' = dispatched
    BY <1>4 DEF Automation!ProposalStep, Automation!Propose, Automation!Authorize
  <2> QED  BY <1>4, <2>1, ProposalMoves DEF Automation!StoppedStep
<1>5. ASSUME NEW w \in Workers, Automation!Begin(w) \/ Automation!Lock(w) \/ Automation!Crash(w) PROVE AutomationInv' /\ Automation!StoppedStep
  <2>1. UNCHANGED <<now, task, dispatched, proposal, receipts>>
    BY <1>5 DEF Automation!Begin, Automation!Lock, Automation!Crash
  <2>2. WorkerOK(w) /\ now \in Nat /\ DOMAIN worker = Workers
    BY DEF AutomationInv, AutomationTypeOK
  <2>3. CASE Automation!Begin(w)
    <3>1. PICK slot \in 1 .. now : worker' = [worker EXCEPT ![w] =
            [Automation!Idle EXCEPT !.pc = "begun", !.slot = slot, !.grant = grant]]
      BY <2>3 DEF Automation!Begin
    <3>2. TaskRow
      BY <2>3 DEF Automation!Begin, AutomationInv, NoTask
    <3>3. PICK y : y = [Automation!Idle EXCEPT !.pc = "begun", !.slot = slot, !.grant = grant]
      OBVIOUS
    <3>4. y = [pc |-> "begun", slot |-> slot, grant |-> grant, row |-> 0]
      <4>1. PICK a : a = [Automation!Idle EXCEPT !.pc = "begun"]
        OBVIOUS
      <4>2. a = [pc |-> "begun", slot |-> 0, grant |-> [revoked |-> TRUE], row |-> 0]
        BY <4>1 DEF Automation!Idle
      <4>3. PICK b : b = [a EXCEPT !.slot = slot]
        OBVIOUS
      <4>4. b = [pc |-> "begun", slot |-> slot, grant |-> [revoked |-> TRUE], row |-> 0]
        BY <4>2, <4>3
      <4>5. y = [b EXCEPT !.grant = grant]
        BY <3>3, <4>1, <4>3
      <4> QED  BY <4>4, <4>5
    <3>5. slot \in Nat
      BY <2>2
    <3>6. y.pc = "begun" /\ y.slot \in Nat /\ y = [pc |-> y.pc, slot |-> y.slot, grant |-> y.grant, row |-> y.row]
      BY <3>4, <3>5
    <3>7. AutomationInv'
      BY <2>1, <3>1, <3>2, <3>3, <3>6, WorkerMoves DEF WorkerStates
    <3> QED  BY <2>1, <3>7 DEF Automation!StoppedStep
  <2>4. CASE Automation!Lock(w)
    <3>1. worker[w].pc = "begun" /\ Automation!RowFree(Workers \ {w})
          /\ worker' = [worker EXCEPT ![w].pc = "locked", ![w].row = task]
      BY <2>4 DEF Automation!Lock
    <3>2. PICK y : y = [worker[w] EXCEPT !.pc = "locked", !.row = task]
      OBVIOUS
    <3>3. worker' = [worker EXCEPT ![w] = y]
      BY <2>2, <3>1, <3>2
    <3>4. y = [pc |-> "locked", slot |-> worker[w].slot, grant |-> worker[w].grant, row |-> task]
      <4>1. PICK x : x = worker[w]
        OBVIOUS
      <4>2. x = [pc |-> x.pc, slot |-> x.slot, grant |-> x.grant, row |-> x.row]
        BY <2>2, <4>1 DEF WorkerOK
      <4>3. PICK a : a = [x EXCEPT !.pc = "locked"]
        OBVIOUS
      <4>4. a = [pc |-> "locked", slot |-> x.slot, grant |-> x.grant, row |-> x.row]
        BY <4>2, <4>3
      <4>5. y = [a EXCEPT !.row = task]
        BY <3>2, <4>1, <4>3
      <4> QED  BY <4>1, <4>4, <4>5
    <3>5. y.pc = "locked" /\ y.slot \in Nat /\ y.row = task
          /\ y = [pc |-> y.pc, slot |-> y.slot, grant |-> y.grant, row |-> y.row]
      BY <2>2, <3>4 DEF WorkerOK
    <3>6. TaskRow /\ \A v \in Workers \ {w} : worker[v].pc # "locked"
      BY <2>2, <3>1 DEF WorkerOK, Automation!RowFree
    <3>7. AutomationInv'
      BY <2>1, <3>3, <3>5, <3>6, WorkerMoves DEF WorkerStates
    <3> QED  BY <2>1, <3>7 DEF Automation!StoppedStep
  <2>5. CASE Automation!Crash(w)
    <3>1. worker' = [worker EXCEPT ![w] = Automation!Idle]
      BY <2>5 DEF Automation!Crash
    <3>2. AutomationInv'
      BY <2>1, <3>1, WorkerRests
    <3> QED  BY <2>1, <3>2 DEF Automation!StoppedStep
  <2> QED  BY <1>5, <2>3, <2>4, <2>5
<1>6. ASSUME NEW w \in Workers, Automation!Commit(w) PROVE AutomationInv' /\ Automation!StoppedStep
  BY <1>6, ClaimCommits
<1> QED  BY <1>1, <1>2, <1>3, <1>4, <1>5, <1>6 DEF Automation!Next

\* AutomationsSound (persistence.rs of aether-agents): every slot that was
\* handed out is counted and paid for within the budget, none twice in a row,
\* and a proposal is authorized once, by a human who stepped up.
THEOREM AutomationsAreSound == Automation!AutomationAssumption => (Automation!Spec => []Automation!AutomationsSound)
<1> SUFFICES ASSUME Automation!AutomationAssumption PROVE Automation!Spec => []Automation!AutomationsSound
  OBVIOUS
<1>1. Automation!Init => AutomationInv
  BY AutomationInit
<1>2. AutomationInv /\ [Automation!Next]_(Automation!vars) => AutomationInv'
  BY AutomationNext
<1>3. AutomationInv => Automation!AutomationsSound
  BY DEF AutomationInv, Automation!AutomationsSound
<1> QED  BY <1>1, <1>2, <1>3, PTL DEF Automation!Spec

\* StoppedForGood (persistence.rs, claim_due and revoke): an automation that
\* was paused or revoked dispatches nothing, whatever a worker had read.
THEOREM StoppedIsStopped == Automation!AutomationAssumption => (Automation!Spec => Automation!StoppedForGood)
<1> SUFFICES ASSUME Automation!AutomationAssumption PROVE Automation!Spec => Automation!StoppedForGood
  OBVIOUS
<1>1. Automation!Init => AutomationInv
  BY AutomationInit
<1>2. AutomationInv /\ [Automation!Next]_(Automation!vars) => AutomationInv'
  BY AutomationNext
<1>3. AutomationInv /\ [Automation!Next]_(Automation!vars) => [Automation!StoppedStep]_(Automation!vars)
  BY AutomationNext
<1> QED  BY <1>1, <1>2, <1>3, PTL DEF Automation!Spec, Automation!StoppedForGood

-----------------------------------------------------------------------------
(* PluginLifecycle: PluginSound and RevokedNeverRuns for any loaders,      *)
(* manifests, modules and signers, without an assumption on them.          *)

\* A row that nothing was granted in, and one that was approved.
Plain(r) == r = [status |-> r.status, manifest |-> r.manifest, artifact |-> r.artifact]
Full(r)  == r = [status |-> r.status, manifest |-> r.manifest, artifact |-> r.artifact,
                 signature |-> r.signature, granted |-> r.granted, kind |-> r.kind,
                 stepUp |-> r.stepUp]

\* Approved by a human who stepped up, over a signature.
SteppedUp(a) ==
  /\ a.kind = "human" /\ a.stepUp = TRUE
  /\ a.signature = Plugin!SignedBy(a.signature.over, a.signature.signer)

\* A run of the module m under the row r is one the operator approved.
RunOK(r, m) ==
  /\ m = r.manifest.module
  /\ SteppedUp(r) /\ r.signature.over = r.manifest
  /\ r.signature.signer \in TrustedSigners
  /\ Plugin!ToSet(r.manifest.caps) \subseteq r.granted
  /\ r.manifest.deps \cap DeniedDeps = {}

PluginRowOK ==
  /\ row.status \in {"none", "installed", "approved", "loaded", "revoked"}
  /\ row.status = "installed" => Plain(row)
  /\ row.status \in {"approved", "loaded"} => Full(row) /\ SteppedUp(row)

\* Only what was granted to an approved row took effect.
EffectsOK ==
  /\ effects # {} =>
       /\ row.status \in {"approved", "loaded", "revoked"}
       /\ Full(row) /\ effects \subseteq row.granted
  /\ "network_http" \notin effects

\* A loader that holds the row's lock has the row as it is, approved, and is alone.
LoaderOK(l) ==
  loader[l].pc = "locked" =>
    /\ loader[l].row = row /\ row.status = "approved"
    /\ \A k \in Loaders : loader[k].pc = "locked" => k = l

AuditOK ==
  row.status = "loaded" => runs # {} /\ audit # << >> /\ audit[Len(audit)] = TRUE

PluginInv ==
  /\ DOMAIN loader = Loaders
  /\ audit \in Seq(BOOLEAN)
  /\ approval.status = "verified" => SteppedUp(approval)
  /\ PluginRowOK
  /\ EffectsOK
  /\ AuditOK
  /\ \A l \in Loaders : LoaderOK(l)
  /\ \A run \in runs : RunOK(run.row, run.module)

\* Only a step-up lets a plugin be approved.
LEMMA ApprovesSteppedUp ==
  ASSUME NEW kind, NEW g, NEW stepUp \in BOOLEAN, NEW t,
         Plugin!Evaluate("who", kind, g, "ApprovePlugin", Plugin!Context(t, 4, TRUE, stepUp)) = "Allow"
  PROVE  stepUp
<1>1. Plugin!NeedsStepUp("ApprovePlugin", Plugin!Context(t, 4, TRUE, stepUp))
  BY DEF Plugin!NeedsStepUp, Plugin!StepUpActions
<1>2. Plugin!Context(t, 4, TRUE, stepUp).stepUp
  BY <1>1 DEF Plugin!Evaluate
<1> QED  BY <1>2 DEF Plugin!Context

LEMMA PluginInit == Plugin!Init => PluginInv
<1> SUFFICES ASSUME Plugin!Init PROVE PluginInv
  OBVIOUS
<1>1. row = [status |-> "none"] /\ approval = [status |-> "none"] /\ effects = {} /\ runs = {} /\ audit = << >>
  BY DEF Plugin!Init, Plugin!None
<1>2. row.status = "none" /\ approval.status = "none"
  BY <1>1
<1>3. DOMAIN loader = Loaders /\ \A l \in Loaders : loader[l].pc = "idle"
  BY DEF Plugin!Init, Plugin!Idle
<1> QED  BY <1>1, <1>2, <1>3 DEF PluginInv, PluginRowOK, EffectsOK, AuditOK, LoaderOK

\* Another status of the row.
LEMMA StatusMoves ==
  ASSUME NEW s, Plain(row) \/ Full(row), row' = [row EXCEPT !.status = s]
  PROVE  /\ row'.status = s /\ row'.manifest = row.manifest
         /\ Plain(row) => Plain(row')
         /\ Full(row) => /\ Full(row') /\ row'.granted = row.granted
                         /\ SteppedUp(row) => SteppedUp(row')
<1>1. CASE Plain(row)
  <2>1. row' = [status |-> s, manifest |-> row.manifest, artifact |-> row.artifact]
    BY <1>1 DEF Plain
  <2>2. row'.status = s /\ row'.manifest = row.manifest /\ Plain(row')
    BY <2>1 DEF Plain
  <2>3. ~Full(row)
    <3>1. DOMAIN row = {"status", "manifest", "artifact"}
      BY <1>1 DEF Plain
    <3> QED  BY <3>1 DEF Full
  <2> QED  BY <2>2, <2>3
<1>2. CASE Full(row)
  <2>1. row' = [status |-> s, manifest |-> row.manifest, artifact |-> row.artifact,
                signature |-> row.signature, granted |-> row.granted, kind |-> row.kind,
                stepUp |-> row.stepUp]
    BY <1>2 DEF Full
  <2>2. row'.status = s /\ row'.manifest = row.manifest /\ Full(row') /\ row'.granted = row.granted
        /\ row'.kind = row.kind /\ row'.stepUp = row.stepUp /\ row'.signature = row.signature
    BY <2>1 DEF Full
  <2>3. ~Plain(row)
    <3>1. "granted" \in DOMAIN row
      BY <1>2 DEF Full
    <3> QED  BY <3>1 DEF Plain
  <2>4. SteppedUp(row) => SteppedUp(row')
    BY <2>2 DEF SteppedUp
  <2> QED  BY <2>2, <2>3, <2>4
<1> QED  BY <1>1, <1>2

\* The module ran: what took effect was granted, and the loader lets go.
LEMMA LoadEnds ==
  ASSUME PluginInv, NEW l \in Loaders, loader[l].pc = "locked",
         loader' = [loader EXCEPT ![l] = Plugin!Idle], approval' = approval,
         NEW ran \in BOOLEAN, NEW done \in BOOLEAN,
         done => ran,
         ran => Plugin!Admitted(loader[l].row, loader[l].module),
         effects' = IF ran THEN effects \cup Plugin!Effective(loader[l].module, row.granted) ELSE effects,
         runs' = IF ran THEN runs \cup {[module |-> loader[l].module, row |-> loader[l].row]} ELSE runs,
         audit' = Append(audit, done),
         row' = row \/ (done /\ row' = [row EXCEPT !.status = "loaded"])
  PROVE  PluginInv' /\ Plugin!RevokedStep
<1>1. /\ loader[l].row = row /\ row.status = "approved" /\ Full(row) /\ SteppedUp(row)
      /\ \A k \in Loaders \ {l} : loader[k].pc # "locked"
  BY DEF PluginInv, LoaderOK, PluginRowOK
<1>2. DOMAIN loader' = Loaders /\ \A k \in Loaders : loader'[k].pc # "locked"
  BY <1>1 DEF PluginInv, Plugin!Idle
<1>3. /\ audit' \in Seq(BOOLEAN) /\ Len(audit') = Len(audit) + 1 /\ audit' # << >>
      /\ audit'[Len(audit')] = done
  BY DEF PluginInv
<1>4. /\ row'.status \in {"approved", "loaded"} /\ Full(row') /\ row'.granted = row.granted
      /\ SteppedUp(row')
      /\ row'.status = "loaded" => done = TRUE
  <2>1. CASE row' = row
    BY <1>1, <2>1
  <2>2. CASE done /\ row' = [row EXCEPT !.status = "loaded"]
    BY <1>1, <2>2, StatusMoves
  <2> QED  BY <2>1, <2>2
<1>5. EffectsOK'
  <2>1. CASE ran
    <3>1. "network_http" \notin row.granted
      BY <1>1, <2>1 DEF Plugin!Admitted
    <3>2. effects' \subseteq effects \cup row.granted
      BY <2>1 DEF Plugin!Effective
    <3>3. effects' \subseteq row.granted /\ "network_http" \notin effects'
      BY <3>1, <3>2 DEF PluginInv, EffectsOK
    <3> QED  BY <1>4, <3>3 DEF EffectsOK
  <2>2. CASE ~ran
    BY <1>4, <2>2 DEF PluginInv, EffectsOK
  <2> QED  BY <2>1, <2>2
<1>6. \A run \in runs' : RunOK(run.row, run.module)
  <2>1. CASE ran
    <3>1. PICK m : m = loader[l].module
      OBVIOUS
    <3>2. RunOK(row, m)
      BY <1>1, <2>1, <3>1 DEF Plugin!Admitted, Plugin!Scanned, Plugin!Verifies, RunOK
    <3>3. \A run \in runs' : run \in runs \/ (run.row = row /\ run.module = m)
      BY <1>1, <2>1, <3>1
    <3> QED  BY <3>2, <3>3 DEF PluginInv
  <2>2. CASE ~ran
    BY <2>2 DEF PluginInv
  <2> QED  BY <2>1, <2>2
<1>7. AuditOK'
  BY <1>3, <1>4 DEF AuditOK
<1>8. PluginRowOK' /\ Plugin!RevokedStep
  BY <1>1, <1>4 DEF PluginRowOK, Plugin!RevokedStep
<1>9. \A k \in Loaders : LoaderOK(k)'
  BY <1>2 DEF LoaderOK
<1>10. approval'.status = "verified" => SteppedUp(approval')
  BY DEF PluginInv
<1> QED  BY <1>2, <1>3, <1>5, <1>6, <1>7, <1>8, <1>9, <1>10 DEF PluginInv

\* Nobody holds the lock while the row changes, and nothing runs.
LEMMA RowMoves ==
  ASSUME PluginInv, Plugin!RowFree, UNCHANGED <<approval, loader, effects, runs, audit>>,
         PluginRowOK', EffectsOK', AuditOK'
  PROVE  PluginInv'
<1>1. \A l \in Loaders : LoaderOK(l)'
  BY DEF LoaderOK, Plugin!RowFree
<1>2. \A run \in runs' : RunOK(run.row, run.module)
  BY DEF PluginInv
<1>3. approval'.status = "verified" => SteppedUp(approval')
  BY DEF PluginInv
<1> QED  BY <1>1, <1>2, <1>3 DEF PluginInv

LEMMA PluginNext == PluginInv /\ [Plugin!Next]_(Plugin!vars) => PluginInv' /\ Plugin!RevokedStep
<1> SUFFICES ASSUME PluginInv, [Plugin!Next]_(Plugin!vars) PROVE PluginInv' /\ Plugin!RevokedStep
  OBVIOUS
<1>1. CASE Plugin!Install
  <2>1. row.status = "none" /\ UNCHANGED <<approval, loader, effects, runs, audit>>
    BY <1>1 DEF Plugin!Install, Plugin!None
  <2>2. PICK m, a : row' = [status |-> "installed", manifest |-> m, artifact |-> a]
    BY <1>1 DEF Plugin!Install
  <2>3. row'.status = "installed" /\ Plain(row')
    BY <2>2 DEF Plain
  <2>4. Plugin!RowFree /\ effects = {}
    BY <2>1 DEF PluginInv, LoaderOK, Plugin!RowFree, EffectsOK
  <2>5. PluginRowOK' /\ EffectsOK' /\ AuditOK'
    BY <2>1, <2>3, <2>4 DEF PluginRowOK, EffectsOK, AuditOK
  <2>6. Plugin!RevokedStep
    BY <2>1 DEF Plugin!RevokedStep
  <2> QED  BY <2>1, <2>4, <2>5, <2>6, RowMoves
<1>2. CASE Plugin!Verify
  <2>1. UNCHANGED <<row, loader, effects, runs, audit>>
    BY <1>2 DEF Plugin!Verify
  <2>2. PICK m \in Manifests, over \in Manifests, signer \in TrustedSigners \cup {"other"},
             kind \in Plugin!Kinds, stepUp \in BOOLEAN, granted \in SUBSET Plugin!Capabilities :
          /\ Plugin!MayApprove(m, Plugin!SignedBy(over, signer), kind, stepUp)
          /\ approval' = [status |-> "verified", manifest |-> m, kind |-> kind,
                          stepUp |-> stepUp, signature |-> Plugin!SignedBy(over, signer),
                          granted |-> granted]
    BY <1>2 DEF Plugin!Verify
  <2>3. kind = "human" /\ stepUp
    BY <2>2, ApprovesSteppedUp DEF Plugin!MayApprove
  <2>4. approval'.kind = "human" /\ approval'.stepUp = TRUE /\ approval'.signature = Plugin!SignedBy(over, signer)
    BY <2>2, <2>3
  <2>5. SteppedUp(approval')
    BY <2>4 DEF SteppedUp, Plugin!SignedBy
  <2>6. PluginRowOK' /\ EffectsOK' /\ AuditOK' /\ \A l \in Loaders : LoaderOK(l)'
    BY <2>1 DEF PluginInv, PluginRowOK, EffectsOK, AuditOK, LoaderOK
  <2>7. Plugin!RevokedStep
    BY <2>1 DEF Plugin!RevokedStep
  <2> QED  BY <2>1, <2>5, <2>6, <2>7 DEF PluginInv
<1>3. CASE Plugin!Approve
  <2>1. approval.status = "verified" /\ row.status = "installed" /\ Plugin!RowFree
        /\ UNCHANGED <<approval, loader, effects, runs, audit>>
    BY <1>3 DEF Plugin!Approve
  <2>2. PICK m, a : row' = [status |-> "approved", manifest |-> m, artifact |-> a,
                            signature |-> approval.signature, granted |-> approval.granted,
                            kind |-> approval.kind, stepUp |-> approval.stepUp]
    BY <1>3 DEF Plugin!Approve
  <2>3. row'.status = "approved" /\ Full(row') /\ row'.signature = approval.signature
        /\ row'.kind = approval.kind /\ row'.stepUp = approval.stepUp
    BY <2>2 DEF Full
  <2>4. SteppedUp(row')
    BY <2>1, <2>3 DEF PluginInv, SteppedUp
  <2>5. effects = {}
    BY <2>1 DEF PluginInv, EffectsOK
  <2>6. PluginRowOK' /\ EffectsOK' /\ AuditOK'
    BY <2>1, <2>3, <2>4, <2>5 DEF PluginRowOK, EffectsOK, AuditOK
  <2>7. Plugin!RevokedStep
    BY <2>1 DEF Plugin!RevokedStep
  <2> QED  BY <2>1, <2>6, <2>7, RowMoves
<1>4. CASE Plugin!Revoke
  <2>1. row.status \in {"installed", "approved", "loaded"} /\ Plugin!RowFree
        /\ row' = [row EXCEPT !.status = "revoked"]
        /\ UNCHANGED <<approval, loader, effects, runs, audit>>
    BY <1>4 DEF Plugin!Revoke, Plugin!Revocable
  <2>2. Plain(row) \/ Full(row)
    BY <2>1 DEF PluginInv, PluginRowOK
  <2>3. row'.status = "revoked" /\ (Full(row) => Full(row') /\ row'.granted = row.granted)
    BY <2>1, <2>2, StatusMoves
  <2>4. PluginRowOK' /\ EffectsOK' /\ AuditOK'
    BY <2>1, <2>3 DEF PluginInv, PluginRowOK, EffectsOK, AuditOK
  <2>5. Plugin!RevokedStep
    BY <2>1 DEF Plugin!RevokedStep
  <2> QED  BY <2>1, <2>4, <2>5, RowMoves
<1>5. ASSUME NEW l \in Loaders, Plugin!Lock(l) PROVE PluginInv' /\ Plugin!RevokedStep
  <2>1. row.status = "approved" /\ Plugin!RowFree /\ UNCHANGED <<row, approval, effects, runs, audit>>
    BY <1>5 DEF Plugin!Lock
  <2>2. PICK m : loader' = [loader EXCEPT ![l] = [pc |-> "locked", module |-> m, row |-> row]]
    BY <1>5 DEF Plugin!Lock
  <2>3. /\ DOMAIN loader' = Loaders /\ loader'[l].row = row
        /\ \A k \in Loaders \ {l} : loader'[k] = loader[k] /\ loader[k].pc # "locked"
    BY <2>1, <2>2 DEF PluginInv, Plugin!RowFree
  <2>4. \A k \in Loaders : LoaderOK(k)'
    BY <2>1, <2>3 DEF LoaderOK
  <2>5. PluginRowOK' /\ EffectsOK' /\ AuditOK'
    BY <2>1 DEF PluginInv, PluginRowOK, EffectsOK, AuditOK
  <2>6. Plugin!RevokedStep
    BY <2>1 DEF Plugin!RevokedStep
  <2> QED  BY <2>1, <2>3, <2>4, <2>5, <2>6 DEF PluginInv
<1>6. ASSUME NEW l \in Loaders, Plugin!Execute(l) PROVE PluginInv' /\ Plugin!RevokedStep
  <2> DEFINE calls    == Plugin!ToSet(Modules[loader[l].module].calls)
             admitted == Plugin!Admitted(loader[l].row, loader[l].module)
             starts   == admitted /\ calls \subseteq Plugin!HostImports
             done     == admitted /\ Plugin!Completes(loader[l].module, loader[l].row.granted)
  <2>1. /\ loader[l].pc = "locked" /\ loader' = [loader EXCEPT ![l] = Plugin!Idle] /\ approval' = approval
        /\ effects' = IF starts THEN effects \cup Plugin!Effective(loader[l].module, loader[l].row.granted)
                      ELSE effects
        /\ runs' = IF starts THEN runs \cup {[module |-> loader[l].module, row |-> loader[l].row]}
                   ELSE runs
        /\ audit' = Append(audit, done)
        /\ row' = IF done THEN [row EXCEPT !.status = "loaded"] ELSE row
    BY <1>6 DEF Plugin!Execute
  <2>2. loader[l].row = row
    BY <2>1 DEF PluginInv, LoaderOK
  <2>3. done => starts
    BY DEF Plugin!Completes
  <2>4. starts \in BOOLEAN /\ done \in BOOLEAN /\ (starts => admitted)
    BY DEF Plugin!Completes, Plugin!Admitted
  <2> HIDE DEF starts, done
  <2>5. row' = row \/ (done /\ row' = [row EXCEPT !.status = "loaded"])
    BY <2>1
  <2>6. PICK ran \in BOOLEAN, ok \in BOOLEAN : ran = starts /\ ok = done
    BY <2>4
  <2>7. /\ ok => ran
        /\ ran => Plugin!Admitted(loader[l].row, loader[l].module)
        /\ effects' = IF ran THEN effects \cup Plugin!Effective(loader[l].module, row.granted) ELSE effects
        /\ runs' = IF ran THEN runs \cup {[module |-> loader[l].module, row |-> loader[l].row]} ELSE runs
        /\ audit' = Append(audit, ok)
        /\ row' = row \/ (ok /\ row' = [row EXCEPT !.status = "loaded"])
    BY <2>1, <2>2, <2>3, <2>4, <2>5, <2>6
  <2> QED  BY <2>1, <2>7, LoadEnds
<1>7. ASSUME NEW l \in Loaders, Plugin!CommitFails(l) PROVE PluginInv' /\ Plugin!RevokedStep
  <2>1. /\ loader[l].pc = "locked" /\ loader' = [loader EXCEPT ![l] = Plugin!Idle]
        /\ approval' = approval /\ row' = row
        /\ Plugin!Admitted(loader[l].row, loader[l].module)
        /\ effects' = effects \cup Plugin!Effective(loader[l].module, loader[l].row.granted)
        /\ runs' = runs \cup {[module |-> loader[l].module, row |-> loader[l].row]}
        /\ audit' = Append(audit, TRUE)
    BY <1>7 DEF Plugin!CommitFails
  <2>2. loader[l].row = row
    BY <2>1 DEF PluginInv, LoaderOK
  <2> QED  BY <2>1, <2>2, LoadEnds
<1>8. CASE UNCHANGED Plugin!vars
  BY <1>8 DEF Plugin!vars, PluginInv, PluginRowOK, EffectsOK, AuditOK, LoaderOK, Plugin!RevokedStep
<1> QED  BY <1>1, <1>2, <1>3, <1>4, <1>5, <1>6, <1>7, <1>8 DEF Plugin!Next

\* PluginSound (persistence.rs and gate.rs of aether-plugin): what runs is the
\* module its manifest names, signed and approved, nothing takes effect beyond
\* the grant, and a loaded plugin has run.
THEOREM PluginsAreSound == Plugin!Spec => []Plugin!PluginSound
<1>1. Plugin!Init => PluginInv
  BY PluginInit
<1>2. PluginInv /\ [Plugin!Next]_(Plugin!vars) => PluginInv'
  BY PluginNext
<1>3. PluginInv => Plugin!PluginSound
  <2> SUFFICES ASSUME PluginInv PROVE Plugin!PluginSound
    OBVIOUS
  <2>1. Plugin!RanAsApproved
    <3> SUFFICES ASSUME NEW run \in runs PROVE RunOK(run.row, run.module) =>
          /\ run.module = run.row.manifest.module
          /\ run.row.kind = "human" /\ run.row.stepUp
          /\ run.row.signature = Plugin!SignedBy(run.row.manifest, run.row.signature.signer)
          /\ run.row.signature.signer \in TrustedSigners
          /\ Plugin!ToSet(run.row.manifest.caps) \subseteq run.row.granted
          /\ run.row.manifest.deps \cap DeniedDeps = {}
      BY DEF PluginInv, Plugin!RanAsApproved
    <3> QED  BY DEF RunOK, SteppedUp
  <2>2. Plugin!EffectsGranted
    BY DEF PluginInv, EffectsOK, Plugin!EffectsGranted
  <2>3. Plugin!LoadedHasRun
    BY DEF PluginInv, AuditOK, Plugin!LoadedHasRun, Plugin!Last
  <2> QED  BY <2>1, <2>2, <2>3 DEF Plugin!PluginSound
<1> QED  BY <1>1, <1>2, <1>3, PTL DEF Plugin!Spec

\* RevokedNeverRuns (persistence.rs, load_and_run and revoke): once a plugin is
\* revoked nothing of it runs, whatever a loader had read.
THEOREM RevokedIsRevoked == Plugin!Spec => Plugin!RevokedNeverRuns
<1>1. Plugin!Init => PluginInv
  BY PluginInit
<1>2. PluginInv /\ [Plugin!Next]_(Plugin!vars) => PluginInv'
  BY PluginNext
<1>3. PluginInv /\ [Plugin!Next]_(Plugin!vars) => [Plugin!RevokedStep]_(Plugin!vars)
  BY PluginNext
<1> QED  BY <1>1, <1>2, <1>3, PTL DEF Plugin!Spec, Plugin!RevokedNeverRuns
-----------------------------------------------------------------------------
(* VenueFeed: NothingLostOnTheWay and HealthTruthful for any number of calls,*)
(* of values and of ticks, without an assumption on the constants.         *)

Calls   == {"idle", "refused", "open", "left", "closed"}
Sources == {"first", "on", "off"}
Relays  == {"on", "off"}

FeedTypeOK ==
  /\ feed \in [Feeds -> [call : Calls, source : Sources, relay : Relays]]
  /\ value \in [Feeds -> Seq(Nat)] /\ answers \in [Feeds -> Seq(Nat)] /\ got \in [Feeds -> Seq(Nat)]
  /\ made \in [Feeds -> Nat]
  /\ now \in Nat \ {0} /\ lastTick \in Nat

OneTo(n) == [i \in 1 .. n |-> i]

\* Along the two channels; and a relay that ended while its caller is there has
\* nothing left to bring, nor will there be anything.
OnTheWay(f, caller, source, relay, v, a, g, n) ==
  /\ caller = "idle" => /\ source = "off" /\ relay = "off"
                        /\ v = << >> /\ a = << >> /\ g = << >> /\ n = 0
  /\ caller = "open" => g \o a \o v = OneTo(n)
  /\ caller = "open" /\ relay = "off" => source = "off" /\ v = << >>
  /\ caller = "closed" => source = "off" /\ relay = "off" /\ g = OneTo(n)
  /\ caller = "refused" => source = "off" /\ relay = "off"

FeedOK(f) == OnTheWay(f, feed[f].call, feed[f].source, feed[f].relay, value[f], answers[f], got[f], made[f])

\* The pack's last tick is the last one that was made.
TickKept == lastTick > 0 => tickAt = lastTick

FeedInv == FeedTypeOK /\ TickKept /\ \A f \in Feeds : FeedOK(f)

LEMMA ThreeParts ==
  ASSUME NEW a \in Seq(Nat), NEW b \in Seq(Nat), NEW c \in Seq(Nat)
  PROVE  a \o b \o c \in Seq(Nat) /\ (a \o b) \o c = a \o (b \o c)
<1>1. a \o b \in Seq(Nat)
  BY ConcatProperties
<1>2. (a \o b) \o c \in Seq(Nat)
  BY <1>1, ConcatProperties
<1>3. (a \o b) \o c = a \o (b \o c)
  BY ConcatAssociative
<1> QED  BY <1>2, <1>3

\* What is appended to the last part is appended to the whole.
LEMMA LastGrows ==
  ASSUME NEW a \in Seq(Nat), NEW c \in Seq(Nat), NEW e \in Nat
  PROVE  a \o Append(c, e) = Append(a \o c, e)
<1>1. Append(c, e) = c \o <<e>> /\ <<e>> \in Seq(Nat)
  BY AppendIsConcat
<1>2. a \o (c \o <<e>>) = (a \o c) \o <<e>>
  BY <1>1, ConcatAssociative
<1>3. a \o c \in Seq(Nat)
  BY ConcatProperties
<1>4. Append(a \o c, e) = (a \o c) \o <<e>>
  BY <1>3, AppendIsConcat
<1> QED  BY <1>1, <1>2, <1>4

\* What leaves the front of a part joins the end of the part before.
LEMMA HandedOn ==
  ASSUME NEW b \in Seq(Nat), NEW c \in Seq(Nat), c # << >>
  PROVE  /\ Append(b, Head(c)) \o Tail(c) = b \o c
         /\ Head(c) \in Nat /\ Tail(c) \in Seq(Nat) /\ Append(b, Head(c)) \in Seq(Nat)
<1>1. PICK h \in Nat, t \in Seq(Nat) : h = Head(c) /\ t = Tail(c)
  BY HeadTailProperties
<1>2. c = <<h>> \o t
  BY <1>1
<1>3. Append(b, h) = b \o <<h>> /\ <<h>> \in Seq(Nat)
  BY AppendIsConcat
<1>4. (b \o <<h>>) \o t = b \o (<<h>> \o t)
  BY <1>3, ConcatAssociative
<1>5. Append(b, h) \in Seq(Nat)
  OBVIOUS
<1> QED  BY <1>1, <1>2, <1>3, <1>4, <1>5

LEMMA CountsOn ==
  ASSUME NEW n \in Nat
  PROVE  /\ OneTo(n) \in Seq(Nat) /\ Append(OneTo(n), n + 1) = OneTo(n + 1)
         /\ OneTo(0) = << >>
  BY DEF OneTo

LEMMA FeedInit == Feed!Init => FeedInv
<1> SUFFICES ASSUME Feed!Init PROVE FeedInv
  OBVIOUS
<1>1. FeedTypeOK /\ TickKept
  BY DEF Feed!Init, FeedTypeOK, TickKept, Calls, Sources, Relays
<1>2. \A f \in Feeds : FeedOK(f)
  BY DEF Feed!Init, FeedOK, OnTheWay
<1> QED  BY <1>1, <1>2 DEF FeedInv

\* One call goes on, and the pack's last tick with it or not.
Moved(f, c, s, r, v, a, g, n) ==
  /\ feed' = [feed EXCEPT ![f] = [call |-> c, source |-> s, relay |-> r]]
  /\ value' = [value EXCEPT ![f] = v] /\ answers' = [answers EXCEPT ![f] = a]
  /\ got' = [got EXCEPT ![f] = g] /\ made' = [made EXCEPT ![f] = n]

ClockGoesOn ==
  /\ now' = now
  /\ UNCHANGED <<lastTick, tickAt>> \/ (lastTick' = now /\ tickAt' = now)

LEMMA CallMoves ==
  ASSUME FeedInv, NEW f \in Feeds, NEW c \in Calls, NEW s \in Sources, NEW r \in Relays,
         NEW v \in Seq(Nat), NEW a \in Seq(Nat), NEW g \in Seq(Nat), NEW n \in Nat,
         Moved(f, c, s, r, v, a, g, n), ClockGoesOn, OnTheWay(f, c, s, r, v, a, g, n)
  PROVE  FeedInv'
<1>1. FeedTypeOK'
  <2>1. [call |-> c, source |-> s, relay |-> r] \in [call : Calls, source : Sources, relay : Relays]
    OBVIOUS
  <2> QED  BY <2>1 DEF FeedInv, FeedTypeOK, Moved, ClockGoesOn
<1>2. TickKept'
  BY DEF FeedInv, TickKept, ClockGoesOn
<1>3. ASSUME NEW q \in Feeds PROVE FeedOK(q)'
  <2>1. CASE q = f
    <3>1. /\ feed'[f] = [call |-> c, source |-> s, relay |-> r]
          /\ value'[f] = v /\ answers'[f] = a /\ got'[f] = g /\ made'[f] = n
      BY DEF FeedInv, FeedTypeOK, Moved
    <3>2. feed'[f].call = c /\ feed'[f].source = s /\ feed'[f].relay = r
      BY <3>1
    <3> QED  BY <2>1, <3>1, <3>2 DEF FeedOK
  <2>2. CASE q # f
    <3>1. /\ feed'[q] = feed[q] /\ value'[q] = value[q] /\ answers'[q] = answers[q]
          /\ got'[q] = got[q] /\ made'[q] = made[q]
      BY <2>2 DEF FeedInv, FeedTypeOK, Moved
    <3>2. FeedOK(q)
      BY DEF FeedInv
    <3> QED  BY <3>1, <3>2 DEF FeedOK
  <2> QED  BY <2>1, <2>2
<1> QED  BY <1>1, <1>2, <1>3 DEF FeedInv

LEMMA FeedNext == FeedInv /\ [Feed!Next]_(Feed!vars) => FeedInv' /\ Feed!TruthfulStep
<1> SUFFICES ASSUME FeedInv, [Feed!Next]_(Feed!vars) PROVE FeedInv' /\ Feed!TruthfulStep
  OBVIOUS
<1>1. ASSUME NEW f \in Feeds, \/ Feed!Starts(f) \/ Feed!FirstBook(f) \/ Feed!Produces(f) \/ Feed!SourceEnds(f)
                              \/ Feed!Relay(f) \/ Feed!CallerReads(f) \/ Feed!CallerLeaves(f)
      PROVE  FeedInv' /\ Feed!TruthfulStep
  <2>1. health' = health /\ now' = now
    BY <1>1 DEF Feed!Starts, Feed!FirstBook, Feed!Produces, Feed!SourceEnds, Feed!Relay,
       Feed!CallerReads, Feed!CallerLeaves
  <2>2. Feed!TruthfulStep
    BY <2>1 DEF Feed!TruthfulStep
  <2>3. PICK c \in Calls, s \in Sources, r \in Relays :
          /\ feed[f].call = c /\ feed[f].source = s /\ feed[f].relay = r
          /\ feed[f] = [call |-> c, source |-> s, relay |-> r]
    <3>1. feed[f] \in [call : Calls, source : Sources, relay : Relays]
      BY DEF FeedInv, FeedTypeOK
    <3> QED  BY <3>1
  <2>4. PICK v \in Seq(Nat), a \in Seq(Nat), g \in Seq(Nat), n \in Nat :
          v = value[f] /\ a = answers[f] /\ g = got[f] /\ n = made[f]
    BY DEF FeedInv, FeedTypeOK
  <2>5. /\ value = [value EXCEPT ![f] = v] /\ answers = [answers EXCEPT ![f] = a]
        /\ got = [got EXCEPT ![f] = g] /\ made = [made EXCEPT ![f] = n]
        /\ feed = [feed EXCEPT ![f] = [call |-> c, source |-> s, relay |-> r]]
    BY <2>3, <2>4 DEF FeedInv, FeedTypeOK
  <2>6. OnTheWay(f, c, s, r, v, a, g, n)
    BY <2>3, <2>4 DEF FeedInv, FeedOK
  <2>7. now \in Nat \ {0} /\ <<>> \in Seq(Nat)
    BY DEF FeedInv, FeedTypeOK
  <2>8. ASSUME NEW x \in Calls, NEW y \in Sources, NEW z \in Relays
        PROVE  /\ feed' = [feed EXCEPT ![f].call = x] =>
                    feed' = [feed EXCEPT ![f] = [call |-> x, source |-> s, relay |-> r]]
               /\ feed' = [feed EXCEPT ![f].source = y] =>
                    feed' = [feed EXCEPT ![f] = [call |-> c, source |-> y, relay |-> r]]
               /\ feed' = [feed EXCEPT ![f].relay = z] =>
                    feed' = [feed EXCEPT ![f] = [call |-> c, source |-> s, relay |-> z]]
    <3>1. PICK b : b = feed[f] /\ b = [call |-> c, source |-> s, relay |-> r]
      BY <2>3
    <3>2. /\ [b EXCEPT !.call = x] = [call |-> x, source |-> s, relay |-> r]
          /\ [b EXCEPT !.source = y] = [call |-> c, source |-> y, relay |-> r]
          /\ [b EXCEPT !.relay = z] = [call |-> c, source |-> s, relay |-> z]
      BY <3>1
    <3>3. /\ [feed EXCEPT ![f].call = x] = [feed EXCEPT ![f] = [b EXCEPT !.call = x]]
          /\ [feed EXCEPT ![f].source = y] = [feed EXCEPT ![f] = [b EXCEPT !.source = y]]
          /\ [feed EXCEPT ![f].relay = z] = [feed EXCEPT ![f] = [b EXCEPT !.relay = z]]
      BY <3>1 DEF FeedInv, FeedTypeOK
    <3> QED  BY <3>2, <3>3
  <2>9. CASE Feed!Starts(f)
    <3>1. c = "idle" /\ UNCHANGED <<value, answers, got, made, lastTick, now, tickAt>>
      BY <2>3, <2>9 DEF Feed!Starts
    <3>2. v = << >> /\ a = << >> /\ g = << >> /\ n = 0 /\ s = "off" /\ r = "off"
      BY <2>6, <3>1 DEF OnTheWay
    <3>3. CASE feed' = [feed EXCEPT ![f].call = "refused"]
      <4>1. feed' = [feed EXCEPT ![f] = [call |-> "refused", source |-> s, relay |-> r]]
        BY <2>8, <3>3 DEF Calls
      <4>2. OnTheWay(f, "refused", s, r, v, a, g, n) /\ "refused" \in Calls
        BY <3>2 DEF OnTheWay, Calls
      <4>9. Moved(f, "refused", s, r, v, a, g, n) /\ ClockGoesOn
        BY <2>1, <2>5, <3>1, <4>1 DEF Moved, ClockGoesOn
      <4> QED  BY <2>2, <4>9, <4>2, CallMoves
    <3>4. ASSUME NEW y \in {"on", "first"},
                 feed' = [feed EXCEPT ![f] = [call |-> "open", source |-> y, relay |-> "on"]]
          PROVE  FeedInv'
      <4>1. g \o a \o v = OneTo(n)
        BY <2>7, <3>2, CountsOn, ConcatEmptySeq
      <4>2. OnTheWay(f, "open", y, "on", v, a, g, n) /\ "open" \in Calls /\ y \in Sources /\ "on" \in Relays
        BY <4>1 DEF OnTheWay, Calls, Sources, Relays
      <4>9. Moved(f, "open", y, "on", v, a, g, n) /\ ClockGoesOn
        BY <2>1, <2>5, <3>1, <3>4 DEF Moved, ClockGoesOn
      <4> QED  BY <2>2, <4>9, <4>2, CallMoves
    <3> QED  BY <2>2, <2>9, <3>3, <3>4 DEF Feed!Starts
  <2>10. ASSUME s \in {"on", "first"}, r = "on",
                feed' = [feed EXCEPT ![f] = [call |-> c, source |-> "on", relay |-> r]],
                value' = [value EXCEPT ![f] = Append(v, n + 1)],
                made' = [made EXCEPT ![f] = n + 1],
                UNCHANGED <<answers, got>>,
                UNCHANGED <<lastTick, tickAt>> \/ (lastTick' = now /\ tickAt' = now)
         PROVE  FeedInv'
    <3>0. PICK m \in Nat : m = n + 1
      OBVIOUS
    <3>1. PICK w \in Seq(Nat) : w = Append(v, m)
      BY AppendProperties
    <3>2. c = "open" => g \o a \o w = OneTo(m)
      <4> SUFFICES ASSUME c = "open" PROVE g \o a \o w = OneTo(m)
        OBVIOUS
      <4>1. PICK before \in Seq(Nat) : before = g \o a
        BY ConcatProperties
      <4>2. before \o v = OneTo(n)
        BY <2>6, <4>1 DEF OnTheWay
      <4>3. before \o w = Append(before \o v, m)
        BY <3>1, LastGrows
      <4> QED  BY <3>0, <4>1, <4>2, <4>3, CountsOn
    <3>3. OnTheWay(f, c, "on", r, w, a, g, m)
      BY <2>6, <2>10, <3>2 DEF OnTheWay
    <3>4. value' = [value EXCEPT ![f] = w] /\ made' = [made EXCEPT ![f] = m] /\ "on" \in Sources
      BY <2>10, <3>0, <3>1 DEF Sources
    <3>5. Moved(f, c, "on", r, w, a, g, m) /\ ClockGoesOn
      BY <2>1, <2>5, <2>10, <3>4 DEF Moved, ClockGoesOn
    <3> QED  BY <3>3, <3>4, <3>5, CallMoves
  <2>11. CASE Feed!FirstBook(f)
    <3>1. s = "first" /\ feed' = [feed EXCEPT ![f] = [call |-> c, source |-> "on", relay |-> r]]
          /\ UNCHANGED <<answers, got, lastTick, tickAt>>
      BY <2>3, <2>8, <2>11 DEF Feed!FirstBook, Sources
    <3>2. CASE UNCHANGED <<value, made>>
      <4>1. OnTheWay(f, c, "on", r, v, a, g, n) /\ "on" \in Sources
        BY <2>6, <3>1 DEF OnTheWay, Sources
      <4>9. Moved(f, c, "on", r, v, a, g, n) /\ ClockGoesOn
        BY <2>1, <2>5, <3>1, <3>2 DEF Moved, ClockGoesOn
      <4> QED  BY <2>2, <4>9, <4>1, CallMoves
    <3>3. CASE r = "on" /\ made' = [made EXCEPT ![f] = n + 1] /\ value' = [value EXCEPT ![f] = Append(v, n + 1)]
      BY <2>2, <2>10, <3>1, <3>3
    <3>4. \/ UNCHANGED <<value, made>>
          \/ /\ r = "on" /\ made' = [made EXCEPT ![f] = n + 1]
             /\ value' = [value EXCEPT ![f] = Append(v, n + 1)]
      BY <2>3, <2>4, <2>11 DEF Feed!FirstBook
    <3> QED  BY <3>2, <3>3, <3>4
  <2>12. CASE Feed!Produces(f)
    <3>1. /\ s = "on" /\ UNCHANGED <<answers, got>> /\ made' = [made EXCEPT ![f] = n + 1]
          /\ UNCHANGED <<lastTick, tickAt>> \/ (lastTick' = now /\ tickAt' = now)
      BY <2>3, <2>4, <2>12 DEF Feed!Produces, Feed!Ticked
    <3>2. CASE r = "on"
      <4>1. value' = [value EXCEPT ![f] = Append(v, n + 1)] /\ feed' = feed
        BY <2>3, <2>4, <2>12, <3>2 DEF Feed!Produces
      <4>2. feed' = [feed EXCEPT ![f] = [call |-> c, source |-> "on", relay |-> r]]
        BY <2>5, <3>1, <4>1
      <4> QED  BY <2>2, <2>10, <3>1, <3>2, <4>1, <4>2
    <3>3. CASE r # "on"
      <4>1. feed' = [feed EXCEPT ![f].source = "off"] /\ value' = value
        BY <2>3, <2>12, <3>3 DEF Feed!Produces
      <4>2. feed' = [feed EXCEPT ![f] = [call |-> c, source |-> "off", relay |-> r]]
        BY <2>8, <4>1 DEF Sources
      <4>3. PICK m \in Nat : m = n + 1
        OBVIOUS
      <4>4. OnTheWay(f, c, "off", r, v, a, g, m) /\ "off" \in Sources
        BY <2>6, <3>1, <3>3 DEF OnTheWay, Sources, Relays
      <4>5. made' = [made EXCEPT ![f] = m] /\ value' = [value EXCEPT ![f] = v]
            /\ answers' = [answers EXCEPT ![f] = a] /\ got' = [got EXCEPT ![f] = g]
        BY <2>5, <3>1, <4>1, <4>3
      <4>9. Moved(f, c, "off", r, v, a, g, m) /\ ClockGoesOn
        BY <2>1, <2>5, <3>1, <4>2, <4>5 DEF Moved, ClockGoesOn
      <4> QED  BY <2>2, <4>9, <4>4, CallMoves
    <3> QED  BY <3>2, <3>3
  <2>13. CASE Feed!SourceEnds(f)
    <3>1. s = "on" /\ feed' = [feed EXCEPT ![f] = [call |-> c, source |-> "off", relay |-> r]]
          /\ UNCHANGED <<value, answers, got, made, lastTick, tickAt>>
      BY <2>3, <2>8, <2>13 DEF Feed!SourceEnds, Sources
    <3>2. OnTheWay(f, c, "off", r, v, a, g, n) /\ "off" \in Sources
      BY <2>6, <3>1 DEF OnTheWay, Sources
    <3>9. Moved(f, c, "off", r, v, a, g, n) /\ ClockGoesOn
      BY <2>1, <2>5, <3>1 DEF Moved, ClockGoesOn
    <3> QED  BY <2>2, <3>9, <3>2, CallMoves
  <2>14. CASE Feed!Relay(f)
    <3>1. r = "on" /\ UNCHANGED <<got, made, lastTick, tickAt>>
      BY <2>3, <2>14 DEF Feed!Relay
    <3>2. CASE Feed!Drained(f)
      <4>1. s = "off" /\ v = << >>
        BY <2>3, <2>4, <3>2 DEF Feed!Drained
      <4>2. feed' = [feed EXCEPT ![f] = [call |-> c, source |-> s, relay |-> "off"]]
            /\ UNCHANGED <<value, answers>>
        BY <2>8, <2>14, <3>2 DEF Feed!Relay, Relays
      <4>3. OnTheWay(f, c, s, "off", v, a, g, n) /\ "off" \in Relays
        BY <2>6, <3>1, <4>1 DEF OnTheWay, Relays
      <4>9. Moved(f, c, s, "off", v, a, g, n) /\ ClockGoesOn
        BY <2>1, <2>5, <3>1, <4>2 DEF Moved, ClockGoesOn
      <4> QED  BY <2>2, <4>9, <4>3, CallMoves
    <3>3. CASE ~Feed!Drained(f) /\ c = "left"
      <4>1. feed' = [feed EXCEPT ![f] = [call |-> c, source |-> s, relay |-> "off"]]
            /\ answers' = answers /\ value' = [value EXCEPT ![f] = << >>]
        BY <2>3, <2>8, <2>14, <3>3 DEF Feed!Relay, Relays
      <4>2. OnTheWay(f, c, s, "off", << >>, a, g, n) /\ "off" \in Relays
        BY <3>3 DEF OnTheWay, Relays
      <4>9. Moved(f, c, s, "off", << >>, a, g, n) /\ ClockGoesOn
        BY <2>1, <2>5, <3>1, <4>1 DEF Moved, ClockGoesOn
      <4> QED  BY <2>2, <4>9, <2>7, <4>2, CallMoves
    <3>4. CASE ~Feed!Drained(f) /\ c # "left"
      <4>1. v # << >> /\ feed' = feed /\ value' = [value EXCEPT ![f] = Tail(v)]
            /\ answers' = [answers EXCEPT ![f] = Append(a, Head(v))]
        BY <2>3, <2>4, <2>14, <3>4 DEF Feed!Relay
      <4>2. PICK w \in Seq(Nat), b \in Seq(Nat) : w = Tail(v) /\ b = Append(a, Head(v)) /\ b \o w = a \o v
        BY <4>1, HandedOn
      <4>3. g \o b \o w = g \o a \o v
        <5>1. (g \o b) \o w = g \o (b \o w)
          BY ThreeParts
        <5>2. (g \o a) \o v = g \o (a \o v)
          BY ThreeParts
        <5> QED  BY <4>2, <5>1, <5>2
      <4>4. OnTheWay(f, c, s, r, w, b, g, n)
        BY <2>6, <3>1, <4>1, <4>3 DEF OnTheWay
      <4>5. value' = [value EXCEPT ![f] = w] /\ answers' = [answers EXCEPT ![f] = b]
            /\ got' = [got EXCEPT ![f] = g] /\ made' = [made EXCEPT ![f] = n]
            /\ feed' = [feed EXCEPT ![f] = [call |-> c, source |-> s, relay |-> r]]
        BY <2>5, <3>1, <4>1, <4>2
      <4>9. Moved(f, c, s, r, w, b, g, n) /\ ClockGoesOn
        BY <2>1, <2>5, <3>1, <4>5 DEF Moved, ClockGoesOn
      <4> QED  BY <2>2, <4>9, <4>4, CallMoves
    <3> QED  BY <3>2, <3>3, <3>4
  <2>15. CASE Feed!CallerReads(f)
    <3>1. c = "open" /\ UNCHANGED <<value, made, lastTick, tickAt>>
      BY <2>3, <2>15 DEF Feed!CallerReads
    <3>2. CASE a # << >>
      <4>1. feed' = feed /\ got' = [got EXCEPT ![f] = Append(g, Head(a))]
            /\ answers' = [answers EXCEPT ![f] = Tail(a)]
        BY <2>4, <2>15, <3>2 DEF Feed!CallerReads
      <4>2. PICK h \in Seq(Nat), b \in Seq(Nat) : h = Append(g, Head(a)) /\ b = Tail(a) /\ h \o b = g \o a
        BY <3>2, HandedOn
      <4>3. OnTheWay(f, c, s, r, v, b, h, n)
        BY <2>6, <3>1, <4>2 DEF OnTheWay
      <4>4. value' = [value EXCEPT ![f] = v] /\ answers' = [answers EXCEPT ![f] = b]
            /\ got' = [got EXCEPT ![f] = h] /\ made' = [made EXCEPT ![f] = n]
            /\ feed' = [feed EXCEPT ![f] = [call |-> c, source |-> s, relay |-> r]]
        BY <2>5, <3>1, <4>1, <4>2
      <4>9. Moved(f, c, s, r, v, b, h, n) /\ ClockGoesOn
        BY <2>1, <2>5, <3>1, <4>4 DEF Moved, ClockGoesOn
      <4> QED  BY <2>2, <4>9, <4>3, CallMoves
    <3>3. CASE a = << >>
      <4>1. r = "off" /\ feed' = [feed EXCEPT ![f] = [call |-> "closed", source |-> s, relay |-> r]]
            /\ UNCHANGED <<got, answers>>
        BY <2>3, <2>4, <2>8, <2>15, <3>3 DEF Feed!CallerReads, Calls
      <4>2. s = "off" /\ v = << >> /\ g \o a \o v = OneTo(n)
        BY <2>6, <3>1, <4>1 DEF OnTheWay
      <4>3. g = OneTo(n)
        BY <3>3, <4>2, ConcatEmptySeq
      <4>4. OnTheWay(f, "closed", s, r, v, a, g, n) /\ "closed" \in Calls
        BY <4>1, <4>2, <4>3 DEF OnTheWay, Calls
      <4>9. Moved(f, "closed", s, r, v, a, g, n) /\ ClockGoesOn
        BY <2>1, <2>5, <3>1, <4>1 DEF Moved, ClockGoesOn
      <4> QED  BY <2>2, <4>9, <4>4, CallMoves
    <3> QED  BY <3>2, <3>3
  <2>16. CASE Feed!CallerLeaves(f)
    <3>1. feed' = [feed EXCEPT ![f] = [call |-> "left", source |-> s, relay |-> r]]
          /\ answers' = [answers EXCEPT ![f] = << >>] /\ UNCHANGED <<value, got, made, lastTick, tickAt>>
      BY <2>8, <2>16 DEF Feed!CallerLeaves, Calls
    <3>2. OnTheWay(f, "left", s, r, v, << >>, g, n) /\ "left" \in Calls
      BY DEF OnTheWay, Calls
    <3>9. Moved(f, "left", s, r, v, << >>, g, n) /\ ClockGoesOn
      BY <2>1, <2>5, <3>1 DEF Moved, ClockGoesOn
    <3> QED  BY <2>2, <3>9, <2>7, <3>2, CallMoves
  <2> QED  BY <1>1, <2>9, <2>11, <2>12, <2>13, <2>14, <2>15, <2>16
<1>2. ASSUME Feed!Probe \/ Feed!Health \/ Feed!Tick \/ UNCHANGED Feed!vars PROVE FeedInv' /\ Feed!TruthfulStep
  <2>1. UNCHANGED <<feed, value, answers, got, made, lastTick, tickAt>> /\ now' \in Nat \ {0}
    BY <1>2 DEF Feed!Probe, Feed!Health, Feed!Tick, Feed!vars, FeedInv, FeedTypeOK
  <2>2. FeedInv'
    BY <2>1 DEF FeedInv, FeedTypeOK, FeedOK, TickKept
  <2>3. CASE health' = health
    BY <2>2, <2>3 DEF Feed!TruthfulStep
  <2>4. CASE Feed!Health
    <3>1. health' = IF probe = "down" THEN [status |-> "down", lag |-> 0] ELSE Feed!TickHealth
      BY <2>4 DEF Feed!Health
    <3>2. health'.status = "ok" => lastTick > 0 /\ now - lastTick <= Feed!Fresh
      BY <3>1 DEF Feed!TickHealth, FeedInv, FeedTypeOK
    <3> QED  BY <2>2, <3>2 DEF Feed!TruthfulStep, FeedInv, TickKept, FeedTypeOK
  <2> QED  BY <1>2, <2>2, <2>3, <2>4 DEF Feed!Probe, Feed!Tick, Feed!vars
<1> QED  BY <1>1, <1>2 DEF Feed!Next

\* NothingLostOnTheWay (main.rs of the venue packs): a caller reads what the
\* source sent, in its order, and one that sees the end has read all of it.
THEOREM FeedsAreOrderly == Feed!Spec => []Feed!NothingLostOnTheWay
<1>1. Feed!Init => FeedInv
  BY FeedInit
<1>2. FeedInv /\ [Feed!Next]_(Feed!vars) => FeedInv'
  BY FeedNext
<1>3. FeedInv => Feed!NothingLostOnTheWay
  BY DEF FeedInv, FeedOK, OnTheWay, Feed!NothingLostOnTheWay, OneTo
<1> QED  BY <1>1, <1>2, <1>3, PTL DEF Feed!Spec

\* HealthTruthful (main.rs of the venue packs): a pack that reports itself
\* healthy made a tick, not only a book, within the limit.
THEOREM HealthIsTruthful == Feed!Spec => Feed!HealthTruthful
<1>1. Feed!Init => FeedInv
  BY FeedInit
<1>2. FeedInv /\ [Feed!Next]_(Feed!vars) => FeedInv'
  BY FeedNext
<1>3. FeedInv /\ [Feed!Next]_(Feed!vars) => [Feed!TruthfulStep]_(Feed!vars)
  BY FeedNext
<1> QED  BY <1>1, <1>2, <1>3, PTL DEF Feed!Spec, Feed!HealthTruthful

-----------------------------------------------------------------------------
(* AlpacaStream: ItemsAccountedFor for any symbols, batches and number of  *)
(* items, without an assumption on the constants.                          *)

Reported == [id : Int, sym : Symbols, kind : Alpaca!Kinds]
Quoted   == [item : Int, sym : Symbols, kind : Alpaca!Kinds]

\* What the venue says before it has accepted: at most one other thing, and
\* its verdict.
Answering ==
  \E m \in {"authenticated", "error"} :
    inbox = <<m>> \/ \E first \in {"connected", "other"} : inbox = <<first, m>>

InboxOK ==
  /\ conn = "auth" => Answering
  /\ conn = "up" => inbox = << >>
  /\ conn = "live" => inbox = << >> \/ \E f \in Seq(Reported) : inbox = <<f>>

\* An item of the last frame is published, preserved or still to be dealt with.
Accounted(e) ==
  \/ e.id \in preserved
  \/ \E q \in published : q.item = e.id /\ q.sym = e.sym
  \/ \E j \in DOMAIN todo : todo[j].item = e.id /\ todo[j].sym = e.sym

FrameInv ==
  /\ frame \in Seq(Reported) /\ todo \in Seq(Quoted)
  /\ InboxOK
  /\ conn # "stopped" => \A k \in DOMAIN frame : Accounted(frame[k])

LEMMA FrameInit == Alpaca!Init => FrameInv
<1> SUFFICES ASSUME Alpaca!Init PROVE FrameInv
  OBVIOUS
<1> QED  BY DEF Alpaca!Init, FrameInv, InboxOK

LEMMA FrameKept ==
  ASSUME FrameInv, UNCHANGED <<frame, todo, published, preserved>>, conn # "stopped", InboxOK'
  PROVE  FrameInv'
<1>1. ASSUME NEW k \in DOMAIN frame PROVE Accounted(frame[k])'
  BY DEF FrameInv, Accounted
<1> QED  BY <1>1 DEF FrameInv

LEMMA FrameNext == FrameInv /\ [Alpaca!Next]_(Alpaca!vars) => FrameInv'
<1> SUFFICES ASSUME FrameInv, [Alpaca!Next]_(Alpaca!vars) PROVE FrameInv'
  OBVIOUS
<1>1. CASE Alpaca!Dial
  <2>1. conn = "down" /\ conn' = "auth" /\ UNCHANGED <<frame, todo, published, preserved>>
    BY <1>1 DEF Alpaca!Dial
  <2>2. PICK m \in {"authenticated", "error"}, first \in {"connected", "other", "none"} :
          inbox' = (IF first = "none" THEN << >> ELSE <<first>>) \o <<m>>
    BY <1>1 DEF Alpaca!Dial
  <2>3. inbox' = <<m>> \/ (first \in {"connected", "other"} /\ inbox' = <<first, m>>)
    <3>1. CASE first = "none"
      BY <2>2, <3>1
    <3>2. CASE first # "none"
      <4>1. first \in {"connected", "other"} /\ inbox' = <<first>> \o <<m>>
        BY <2>2, <3>2
      <4>2. <<first>> \o <<m>> = <<first, m>>
        <5>1. PICK S : S = {first, m}
          OBVIOUS
        <5>2. <<first>> \in Seq(S) /\ <<m>> \in Seq(S) /\ <<first, m>> \in Seq(S)
          BY <5>1
        <5>3. <<first>> \o <<m>> \in Seq(S) /\ Len(<<first>> \o <<m>>) = 2
          BY <5>2
        <5>4. (<<first>> \o <<m>>)[1] = <<first, m>>[1] /\ (<<first>> \o <<m>>)[2] = <<first, m>>[2]
          BY <5>2
        <5>5. \A i \in 1 .. 2 : (<<first>> \o <<m>>)[i] = <<first, m>>[i]
          BY <5>4
        <5> QED  BY <5>2, <5>3, <5>5, SeqEqual
      <4> QED  BY <4>1, <4>2
    <3> QED  BY <3>1, <3>2
  <2>4. InboxOK'
    BY <2>1, <2>3 DEF InboxOK, Answering
  <2> QED  BY <2>1, <2>4, FrameKept
<1>2. CASE Alpaca!DialFails \/ Alpaca!AuthFails
  <2>1. conn # "stopped" /\ conn' \in {"down", "stopped"} /\ UNCHANGED <<frame, todo, published, preserved>>
    BY <1>2 DEF Alpaca!DialFails, Alpaca!AuthFails, Alpaca!FailedAttempt
  <2> QED  BY <2>1, FrameKept DEF InboxOK
<1>3. CASE Alpaca!OnAuthFrame
  <2>1. conn = "auth" /\ inbox # << >> /\ UNCHANGED <<frame, todo, published, preserved>>
    BY <1>3 DEF Alpaca!OnAuthFrame
  <2>2. PICK m \in {"authenticated", "error"} :
          inbox = <<m>> \/ \E first \in {"connected", "other"} : inbox = <<first, m>>
    BY <2>1 DEF FrameInv, InboxOK, Answering
  <2>3. \/ Head(inbox) = m /\ Tail(inbox) = << >>
        \/ Head(inbox) \in {"connected", "other"} /\ Tail(inbox) = <<m>>
    <3>1. CASE inbox = <<m>>
      BY <3>1
    <3>2. ASSUME NEW first \in {"connected", "other"}, inbox = <<first, m>>
          PROVE  Head(inbox) = first /\ Tail(inbox) = <<m>>
      BY <3>2
    <3> QED  BY <2>2, <3>1, <3>2
  <2>4. \/ Alpaca!AuthResponse(Head(inbox)) = "authenticated" /\ conn' = "up" /\ inbox' = Tail(inbox)
        \/ Alpaca!AuthResponse(Head(inbox)) = "none" /\ inbox' = Tail(inbox) /\ conn' = conn
        \/ conn' \in {"down", "stopped"}
    BY <1>3 DEF Alpaca!OnAuthFrame, Alpaca!FailedAttempt
  <2>5. InboxOK'
    BY <2>1, <2>3, <2>4 DEF InboxOK, Answering, Alpaca!AuthResponse
  <2> QED  BY <2>1, <2>5, FrameKept
<1>4. CASE Alpaca!Subscribe \/ Alpaca!StreamEnds
  <2>1. /\ conn \in {"up", "live"} /\ conn' \in {"live", "down"}
        /\ UNCHANGED <<frame, todo, published, preserved>>
        /\ conn' = "live" => conn = "up" /\ inbox' = inbox
    BY <1>4 DEF Alpaca!Subscribe, Alpaca!StreamEnds
  <2>2. InboxOK'
    BY <2>1 DEF FrameInv, InboxOK
  <2> QED  BY <2>1, <2>2, FrameKept
<1>5. CASE Alpaca!SendsFrame
  <2>1. conn = "live" /\ conn' = conn /\ UNCHANGED <<frame, todo, published, preserved>>
    BY <1>5 DEF Alpaca!SendsFrame
  <2>2. PICK f \in Alpaca!Batches(items) : inbox' = <<f>>
    BY <1>5 DEF Alpaca!SendsFrame
  <2>3. f \in Seq(Reported)
    <3>1. PICK k \in 1 .. MaxBatch : f \in [1 .. k -> [id : 1 .. MaxItems, sym : Symbols, kind : Alpaca!Kinds]]
      BY <2>2 DEF Alpaca!Batches
    <3>2. [id : 1 .. MaxItems, sym : Symbols, kind : Alpaca!Kinds] \subseteq Reported
      BY DEF Reported
    <3>3. f \in [1 .. k -> Reported] /\ k \in Nat
      BY <3>1, <3>2
    <3> QED  BY <3>3
  <2>4. InboxOK'
    BY <2>1, <2>2, <2>3 DEF InboxOK
  <2> QED  BY <2>1, <2>4, FrameKept
<1>6. CASE Alpaca!OnFrame
  <2>1. conn = "live" /\ inbox # << >> /\ inbox' = << >> /\ frame' = Head(inbox) /\ published' = published
    BY <1>6 DEF Alpaca!OnFrame
  <2>2. PICK f \in Seq(Reported) : inbox = <<f>> /\ Head(inbox) = f
    BY <2>1 DEF FrameInv, InboxOK
  <2>3. CASE todo' = Alpaca!Snapshots(f) /\ conn' = conn
    <3>1. /\ DOMAIN todo' = DOMAIN f
          /\ \A k \in DOMAIN f : /\ todo'[k] = [item |-> f[k].id, sym |-> f[k].sym, kind |-> f[k].kind]
                                 /\ todo'[k].item = f[k].id /\ todo'[k].sym = f[k].sym
                                 /\ todo'[k] \in Quoted
      <4>1. \A k \in DOMAIN f : f[k] \in Reported
        OBVIOUS
      <4>2. \A k \in DOMAIN f : [item |-> f[k].id, sym |-> f[k].sym, kind |-> f[k].kind] \in Quoted
        BY <4>1 DEF Reported, Quoted
      <4> QED  BY <2>3, <4>2 DEF Alpaca!Snapshots, Alpaca!Quotes
    <3>2. todo' \in Seq(Quoted)
      <4>1. PICK n \in Nat : n = Len(f) /\ DOMAIN f = 1 .. n
        OBVIOUS
      <4>2. todo' = [k \in 1 .. n |-> [item |-> f[k].id, sym |-> f[k].sym, kind |-> f[k].kind]]
        BY <2>3, <4>1 DEF Alpaca!Snapshots, Alpaca!Quotes
      <4>3. todo' \in [1 .. n -> Quoted]
        BY <3>1, <4>1, <4>2
      <4> QED  BY <4>3
    <3>3. \A k \in DOMAIN frame' : Accounted(frame[k])'
      BY <2>1, <2>2, <3>1 DEF Accounted
    <3>4. InboxOK'
      BY <2>1, <2>3 DEF InboxOK
    <3> QED  BY <2>1, <2>2, <3>2, <3>3, <3>4 DEF FrameInv
  <2>4. CASE conn' = conn /\ todo' = todo /\ preserved' = preserved \cup {f[k].id : k \in DOMAIN f}
    <3>1. \A k \in DOMAIN frame' : Accounted(frame[k])'
      BY <2>1, <2>2, <2>4 DEF Accounted
    <3>2. InboxOK'
      BY <2>1, <2>4 DEF InboxOK
    <3> QED  BY <2>1, <2>2, <2>4, <3>1, <3>2 DEF FrameInv
  <2>5. CASE conn' = "stopped" /\ todo' = todo
    BY <2>1, <2>2, <2>5 DEF FrameInv, InboxOK
  <2> QED  BY <1>6, <2>2, <2>3, <2>4, <2>5 DEF Alpaca!OnFrame
<1>7. CASE Alpaca!OnSnapshot
  <2>1. /\ conn = "live" /\ todo # << >> /\ todo' = Tail(todo) /\ UNCHANGED <<inbox, frame>>
        /\ \/ conn' = conn /\ preserved' = preserved /\ published' = published \cup {Head(todo)}
           \/ conn' = conn /\ published' = published /\ preserved' = preserved \cup {Head(todo).item}
           \/ conn' = "stopped"
    BY <1>7 DEF Alpaca!OnSnapshot
  <2>2. todo' \in Seq(Quoted) /\ \A j \in DOMAIN todo : todo[j] = Head(todo) \/ \E i \in DOMAIN todo' : todo'[i] = todo[j]
    <3>1. todo \in Seq(Quoted)
      BY DEF FrameInv
    <3>2. todo' \in Seq(Quoted) /\ Len(todo') = Len(todo) - 1
          /\ \A i \in 1 .. Len(todo') : todo'[i] = todo[i + 1]
      BY <2>1, <3>1
    <3>3. ASSUME NEW j \in DOMAIN todo, j # 1 PROVE \E i \in DOMAIN todo' : todo'[i] = todo[j]
      <4>1. j - 1 \in 1 .. Len(todo') /\ (j - 1) + 1 = j /\ DOMAIN todo' = 1 .. Len(todo')
        BY <3>1, <3>2, <3>3
      <4>2. todo'[j - 1] = todo[j]
        BY <3>2, <4>1
      <4> QED  BY <4>1, <4>2
    <3>4. Head(todo) = todo[1]
      BY <2>1, <3>1
    <3> QED  BY <3>2, <3>3, <3>4
  <2>3. ASSUME conn' # "stopped", NEW k \in DOMAIN frame PROVE Accounted(frame[k])'
    <3>1. Accounted(frame[k]) /\ frame'[k] = frame[k]
      BY <2>1 DEF FrameInv
    <3>2. CASE frame[k].id \in preserved \/ \E q \in published : q.item = frame[k].id /\ q.sym = frame[k].sym
      BY <2>1, <2>3, <3>1, <3>2 DEF Accounted
    <3>3. ASSUME NEW j \in DOMAIN todo, todo[j].item = frame[k].id, todo[j].sym = frame[k].sym
          PROVE  Accounted(frame[k])'
      BY <2>1, <2>2, <2>3, <3>1, <3>3 DEF Accounted
    <3> QED  BY <3>1, <3>2, <3>3 DEF Accounted
  <2>4. InboxOK'
    BY <2>1 DEF FrameInv, InboxOK
  <2> QED  BY <2>1, <2>2, <2>3, <2>4 DEF FrameInv
<1>8. CASE UNCHANGED Alpaca!vars
  BY <1>8 DEF Alpaca!vars, FrameInv, InboxOK, Answering, Accounted
<1> QED  BY <1>1, <1>2, <1>3, <1>4, <1>5, <1>6, <1>7, <1>8 DEF Alpaca!Next

\* ItemsAccountedFor (handle_ws_message of ws.rs of Alpaca): each item of a frame that has been
\* dealt with was published under its own symbol, or is preserved.
THEOREM ItemsAreAccountedFor == Alpaca!Spec => []Alpaca!ItemsAccountedFor
<1>1. Alpaca!Init => FrameInv
  BY FrameInit
<1>2. FrameInv /\ [Alpaca!Next]_(Alpaca!vars) => FrameInv'
  BY FrameNext
<1>3. FrameInv => Alpaca!ItemsAccountedFor
  BY DEF FrameInv, Accounted, Alpaca!ItemsAccountedFor
<1> QED  BY <1>1, <1>2, <1>3, PTL DEF Alpaca!Spec

-----------------------------------------------------------------------------
(* KalshiStream: BooksFaithful for any number of changes, sessions, lost and*)
(* unusable messages, without an assumption on the constants.              *)

Note == [kind : {"snapshot", "delta", "tick"}, seq : Nat, to : Nat, fault : Kalshi!Faults]

\* The change before a message: what a book must account for to take it.
Base(m) == IF m.kind = "delta" THEN m.to - 1 ELSE m.to

\* What the book of a task that has read everything before w accounts for.
Reached(w, c) == IF w = << >> THEN c ELSE Base(w[1])

\* The messages of a book under way, when the venue has sent s and made c
\* changes: numbered without a hole, each from where the one before it leads.
OnTheWire(w, s, c) ==
  /\ w \in Seq(Note) /\ s \in Nat /\ c \in Nat /\ Len(w) <= s
  /\ \A i \in 1 .. Len(w) : /\ w[i].seq = s - Len(w) + i
                            /\ w[i].to <= c
                            /\ w[i].kind # "tick"
                            /\ w[i].kind = "delta" => w[i].to >= 1
  /\ \A i \in 1 .. Len(w) - 1 : Base(w[i + 1]) = w[i].to
  /\ w # << >> => w[Len(w)].to = c

LEMMA FirstRead ==
  ASSUME NEW w, NEW s, NEW c, OnTheWire(w, s, c), w # << >>
  PROVE  /\ OnTheWire(Tail(w), s, c) /\ Len(Tail(w)) = Len(w) - 1 /\ Head(w) = w[1] /\ w[1] \in Note
         /\ Reached(Tail(w), c) = w[1].to /\ w[1].seq = s - Len(w) + 1
         /\ w[1].kind # "tick" /\ w[1].to \in 0 .. c /\ (w[1].kind = "delta" => w[1].to >= 1)
         /\ w[1].seq \in Nat \ {0}
<1>1. /\ w \in Seq(Note) /\ s \in Nat /\ c \in Nat /\ Len(w) \in Nat /\ Len(w) # 0
      /\ Head(w) = w[1] /\ 1 \in 1 .. Len(w)
  BY DEF OnTheWire
<1>2. /\ Tail(w) \in Seq(Note) /\ Len(Tail(w)) = Len(w) - 1
      /\ \A i \in 1 .. Len(w) - 1 : Tail(w)[i] = w[i + 1]
      /\ Tail(w) = << >> <=> Len(w) = 1
  <2>1. /\ Tail(w) \in Seq(Note) /\ Len(Tail(w)) = Len(w) - 1
        /\ \A i \in 1 .. Len(w) - 1 : Tail(w)[i] = w[i + 1]
    BY <1>1
  <2>2. Tail(w) = << >> <=> Len(Tail(w)) = 0
    BY <2>1, EmptySeq
  <2> QED  BY <1>1, <2>1, <2>2
<1>3. w[1] \in Note
  BY <1>1
<1>4. /\ w[1].seq = s - Len(w) + 1 /\ w[1].to <= c /\ Len(w) <= s
      /\ w[1].kind # "tick" /\ (w[1].kind = "delta" => w[1].to >= 1)
  BY <1>1 DEF OnTheWire
<1>5. Reached(Tail(w), c) = w[1].to
  <2>1. CASE Len(w) = 1
    BY <1>1, <1>2, <2>1 DEF OnTheWire, Reached
  <2>2. CASE Len(w) # 1
    <3>1. 1 \in 1 .. Len(w) - 1 /\ Tail(w) # << >> /\ Tail(w)[1] = w[1 + 1]
      BY <1>1, <1>2, <2>2
    <3>2. Base(w[1 + 1]) = w[1].to
      BY <3>1 DEF OnTheWire
    <3> QED  BY <3>1, <3>2 DEF Reached
  <2> QED  BY <2>1, <2>2
<1>6. OnTheWire(Tail(w), s, c)
  <2>1. ASSUME NEW i \in 1 .. Len(Tail(w))
        PROVE  /\ Tail(w)[i].seq = s - Len(Tail(w)) + i
               /\ Tail(w)[i].to <= c
               /\ Tail(w)[i].kind # "tick"
               /\ Tail(w)[i].kind = "delta" => Tail(w)[i].to >= 1
    <3>1. i + 1 \in 1 .. Len(w) /\ Tail(w)[i] = w[i + 1] /\ i \in Int
      BY <1>1, <1>2
    <3>2. /\ w[i + 1].seq = s - Len(w) + (i + 1) /\ w[i + 1].to <= c /\ w[i + 1].kind # "tick"
          /\ w[i + 1].kind = "delta" => w[i + 1].to >= 1
      BY <3>1 DEF OnTheWire
    <3> QED  BY <1>1, <1>2, <3>1, <3>2
  <2>2. ASSUME NEW i \in 1 .. Len(Tail(w)) - 1 PROVE Base(Tail(w)[i + 1]) = Tail(w)[i].to
    <3>1. i + 1 \in 1 .. Len(w) - 1 /\ Tail(w)[i] = w[i + 1] /\ Tail(w)[i + 1] = w[(i + 1) + 1]
      BY <1>1, <1>2
    <3> QED  BY <3>1 DEF OnTheWire
  <2>3. Tail(w) # << >> => Tail(w)[Len(Tail(w))].to = c
    <3>1. ASSUME Tail(w) # << >> PROVE Len(w) - 1 \in 1 .. Len(w) - 1 /\ (Len(w) - 1) + 1 = Len(w)
      BY <1>1, <1>2, <3>1
    <3>2. w[Len(w)].to = c
      BY DEF OnTheWire
    <3> QED  BY <1>2, <3>1, <3>2
  <2> QED  BY <1>1, <1>2, <1>4, <2>1, <2>2, <2>3 DEF OnTheWire
<1>7. w[1].to \in 0 .. c /\ w[1].seq \in Nat \ {0}
  BY <1>1, <1>3, <1>4 DEF Note
<1> QED  BY <1>1, <1>2, <1>3, <1>4, <1>5, <1>6, <1>7

\* One more message is under way: a snapshot of the book, or its next change.
Joined(v, w, s, to, kind) ==
  \E fault \in Kalshi!Faults : v = Append(w, [kind |-> kind, seq |-> s + 1, to |-> to, fault |-> fault])

LEMMA OneMore ==
  ASSUME NEW w, NEW s, NEW c, OnTheWire(w, s, c), NEW v, NEW d, NEW kind,
         Joined(v, w, s, d, kind),
         \/ kind = "snapshot" /\ d = c
         \/ kind = "delta" /\ d = c + 1
  PROVE  /\ OnTheWire(v, s + 1, d) /\ v # << >> /\ Len(v) = Len(w) + 1
         /\ Reached(v, d) = Reached(w, c)
         /\ w = << >> => v[1].kind = kind
         /\ w # << >> => v[1].kind = w[1].kind
<1>0. PICK fault \in Kalshi!Faults : v = Append(w, [kind |-> kind, seq |-> s + 1, to |-> d, fault |-> fault])
  BY DEF Joined
<1> DEFINE m == [kind |-> kind, seq |-> s + 1, to |-> d, fault |-> fault]
<1>1. /\ w \in Seq(Note) /\ s \in Nat /\ c \in Nat /\ Len(w) \in Nat /\ Len(w) <= s /\ d \in Nat
      /\ w = << >> <=> Len(w) = 0
  BY DEF OnTheWire
<1>2. m \in Note /\ m.kind = kind /\ m.seq = s + 1 /\ m.to = d /\ Base(m) = c /\ kind # "tick"
      /\ (kind = "delta" => d >= 1) /\ c <= d
  BY <1>1 DEF Note, Base
<1> HIDE DEF m
<1>3. v = Append(w, m)
  BY <1>0 DEF m
<1>4. /\ v \in Seq(Note) /\ Len(v) = Len(w) + 1 /\ v # << >>
      /\ \A i \in 1 .. Len(w) : v[i] = w[i]
      /\ v[Len(w) + 1] = m
  BY <1>1, <1>2, <1>3
<1>5. ASSUME NEW i \in 1 .. Len(v)
      PROVE  /\ v[i].seq = (s + 1) - Len(v) + i
             /\ v[i].to <= d
             /\ v[i].kind # "tick"
             /\ v[i].kind = "delta" => v[i].to >= 1
  <2>1. CASE i \in 1 .. Len(w)
    <3>1. /\ w[i].seq = s - Len(w) + i /\ w[i].to <= c /\ w[i].kind # "tick"
          /\ w[i].kind = "delta" => w[i].to >= 1
      BY <2>1 DEF OnTheWire
    <3>2. w[i] \in Note
      BY <1>1, <2>1
    <3>3. w[i].to \in Nat
      BY <3>2 DEF Note
    <3> QED  BY <1>1, <1>2, <1>4, <2>1, <3>1, <3>3
  <2>2. CASE i = Len(w) + 1
    BY <1>1, <1>2, <1>4, <2>2
  <2> QED  BY <1>1, <1>4, <2>1, <2>2
<1>6. ASSUME NEW i \in 1 .. Len(v) - 1 PROVE Base(v[i + 1]) = v[i].to
  <2>1. i \in 1 .. Len(w) /\ v[i] = w[i]
    BY <1>1, <1>4
  <2>2. CASE i = Len(w)
    <3>1. w # << >> /\ w[Len(w)].to = c
      BY <1>1, <2>1 DEF OnTheWire
    <3> QED  BY <1>2, <1>4, <2>1, <2>2, <3>1
  <2>3. CASE i # Len(w)
    <3>1. i \in 1 .. Len(w) - 1 /\ i + 1 \in 1 .. Len(w)
      BY <1>1, <2>1, <2>3
    <3>2. Base(w[i + 1]) = w[i].to
      BY <3>1 DEF OnTheWire
    <3> QED  BY <1>4, <2>1, <3>1, <3>2
  <2> QED  BY <2>2, <2>3
<1>7. v[Len(v)].to = d
  BY <1>1, <1>2, <1>4
<1>8. OnTheWire(v, s + 1, d)
  <2>1. s + 1 \in Nat /\ Len(v) <= s + 1
    BY <1>1, <1>4
  <2> QED  BY <1>1, <1>4, <1>5, <1>6, <1>7, <2>1, Zenon DEF OnTheWire
<1>9. /\ Reached(v, d) = Reached(w, c)
      /\ w = << >> => v[1].kind = kind
      /\ w # << >> => v[1].kind = w[1].kind
  <2>1. CASE w = << >>
    BY <1>1, <1>2, <1>4, <2>1 DEF Reached
  <2>2. CASE w # << >>
    <3>1. 1 \in 1 .. Len(w)
      BY <1>1, <2>2
    <3> QED  BY <1>4, <2>2, <3>1 DEF Reached
  <2> QED  BY <2>1, <2>2
<1> QED  BY <1>4, <1>8, <1>9

-----------------------------------------------------------------------------
\* A book the task may publish from: the one its next message starts from, or,
\* at the start of a session, the old one with a snapshot on its way.
BookOK ==
  (book # Kalshi!NoBook /\ ~blind /\ conn = "live") =>
     IF last = 0 THEN wire # << >> /\ wire[1].kind = "snapshot"
     ELSE sent - Len(wire) = last => book = 1 .. Reached(wire, changes)

StreamInv ==
  role = "books" =>
    /\ OnTheWire(wire, sent, changes)
    /\ last \in Nat /\ last <= sent - Len(wire)
    /\ conn = "connected" => last = 0 /\ wire = << >>
    /\ BookOK

LEMMA StreamInit == Kalshi!Init => StreamInv
<1> SUFFICES ASSUME Kalshi!Init PROVE StreamInv
  OBVIOUS
<1>1. wire = << >> /\ sent = 0 /\ changes = 0 /\ last = 0 /\ book = Kalshi!NoBook /\ conn = "down"
  BY DEF Kalshi!Init
<1>2. OnTheWire(wire, sent, changes)
  BY <1>1 DEF OnTheWire
<1> QED  BY <1>1, <1>2 DEF StreamInv, BookOK

\* The message the task reads takes its book from one prefix of the venue's
\* changes to another.
LEMMA MessageRead ==
  ASSUME StreamInv, role = "books", NEW m, m = Head(wire), Kalshi!OnMessage(m)
  PROVE  StreamInv' /\ Kalshi!FaithfulStep
<1>1. /\ OnTheWire(wire, sent, changes) /\ last \in Nat /\ last <= sent - Len(wire)
      /\ conn = "live" /\ wire # << >> /\ role' = "books" /\ BookOK
  BY DEF StreamInv, Kalshi!OnMessage, Kalshi!OnInvalidJson, Kalshi!OnGap, Kalshi!OnTick,
     Kalshi!OnSnapshot, Kalshi!OnDelta, Kalshi!Observed, Kalshi!Receive
<1>2. PICK w : w = Tail(wire)
  OBVIOUS
<1>3. /\ OnTheWire(w, sent, changes) /\ Len(w) = Len(wire) - 1 /\ m = wire[1] /\ m \in Note
      /\ Reached(w, changes) = m.to /\ m.seq = sent - Len(wire) + 1
      /\ m.kind # "tick" /\ m.to \in 0 .. changes /\ (m.kind = "delta" => m.to >= 1)
      /\ m.seq \in Nat \ {0}
  BY <1>1, <1>2, FirstRead
<1>4. Len(wire) \in Nat /\ sent \in Nat /\ changes \in Nat /\ Len(w) \in Nat
  BY <1>1, <1>3 DEF OnTheWire
<1>5. CASE Kalshi!OnInvalidJson(m)
  <2>1. /\ conn' \in {"live", "stopped"} /\ wire' = w /\ UNCHANGED <<last, book, changes, sent, published>>
        /\ blind' = (blind \/ (last = 0 /\ m.kind = "snapshot"))
    BY <1>1, <1>2, <1>5 DEF Kalshi!OnInvalidJson, Kalshi!Quarantined
  <2>2. BookOK'
    <3>1. ASSUME book # Kalshi!NoBook, ~blind', conn' = "live" PROVE last # 0 /\ sent - Len(w) # last
      <4>1. ~blind /\ ~(last = 0 /\ m.kind = "snapshot")
        BY <2>1, <3>1
      <4>2. last # 0
        BY <1>1, <1>3, <3>1, <4>1 DEF BookOK
      <4>3. sent - Len(w) > last
        BY <1>1, <1>3, <1>4
      <4> QED  BY <1>1, <1>4, <4>2, <4>3
    <3> QED  BY <2>1, <3>1 DEF BookOK
  <2>3. OnTheWire(wire', sent', changes') /\ last' \in Nat /\ last' <= sent' - Len(wire')
    BY <1>1, <1>3, <1>4, <2>1
  <2> QED  BY <2>1, <2>2, <2>3 DEF StreamInv, Kalshi!FaithfulStep
<1>6. CASE Kalshi!OnGap(m)
  <2>1. book' = Kalshi!NoBook /\ conn' \in {"live", "down"} /\ published' = published
    BY <1>1, <1>6 DEF Kalshi!OnGap, Kalshi!BookAfterGap
  <2>2. BookOK'
    BY <2>1 DEF BookOK
  <2>3. CASE /\ last' = 0 /\ changes' = changes
             /\ \E fault \in Kalshi!Faults \ {"late"} :
                  /\ wire' = Append(w, [kind |-> "snapshot", seq |-> sent + 1,
                                        to |-> changes, fault |-> fault])
                  /\ sent' = sent + 1
    <3>1. Joined(wire', w, sent, changes, "snapshot") /\ sent' = sent + 1
      BY <2>3 DEF Joined
    <3>2. OnTheWire(wire', sent + 1, changes) /\ Len(wire') = Len(w) + 1
      BY <1>3, <3>1, OneMore
    <3>3. /\ OnTheWire(wire', sent', changes') /\ last' = 0 /\ last' \in Nat
          /\ last' <= sent' - Len(wire')
      BY <1>3, <1>4, <2>3, <3>1, <3>2
    <3> QED  BY <2>1, <2>2, <3>3 DEF StreamInv, Kalshi!FaithfulStep
  <2>4. CASE last' = m.seq /\ wire' = w /\ sent' = sent /\ changes' = changes
    BY <1>3, <1>4, <2>1, <2>2, <2>4 DEF StreamInv, Kalshi!FaithfulStep
  <2> QED  BY <1>1, <1>2, <1>6, <2>3, <2>4 DEF Kalshi!OnGap
<1>7. CASE Kalshi!OnTick(m)
  BY <1>3, <1>7 DEF Kalshi!OnTick
<1>8. ASSUME Kalshi!Observed(m)
      PROVE  /\ last' = m.seq /\ wire' = w /\ sent' = sent /\ changes' = changes
             /\ last' # 0 /\ sent - Len(w) = m.seq
             /\ last # 0 => sent - Len(wire) = last
  <2>1. last' = m.seq /\ wire' = w /\ sent' = sent /\ changes' = changes /\ ~Kalshi!Gap(m.seq)
    BY <1>2, <1>8 DEF Kalshi!Observed
  <2>2. PICK n \in Nat : n = m.seq /\ n # 0 /\ n = sent - Len(wire) + 1
    BY <1>3
  <2>3. last = 0 \/ n <= last + 1
    BY <1>1, <2>1, <2>2 DEF Kalshi!Gap
  <2> QED  BY <1>1, <1>3, <1>4, <2>1, <2>2, <2>3
<1>9. CASE Kalshi!OnSnapshot(m)
  <2>1. /\ last' = m.seq /\ wire' = w /\ sent' = sent /\ changes' = changes
        /\ last' # 0 /\ sent - Len(w) = m.seq
    BY <1>8, <1>9 DEF Kalshi!OnSnapshot
  <2>2. \/ book' = 1 .. m.to /\ (published' = published \/ published' = book')
        \/ blind' = TRUE /\ published' = published
    BY <1>9 DEF Kalshi!OnSnapshot, Kalshi!Publish, Kalshi!Quarantined
  <2>3. conn' # "connected"
    BY <1>1, <1>9 DEF Kalshi!OnSnapshot, Kalshi!Publish, Kalshi!Quarantined
  <2>4. BookOK'
    BY <1>3, <2>1, <2>2 DEF BookOK
  <2>5. Kalshi!FaithfulStep
    BY <1>3, <2>1, <2>2 DEF Kalshi!FaithfulStep
  <2> QED  BY <1>3, <1>4, <2>1, <2>3, <2>4, <2>5 DEF StreamInv
<1>10. CASE Kalshi!OnDelta(m)
  <2>1. /\ last' = m.seq /\ wire' = w /\ sent' = sent /\ changes' = changes
        /\ last' # 0 /\ sent - Len(w) = m.seq
        /\ last # 0 => sent - Len(wire) = last
    BY <1>8, <1>10 DEF Kalshi!OnDelta
  <2>2. conn' # "connected" /\ m.kind = "delta"
    BY <1>1, <1>10 DEF Kalshi!OnDelta, Kalshi!Publish, Kalshi!Quarantined
  <2>3. CASE book = Kalshi!NoBook /\ book' = book /\ published' = published
    <3>1. BookOK'
      BY <2>3 DEF BookOK
    <3> QED  BY <1>3, <1>4, <2>1, <2>2, <2>3, <3>1 DEF StreamInv, Kalshi!FaithfulStep
  <2>4. CASE /\ book # Kalshi!NoBook /\ book' = Kalshi!ApplyDelta(book, m)
             /\ blind' = (blind \/ m.fault = "data")
             /\ published' = published \/ published' = book'
    <3>1. ASSUME ~blind' PROVE book' = 1 .. m.to
      <4>1. ~blind /\ book' = book \cup {m.to}
        BY <2>4, <3>1 DEF Kalshi!ApplyDelta
      <4>2. last # 0
        BY <1>1, <1>3, <2>2, <2>4, <4>1 DEF BookOK
      <4>3. book = 1 .. Reached(wire, changes)
        BY <1>1, <2>1, <2>4, <4>1, <4>2 DEF BookOK
      <4>4. Reached(wire, changes) = m.to - 1
        BY <1>1, <1>3, <2>2 DEF Reached, Base
      <4>5. PICK n \in Nat : n = m.to /\ n >= 1
        BY <1>3, <1>4, <2>2
      <4>6. (1 .. n - 1) \cup {n} = 1 .. n
        BY <4>5
      <4> QED  BY <4>1, <4>3, <4>4, <4>5, <4>6
    <3>2. BookOK'
      BY <1>3, <2>1, <3>1 DEF BookOK
    <3>3. Kalshi!FaithfulStep
      BY <1>3, <2>1, <2>4, <3>1 DEF Kalshi!FaithfulStep
    <3> QED  BY <1>3, <1>4, <2>1, <2>2, <3>2, <3>3 DEF StreamInv
  <2> QED  BY <1>10, <2>3, <2>4 DEF Kalshi!OnDelta, Kalshi!Publish, Kalshi!Quarantined
<1> QED  BY <1>5, <1>6, <1>7, <1>9, <1>10 DEF Kalshi!OnMessage

LEMMA StreamNext == StreamInv /\ [Kalshi!Next]_(Kalshi!vars) => StreamInv' /\ Kalshi!FaithfulStep
<1> SUFFICES ASSUME StreamInv, [Kalshi!Next]_(Kalshi!vars) PROVE StreamInv' /\ Kalshi!FaithfulStep
  OBVIOUS
<1>1. CASE role # "books"
  <2>1. role' = role
    BY DEF Kalshi!Next, Kalshi!vars, Kalshi!task, Kalshi!Change, Kalshi!Lose, Kalshi!Connect,
       Kalshi!Refused, Kalshi!Subscribe, Kalshi!SubscribeFails,
       Kalshi!StreamEnds, Kalshi!OnMessage, Kalshi!OnInvalidJson, Kalshi!OnGap,
       Kalshi!OnTick, Kalshi!OnSnapshot, Kalshi!OnDelta, Kalshi!Observed
  <2> QED  BY <1>1, <2>1 DEF StreamInv, Kalshi!FaithfulStep
<1>2. ASSUME role = "books", ~(wire # << >> /\ Kalshi!OnMessage(Head(wire)))
      PROVE  StreamInv' /\ Kalshi!FaithfulStep
  <2>1. /\ OnTheWire(wire, sent, changes) /\ last \in Nat /\ last <= sent - Len(wire)
        /\ (conn = "connected" => last = 0 /\ wire = << >>) /\ BookOK
        /\ Len(wire) \in Nat /\ sent \in Nat /\ changes \in Nat
    <3>1. /\ OnTheWire(wire, sent, changes) /\ last \in Nat /\ last <= sent - Len(wire)
          /\ (conn = "connected" => last = 0 /\ wire = << >>) /\ BookOK
      BY <1>2 DEF StreamInv
    <3>2. wire \in Seq(Note) /\ sent \in Nat /\ changes \in Nat
      BY <3>1 DEF OnTheWire
    <3>3. Len(wire) \in Nat
      BY <3>2
    <3> QED  BY <3>1, <3>2, <3>3
  <2>2. CASE Kalshi!Change
    <3>1. conn = "live" /\ changes' = changes + 1 /\ UNCHANGED <<role, conn, last, book, published, blind>>
      BY <2>2 DEF Kalshi!Change, Kalshi!task
    <3>2. Joined(wire', wire, sent, changes + 1, "delta") /\ sent' = sent + 1
      BY <1>2, <2>2 DEF Kalshi!Change, Kalshi!Feed, Joined
    <3>3. /\ OnTheWire(wire', sent + 1, changes + 1) /\ wire' # << >> /\ Len(wire') = Len(wire) + 1
          /\ Reached(wire', changes + 1) = Reached(wire, changes)
          /\ wire # << >> => wire'[1].kind = wire[1].kind
      BY <2>1, <3>2, OneMore
    <3>4. BookOK'
      BY <2>1, <3>1, <3>2, <3>3 DEF BookOK
    <3> QED  BY <2>1, <3>1, <3>2, <3>3, <3>4 DEF StreamInv, Kalshi!FaithfulStep
  <2>3. CASE Kalshi!Lose
    <3>1. /\ wire # << >> /\ wire' = Tail(wire)
          /\ blind' = (blind \/ (last = 0 /\ Head(wire).kind = "snapshot"))
          /\ UNCHANGED <<role, conn, last, book, published, changes, sent>>
      BY <2>3 DEF Kalshi!Lose
    <3>2. OnTheWire(wire', sent, changes) /\ Len(wire') = Len(wire) - 1 /\ Head(wire) = wire[1]
      BY <2>1, <3>1, FirstRead
    <3>3. BookOK'
      <4>1. ASSUME book # Kalshi!NoBook, ~blind', conn = "live" PROVE last # 0 /\ sent - Len(wire') # last
        <5>1. ~blind /\ ~(last = 0 /\ wire[1].kind = "snapshot")
          BY <3>1, <3>2, <4>1
        <5>2. last # 0
          BY <2>1, <4>1, <5>1 DEF BookOK
        <5> QED  BY <2>1, <3>2, <5>2
      <4> QED  BY <3>1, <4>1 DEF BookOK
    <3> QED  BY <2>1, <3>1, <3>2, <3>3 DEF StreamInv, Kalshi!FaithfulStep
  <2>4. CASE Kalshi!Connect
    <3>1. /\ conn' = "connected" /\ last' = 0 /\ wire' = << >> /\ sent' = 0
          /\ UNCHANGED <<role, changes, published>>
      BY <2>4 DEF Kalshi!Connect
    <3>2. OnTheWire(wire', sent', changes')
      BY <2>1, <3>1 DEF OnTheWire
    <3> QED  BY <3>1, <3>2 DEF StreamInv, Kalshi!FaithfulStep, BookOK
  <2>5. CASE Kalshi!Refused \/ Kalshi!SubscribeFails \/ Kalshi!StreamEnds
    <3>1. conn' \in {"down", "stopped"} /\ UNCHANGED <<role, last, wire, sent, changes, published>>
      BY <2>5 DEF Kalshi!Refused, Kalshi!SubscribeFails, Kalshi!StreamEnds, Kalshi!venue
    <3> QED  BY <2>1, <3>1 DEF StreamInv, Kalshi!FaithfulStep, BookOK
  <2>6. CASE Kalshi!Subscribe
    <3>1. conn = "connected" /\ conn' = "live" /\ UNCHANGED <<role, last, book, published, blind, changes>>
      BY <2>6 DEF Kalshi!Subscribe
    <3>2. Joined(wire', wire, sent, changes, "snapshot") /\ sent' = sent + 1
      BY <1>2, <2>6 DEF Kalshi!Subscribe, Kalshi!Answered, Kalshi!Feed, Joined
    <3>3. OnTheWire(wire', sent + 1, changes) /\ wire' # << >> /\ Len(wire') = Len(wire) + 1
      BY <2>1, <3>2, OneMore
    <3>4. last = 0 /\ wire = << >> /\ last' = 0
      BY <2>1, <3>1
    <3>5. wire'[1].kind = "snapshot"
      BY <2>1, <3>2, <3>4, OneMore
    <3>6. BookOK'
      BY <3>3, <3>4, <3>5, Zenon DEF BookOK
    <3>7. OnTheWire(wire', sent', changes') /\ last' <= sent' - Len(wire')
      BY <2>1, <3>1, <3>2, <3>3
    <3> QED  BY <2>1, <3>1, <3>4, <3>6, <3>7 DEF StreamInv, Kalshi!FaithfulStep
  <2>7. CASE UNCHANGED Kalshi!vars
    BY <1>2, <2>1, <2>7 DEF Kalshi!vars, Kalshi!task, Kalshi!venue, StreamInv,
       Kalshi!FaithfulStep, BookOK
  <2> QED  BY <1>2, <2>2, <2>3, <2>4, <2>5, <2>6, <2>7 DEF Kalshi!Next
<1> QED  BY <1>1, <1>2, MessageRead

\* BooksFaithful (handle_message, SeqTracker::observe and apply_delta of stream.rs of Kalshi):
\* a book that reaches the bus is one the venue had.
THEOREM BooksAreFaithful == Kalshi!Spec => Kalshi!BooksFaithful
<1>1. Kalshi!Init => StreamInv
  BY StreamInit
<1>2. StreamInv /\ [Kalshi!Next]_(Kalshi!vars) => StreamInv'
  BY StreamNext
<1>3. StreamInv /\ [Kalshi!Next]_(Kalshi!vars) => [Kalshi!FaithfulStep]_(Kalshi!vars)
  BY StreamNext
<1> QED  BY <1>1, <1>2, <1>3, PTL DEF Kalshi!Spec, Kalshi!BooksFaithful
=============================================================================
