------------------------ MODULE OpportunityLifecycle ------------------------
(***************************************************************************)
(* The life of an opportunity across the components that share its row:    *)
(* the scanner (connectors/execution/scanner) detects, refreshes and       *)
(* expires it, the gateway (crates/aether-gateway) surfaces it, a human    *)
(* ignores it or has it executed by the action service (server/actions),   *)
(* directly or with an approval of the alerts service (server/alerts).     *)
(*                                                                         *)
(* The row's state only changes by inserting an event, whose trigger       *)
(* (infra/migrations/0037) locks the row, requires the state the writer    *)
(* expects and refuses a transition outside its table.  A transaction that *)
(* locks the row first is one step here; what a component learnt before is *)
(* kept in its own variables.                                              *)
(*                                                                         *)
(* Legs are executed by execute-paper, which PaperExecution models: a leg  *)
(* has one durable execution, whoever asks for it and how often.           *)
(***************************************************************************)
EXTENDS Naturals, FiniteSets, TLAPS

CONSTANTS Scanners,       \* scanner processes
          Chains,         \* opportunity ids, one chain of events each
          Keys,           \* dedupe keys
          KeyOf,          \* dedupe_key(opportunity)
          NumLegs,        \* the legs of an opportunity
          Approvals,      \* approval references of execute_paper
          Direct,         \* execute-paper calls of a tier 5 actor
          MaxContents,    \* bound on the contents that detections give chains
          MaxFailures     \* bound on failures of scanners and the feed

Calls == Approvals \cup Direct
NoChain == "no chain"
NoKey == "no key"
Legs == 1..NumLegs

ASSUME LifecycleAssumption ==
  /\ NoChain \notin Chains
  /\ NoKey \notin Keys
  /\ KeyOf \in [Chains -> Keys]
  /\ NumLegs \in Nat \ {0}
  /\ Approvals \cap Direct = {}
  /\ MaxContents \in Nat
  /\ MaxFailures \in Nat

\* "detected" and "expired" only occur inside a transaction.
States == {"none", "scored", "surfaced", "accepted", "executed", "closed"}
Outcomes == {"none", "expired_pre_surface", "ignored"}
ScannerStages == {"scan", "refresh", "send", "mark", "sweep", "down"}
ApprovalStates == {"none", "pending", "approved", "rejected", "expired",
                   "failed"}
CallStages == {"idle", "begin", "lock", "leg", "run", "end", "done", "failed"}

VARIABLES
  state, edition, due, attribution, \* opportunities, attribution
  outbox, sent,     \* opportunity_detection_outbox, the opps.detected topic
  spc, skey, todo, sending, \* per scanner: stage, key, rows to publish
  feed, shown,      \* the gateway's consumer, chains whose frame was received
  approval, lapsed, \* approval_references.status, those past expires_ts
  notifying,        \* approvals whose prompt or effect is under way
  cpc, about, next, snapshot, \* per call: stage, chain, leg, legs it read
  fills,            \* per leg, 0 or 1 + the edition it was executed from
  contents, failures

rowVars == <<state, edition, due, attribution>>
outboxVars == <<outbox, sent>>
scannerVars == <<spc, skey, todo, sending>>
feedVars == <<feed, shown>>
approvalVars == <<approval, lapsed, notifying>>
callVars == <<cpc, about, next, snapshot>>
counters == <<contents, failures>>
vars == <<rowVars, outboxVars, scannerVars, feedVars, approvalVars, callVars,
          fills, counters>>

Init ==
  /\ state = [c \in Chains |-> "none"]
  /\ edition = [c \in Chains |-> 0]
  /\ due = {}
  /\ attribution = [c \in Chains |-> "none"]
  /\ outbox = [c \in Chains |-> "none"]
  /\ sent = {}
  /\ spc = [s \in Scanners |-> "scan"]
  /\ skey = [s \in Scanners |-> NoKey]
  /\ todo = [s \in Scanners |-> {}]
  /\ sending = [s \in Scanners |-> NoChain]
  /\ feed = "on"
  /\ shown = {}
  /\ approval = [a \in Approvals |-> "none"]
  /\ lapsed = {}
  /\ notifying = {}
  /\ cpc = [x \in Calls |-> "idle"]
  /\ about = [x \in Calls |-> NoChain]
  /\ next = [x \in Calls |-> 0]
  /\ snapshot = [x \in Calls |-> 0]
  /\ fills = [c \in Chains |-> [l \in Legs |-> 0]]
  /\ contents = 0
  /\ failures = 0

-----------------------------------------------------------------------------
(* scanner *)

Goto(s, stage) == spc' = [spc EXCEPT ![s] = stage]

\* Mutant: the index forgets the chains that a human has seen.
OpenUnseen(k) == {c \in Chains : KeyOf[c] = k /\ state[c] = "scored"}

\* The chains in the unique index on dedupe_key.
Open(k) ==
  {c \in Chains : KeyOf[c] = k /\ state[c] \notin {"none", "closed"}}

\* persist_scored: the insert of a new chain with its event and outbox row,
\* or nothing because the key has an open chain.
Detect(s, k) ==
  /\ spc[s] = "scan"
  /\ \/ /\ Open(k) = {}
        /\ contents < MaxContents
        /\ contents' = contents + 1
        /\ \E c \in {d \in Chains : KeyOf[d] = k /\ state[d] = "none"} :
             /\ state' = [state EXCEPT ![c] = "scored"]
             /\ outbox' = [outbox EXCEPT ![c] = "pending"]
        /\ UNCHANGED <<spc, skey>>
     \/ /\ Open(k) # {}
        /\ Goto(s, "refresh")
        /\ skey' = [skey EXCEPT ![s] = k]
        /\ UNCHANGED <<state, outbox, contents>>
  /\ UNCHANGED <<edition, due, attribution, sent, todo, sending, feedVars,
                 approvalVars, callVars, fills, failures>>

\* An error ends the process with what it had in memory.
ScannerExits(s) ==
  /\ Goto(s, "down")
  /\ skey' = [skey EXCEPT ![s] = NoKey]
  /\ todo' = [todo EXCEPT ![s] = {}]
  /\ sending' = [sending EXCEPT ![s] = NoChain]

\* Mutant: contents are updated until the chain is closed.
MayRefreshOpen(c) == TRUE

\* matches!(state, "detected" | "scored")
MayRefresh(c) == state[c] = "scored"

\* ... then the open chain is locked and its contents, which are new or the
\* same, and expiry updated until it is surfaced.  A chain closed since is
\* MissingOpenChain.
Refresh(s) ==
  /\ spc[s] = "refresh"
  /\ \/ /\ Open(skey[s]) = {}
        /\ ScannerExits(s)
        /\ UNCHANGED <<edition, due, contents>>
     \/ /\ \E c \in Open(skey[s]) :
             IF MayRefresh(c)
             THEN /\ \/ /\ contents < MaxContents
                        /\ contents' = contents + 1
                        /\ edition' = [edition EXCEPT ![c] = @ + 1]
                     \/ UNCHANGED <<edition, contents>>
                  /\ due' = due \ {c}
             ELSE UNCHANGED <<edition, due, contents>>
        /\ Goto(s, "scan")
        /\ skey' = [skey EXCEPT ![s] = NoKey]
        /\ UNCHANGED <<todo, sending>>
  /\ UNCHANGED <<state, attribution, outboxVars, feedVars, approvalVars,
                 callVars, fills, failures>>

\* flush_detection_outbox reads the pending rows ...
Flush(s) ==
  /\ spc[s] = "scan"
  /\ todo' = [todo EXCEPT ![s] = {c \in Chains : outbox[c] = "pending"}]
  /\ Goto(s, "send")
  /\ UNCHANGED <<rowVars, outboxVars, skey, sending, feedVars, approvalVars,
                 callVars, fills, counters>>

\* ... publishes each, in any order as chains are independent ...
Send(s) ==
  /\ spc[s] = "send"
  /\ \E c \in todo[s] :
       /\ sent' = sent \cup {c}
       /\ todo' = [todo EXCEPT ![s] = @ \ {c}]
       /\ sending' = [sending EXCEPT ![s] = c]
  /\ Goto(s, "mark")
  /\ UNCHANGED <<rowVars, outbox, skey, feedVars, approvalVars, callVars,
                 fills, counters>>

\* ... and marks it.
Mark(s) ==
  /\ spc[s] = "mark"
  /\ outbox' = [outbox EXCEPT ![sending[s]] = "published"]
  /\ sending' = [sending EXCEPT ![s] = NoChain]
  /\ Goto(s, "send")
  /\ UNCHANGED <<rowVars, sent, skey, todo, feedVars, approvalVars, callVars,
                 fills, counters>>

FlushEnds(s) ==
  /\ spc[s] = "send"
  /\ todo[s] = {}
  /\ Goto(s, "sweep")
  /\ UNCHANGED <<rowVars, outboxVars, skey, todo, sending, feedVars,
                 approvalVars, callVars, fills, counters>>

\* Mutant: nothing is ever overdue.
OverdueNever == {}

\* The rows that expire_due selects.
Overdue == {c \in due : state[c] = "scored"}

\* Where the events expired and closed leave the row.
SweptTo == "closed"

\* expire_due: expired, attributed and closed in one transaction.
Sweep(s) ==
  /\ spc[s] = "sweep"
  /\ state' = [c \in Chains |-> IF c \in Overdue THEN SweptTo ELSE state[c]]
  /\ attribution' = [c \in Chains |->
       IF c \in Overdue THEN "expired_pre_surface" ELSE attribution[c]]
  /\ due' = due \ Overdue
  /\ Goto(s, "scan")
  /\ UNCHANGED <<edition, outboxVars, skey, todo, sending, feedVars,
                 approvalVars, callVars, fills, counters>>

ScannerFails(s) ==
  /\ spc[s] # "down"
  /\ failures < MaxFailures
  /\ failures' = failures + 1
  /\ ScannerExits(s)
  /\ UNCHANGED <<rowVars, outboxVars, feedVars, approvalVars, callVars, fills,
                 contents>>

ScannerRestarts(s) ==
  /\ spc[s] = "down"
  /\ Goto(s, "scan")
  /\ UNCHANGED <<rowVars, outboxVars, skey, todo, sending, feedVars,
                 approvalVars, callVars, fills, counters>>

\* expires_ts passes; only chains the scanner may still expire matter.
Deadline(c) ==
  /\ state[c] = "scored"
  /\ c \notin due
  /\ due' = due \cup {c}
  /\ UNCHANGED <<state, edition, attribution, outboxVars, scannerVars,
                 feedVars, approvalVars, callVars, fills, counters>>

-----------------------------------------------------------------------------
(* gateway *)

\* Mutant: a stale delivery is broadcast like a fresh one.
MaySurfaceStale(c) == state[c] # "none"

\* A delivery of a chain that went on is dropped.
MaySurface(c) == state[c] \in {"scored", "surfaced"}

\* surface_opportunity, for a first or a repeated delivery; the frame finds
\* a receiver or not.
Surface(c) ==
  /\ feed = "on"
  /\ c \in sent
  /\ MaySurface(c)
  /\ state' = [state EXCEPT ![c] = IF @ = "scored" THEN "surfaced" ELSE @]
  /\ due' = due \ {c}
  /\ shown' \in {shown, shown \cup {c}}
  /\ UNCHANGED <<edition, attribution, outboxVars, scannerVars, feed,
                 approvalVars, callVars, fills, counters>>

\* An error ends the consumer task; the process goes on without it.
FeedStops ==
  /\ feed = "on"
  /\ failures < MaxFailures
  /\ failures' = failures + 1
  /\ feed' = "off"
  /\ UNCHANGED <<rowVars, outboxVars, scannerVars, shown, approvalVars,
                 callVars, fills, contents>>

-----------------------------------------------------------------------------
(* alerts: approvals *)

Pending(c) == {a \in Approvals : about[a] = c /\ approval[a] = "pending"}

\* create(): references that lapsed unanswered expire; another one that is
\* pending for the action is DuplicateApproval (idx_approval_one_pending).
\* Approvals has no more members than an hour allows an actor.
RequestApproval(a, c) ==
  /\ approval[a] = "none"
  /\ state[c] # "none"
  /\ Pending(c) \subseteq lapsed
  /\ approval' = [b \in Approvals |->
       IF b = a THEN "pending"
       ELSE IF b \in Pending(c) THEN "expired" ELSE approval[b]]
  /\ about' = [about EXCEPT ![a] = c]
  /\ notifying' = notifying \cup {a}
  /\ UNCHANGED <<rowVars, outboxVars, scannerVars, feedVars, lapsed, cpc, next,
                 snapshot, fills, counters>>

Lapse(a) ==
  /\ approval[a] \in {"pending", "approved"}
  /\ a \notin lapsed
  /\ lapsed' = lapsed \cup {a}
  /\ UNCHANGED <<rowVars, outboxVars, scannerVars, feedVars, approval,
                 notifying, callVars, fills, counters>>

\* Mutant: any reference that was issued can be answered.
MayAnswerIssued(a) == approval[a] # "none"

\* consume() under the row lock.  A denied attempt raises inside the
\* transaction, which undoes all it wrote.
MayAnswer(a) == approval[a] = "pending" /\ a \notin lapsed

Reject(a) ==
  /\ MayAnswer(a)
  /\ approval' = [approval EXCEPT ![a] = "rejected"]
  /\ UNCHANGED <<rowVars, outboxVars, scannerVars, feedVars, lapsed, notifying,
                 callVars, fills, counters>>

\* respond() consumes the reference and calls the action service.
Approve(a) ==
  /\ MayAnswer(a)
  /\ approval' = [approval EXCEPT ![a] = "approved"]
  /\ cpc' = [cpc EXCEPT ![a] = "begin"]
  /\ notifying' = notifying \cup {a}
  /\ UNCHANGED <<rowVars, outboxVars, scannerVars, feedVars, lapsed, about,
                 next, snapshot, fills, counters>>

\* The prompt was sent, or the effect was confirmed.
Notified(a) ==
  /\ a \in notifying
  /\ cpc[a] \in {"idle", "done"}
  /\ notifying' = notifying \ {a}
  /\ UNCHANGED <<rowVars, outboxVars, scannerVars, feedVars, approval, lapsed,
                 callVars, fills, counters>>

\* mark_failed(): the prompt could not be sent, or the effect failed or did
\* not answer within 15 s, while the call itself goes on.
MarkFailed(a) ==
  /\ a \in notifying
  /\ notifying' = notifying \ {a}
  /\ approval' = [approval EXCEPT ![a] =
       IF @ \in {"pending", "approved"} THEN "failed" ELSE @]
  /\ UNCHANGED <<rowVars, outboxVars, scannerVars, feedVars, lapsed, callVars,
                 fills, counters>>

-----------------------------------------------------------------------------
(* actions *)

\* "only a surfaced opportunity can be ignored"
MayIgnore(c) == state[c] = "surfaced"

\* ignore(): ignored, attributed and closed in one transaction.
Ignore(c) ==
  /\ MayIgnore(c)
  /\ state' = [state EXCEPT ![c] = "closed"]
  /\ attribution' = [attribution EXCEPT ![c] = "ignored"]
  /\ UNCHANGED <<edition, due, outboxVars, scannerVars, feedVars, approvalVars,
                 callVars, fills, counters>>

CallDirectly(x, c) ==
  /\ cpc[x] = "idle"
  /\ state[c] # "none"
  /\ cpc' = [cpc EXCEPT ![x] = "begin"]
  /\ about' = [about EXCEPT ![x] = c]
  /\ UNCHANGED <<rowVars, outboxVars, scannerVars, feedVars, approvalVars,
                 next, snapshot, fills, counters>>

\* A tier 5 actor needs no approval, any other a consumed, current one.
Permitted ==
  Direct \cup {a \in Approvals : approval[a] = "approved" /\ a \notin lapsed}

\* The event surfaced -> accepted, unless an earlier call appended it.
Accepted(s) == IF s = "surfaced" THEN "accepted" ELSE s

\* The first transaction of execute_paper reads grant and approval ...
Check(x) ==
  /\ cpc[x] = "begin"
  /\ x \in Permitted
  /\ cpc' = [cpc EXCEPT ![x] = "lock"]
  /\ UNCHANGED <<rowVars, outboxVars, scannerVars, feedVars, approvalVars,
                 about, next, snapshot, fills, counters>>

\* ... then locks the opportunity, reads its legs and accepts it.
BeginCall(x) ==
  LET c == about[x] IN
  /\ cpc[x] = "lock"
  /\ state[c] \in {"surfaced", "accepted", "executed"}
  /\ state' = [state EXCEPT ![c] = Accepted(@)]
  /\ cpc' = [cpc EXCEPT ![x] = "leg"]
  /\ next' = [next EXCEPT ![x] = 1]
  /\ snapshot' = [snapshot EXCEPT ![x] = edition[c]]
  /\ UNCHANGED <<edition, due, attribution, outboxVars, scannerVars, feedVars,
                 approvalVars, about, fills, counters>>

\* execute-paper starts and checks grant and approval again.
StartLeg(x) ==
  /\ cpc[x] = "leg"
  /\ x \in Permitted
  /\ cpc' = [cpc EXCEPT ![x] = "run"]
  /\ UNCHANGED <<rowVars, outboxVars, scannerVars, feedVars, approvalVars,
                 about, next, snapshot, fills, counters>>

\* for request in requests
AfterLeg(x) == IF next[x] + 1 \in Legs THEN "leg" ELSE "end"

\* The execution becomes durable, or is found to be already with the same
\* legs; with other legs the intent id collides and execute-paper refuses.
RunLeg(x) ==
  LET c == about[x]
      l == next[x]
  IN
  /\ cpc[x] = "run"
  /\ fills[c][l] \in {0, snapshot[x] + 1}
  /\ fills' = [fills EXCEPT ![c][l] = snapshot[x] + 1]
  /\ cpc' = [cpc EXCEPT ![x] = AfterLeg(x)]
  /\ next' = [next EXCEPT ![x] = @ + 1]
  /\ UNCHANGED <<rowVars, outboxVars, scannerVars, feedVars, approvalVars,
                 about, snapshot, counters>>

\* The second transaction of execute_paper.
EndCall(x) ==
  LET c == about[x] IN
  /\ cpc[x] = "end"
  /\ state[c] \in {"accepted", "executed"}
  /\ state' = [state EXCEPT ![c] = "executed"]
  /\ cpc' = [cpc EXCEPT ![x] = "done"]
  /\ UNCHANGED <<edition, due, attribution, outboxVars, scannerVars, feedVars,
                 approvalVars, about, next, snapshot, fills, counters>>

\* A check refuses the call, the router rejects the leg, the executor runs
\* into its 20 s (after or before the leg is durable) or the service dies.
CallFails(x) ==
  /\ cpc[x] \in {"begin", "lock", "leg", "run", "end"}
  /\ cpc' = [cpc EXCEPT ![x] = "failed"]
  /\ UNCHANGED <<rowVars, outboxVars, scannerVars, feedVars, approvalVars,
                 about, next, snapshot, fills, counters>>

-----------------------------------------------------------------------------
ScannerStep(s) ==
  \/ Refresh(s) \/ Flush(s) \/ Send(s) \/ Mark(s) \/ FlushEnds(s) \/ Sweep(s)
  \/ ScannerRestarts(s)

ApprovalStep(a) ==
  \/ Lapse(a) \/ Reject(a) \/ Approve(a) \/ Notified(a) \/ MarkFailed(a)

CallStep(x) == Check(x) \/ BeginCall(x) \/ StartLeg(x) \/ RunLeg(x) \/ EndCall(x)

Next ==
  \/ \E s \in Scanners, k \in Keys : Detect(s, k)
  \/ \E s \in Scanners : ScannerStep(s) \/ ScannerFails(s)
  \/ \E c \in Chains : Deadline(c) \/ Surface(c) \/ Ignore(c)
  \/ FeedStops
  \/ \E a \in Approvals, c \in Chains : RequestApproval(a, c)
  \/ \E a \in Approvals : ApprovalStep(a)
  \/ \E x \in Direct, c \in Chains : CallDirectly(x, c)
  \/ \E x \in Calls : CallStep(x) \/ CallFails(x)

Spec == Init /\ [][Next]_vars

\* Scanners cycle and are restarted, and deadlines pass.  A cycle detects each
\* of its finitely many pairs once, then it flushes and sweeps.
Fairness ==
  /\ \A s \in Scanners : WF_vars(ScannerStep(s)) /\ SF_vars(Flush(s))
  /\ \A c \in Chains : WF_vars(Deadline(c))

FairSpec == Spec /\ Fairness

\* A running consumer delivers as well, and a call that began goes on or
\* fails.  Nobody has to look at an opportunity, ask for an approval or
\* answer one.
BusySpec ==
  /\ FairSpec
  /\ \A c \in Chains : WF_vars(Surface(c))
  /\ \A x \in Calls : WF_vars(CallStep(x) \/ CallFails(x))

-----------------------------------------------------------------------------
TypeOK ==
  /\ state \in [Chains -> States]
  /\ edition \in [Chains -> Nat]
  /\ due \subseteq Chains
  /\ attribution \in [Chains -> Outcomes]
  /\ outbox \in [Chains -> {"none", "pending", "published"}]
  /\ sent \subseteq Chains
  /\ spc \in [Scanners -> ScannerStages]
  /\ skey \in [Scanners -> Keys \cup {NoKey}]
  /\ todo \in [Scanners -> SUBSET Chains]
  /\ sending \in [Scanners -> Chains \cup {NoChain}]
  /\ feed \in {"on", "off"}
  /\ shown \subseteq Chains
  /\ approval \in [Approvals -> ApprovalStates]
  /\ lapsed \subseteq Approvals
  /\ notifying \subseteq Approvals
  /\ cpc \in [Calls -> CallStages]
  /\ about \in [Calls -> Chains \cup {NoChain}]
  /\ next \in [Calls -> Nat]
  /\ snapshot \in [Calls -> Nat]
  /\ fills \in [Chains -> [Legs -> Nat]]
  /\ contents \in 0..MaxContents
  /\ failures \in 0..MaxFailures

Live(c) == state[c] \notin {"none", "closed"}

\* A redetection of the same legs and kind starts a new chain only after the
\* old one closed, whoever closes it between the insert that did nothing and
\* the refresh that follows it.
OneOpenChain ==
  \A c, d \in {e \in Chains : Live(e)} : KeyOf[c] = KeyOf[d] => c = d

Traded(c) == \E l \in Legs : fills[c][l] # 0

\* How a chain ended is what happened to it, whatever raced: a closed chain
\* has its attribution and no other has one, no leg of a chain that was
\* ignored or that expired is ever executed, and one that expired unseen was
\* never shown, not even by a delivery that came late.
OutcomesAgree ==
  \A c \in Chains :
    /\ attribution[c] # "none" <=> state[c] = "closed"
    /\ Traded(c) => state[c] \in {"accepted", "executed"}
    /\ attribution[c] = "expired_pre_surface" => c \notin shown

\* An executed chain has every leg, and all its legs, executed by calls that
\* failed halfway and were tried again by others, come from the contents the
\* chain had when it was surfaced.
ExecutionExact ==
  \A c \in Chains :
    /\ state[c] = "executed" => \A l \in Legs : fills[c][l] # 0
    /\ \A l \in Legs : fills[c][l] \in {0, edition[c] + 1}

\* A reference is answered once: one that was rejected, expired or failed
\* never changes again, so that it can never permit a call.
ApprovalsFinal ==
  [][\A a \in Approvals :
       approval[a] \in {"rejected", "expired", "failed"} =>
         approval'[a] = approval[a]]_vars

\* The scanner finds the opportunity of an open chain again.
FoundAgain(c) == \E s \in Scanners : Refresh(s) /\ c \in Open(skey[s])

\* The detections are published although scanners fail between commit, send
\* and mark, and a scored chain that is not found again for ever is eventually
\* surfaced or expires, also when the gateway's consumer has stopped.
DetectionsSettle ==
  /\ []<>(\A c \in Chains : outbox[c] # "pending")
  /\ \A c \in Chains :
       <>[][~FoundAgain(c)]_vars =>
         []<>(state[c] # "scored")

\* SPEC-012: "every non-closed state carries a TTL ... and a global sweep
\* expires anything overdue".
EveryChainCloses == \A c \in Chains : state[c] # "none" ~> state[c] = "closed"

-----------------------------------------------------------------------------
(* Instances for TLC *)

\* All detections are of the same legs and kind.
SameKey == [c \in Chains |-> CHOOSE k \in Keys : TRUE]

-----------------------------------------------------------------------------
(* Theorems, for any number of scanners, chains and calls, any keys and    *)
(* legs and any bounds.                                                    *)

-----------------------------------------------------------------------------
(* types *)

\* What a call works on: a reference is about a chain since it was issued, it
\* is only called with after it was answered, and a call that executes legs
\* stands at one of them.
CallsOK ==
  /\ \A x \in Calls : cpc[x] # "idle" => about[x] \in Chains
  /\ \A a \in Approvals :
       /\ approval[a] # "none" => about[a] \in Chains
       /\ approval[a] \in {"none", "pending"} => cpc[a] = "idle"
  /\ \A x \in Calls : cpc[x] \in {"leg", "run"} => next[x] \in Legs

TypeInv == TypeOK /\ CallsOK

\* There are no chains, references or calls at the start.
LEMMA TypeInit == Init => TypeInv
<1> SUFFICES ASSUME Init PROVE TypeInv
  OBVIOUS
<1> USE LifecycleAssumption DEF Init
<1>1. TypeOK
  BY DEF TypeOK, States, Outcomes, ScannerStages, ApprovalStates, CallStages
<1>2. CallsOK
  BY DEF CallsOK, Calls
<1> QED  BY <1>1, <1>2 DEF TypeInv

\* Every step of a component keeps the types.
LEMMA TypeNext == TypeInv /\ [Next]_vars => TypeInv'
<1> SUFFICES ASSUME TypeInv, [Next]_vars PROVE TypeInv'
  OBVIOUS
<1> USE LifecycleAssumption
    DEF TypeInv, TypeOK, CallsOK, States, Outcomes, ScannerStages,
        ApprovalStates, CallStages, rowVars, outboxVars, scannerVars,
        feedVars, approvalVars, callVars, counters, Goto, ScannerExits
<1>1. ASSUME NEW s \in Scanners, NEW k \in Keys, Detect(s, k) PROVE TypeInv'
  <2>1. contents' \in 0..MaxContents
    BY <1>1 DEF Detect
  <2>2. CASE Open(k) = {}
    <3>1. PICK c \in Chains :
            /\ state' = [state EXCEPT ![c] = "scored"]
            /\ outbox' = [outbox EXCEPT ![c] = "pending"]
      BY <1>1, <2>2 DEF Detect
    <3>2. /\ state' \in [Chains -> States]
          /\ outbox' \in [Chains -> {"none", "pending", "published"}]
      BY <3>1
    <3> QED  BY <1>1, <2>1, <2>2, <3>2 DEF Detect
  <2>3. CASE Open(k) # {}
    <3>1. /\ spc' = [spc EXCEPT ![s] = "refresh"]
          /\ skey' = [skey EXCEPT ![s] = k]
          /\ UNCHANGED <<state, outbox>>
      BY <1>1, <2>3 DEF Detect
    <3>2. /\ spc' \in [Scanners -> ScannerStages]
          /\ skey' \in [Scanners -> Keys \cup {NoKey}]
      BY <3>1
    <3> QED  BY <1>1, <2>1, <3>1, <3>2 DEF Detect
  <2> QED  BY <2>2, <2>3
<1>2. ASSUME NEW s \in Scanners, Refresh(s) PROVE TypeInv'
  <2>1. /\ edition' \in [Chains -> Nat] /\ due' \subseteq Chains
        /\ contents' \in 0..MaxContents
    <3>1. CASE UNCHANGED <<edition, due, contents>>
      BY <3>1
    <3>2. ASSUME NEW c \in Chains, due' = due \ {c},
                 \/ /\ contents < MaxContents
                    /\ contents' = contents + 1
                    /\ edition' = [edition EXCEPT ![c] = @ + 1]
                 \/ UNCHANGED <<edition, contents>>
          PROVE  /\ edition' \in [Chains -> Nat] /\ due' \subseteq Chains
                 /\ contents' \in 0..MaxContents
      BY <3>2
    <3> QED  BY <1>2, <3>1, <3>2 DEF Refresh, Open
  <2>2. CASE ScannerExits(s)
    BY <1>2, <2>1, <2>2 DEF Refresh
  <2>3. CASE /\ Goto(s, "scan")
             /\ skey' = [skey EXCEPT ![s] = NoKey]
             /\ UNCHANGED <<todo, sending>>
    BY <1>2, <2>1, <2>3 DEF Refresh
  <2> QED  BY <1>2, <2>2, <2>3 DEF Refresh
<1>3. ASSUME NEW s \in Scanners, Flush(s) PROVE TypeInv'
  BY <1>3 DEF Flush
<1>4. ASSUME NEW s \in Scanners, Send(s) PROVE TypeInv'
  BY <1>4 DEF Send
<1>5. ASSUME NEW s \in Scanners, Mark(s) PROVE TypeInv'
  BY <1>5 DEF Mark
<1>6. ASSUME NEW s \in Scanners, FlushEnds(s) PROVE TypeInv'
  BY <1>6 DEF FlushEnds
<1>7. ASSUME NEW s \in Scanners, Sweep(s) PROVE TypeInv'
  BY <1>7 DEF Sweep, SweptTo, Overdue
<1>8. ASSUME NEW s \in Scanners, ScannerRestarts(s) PROVE TypeInv'
  BY <1>8 DEF ScannerRestarts
<1>9. ASSUME NEW s \in Scanners, ScannerFails(s) PROVE TypeInv'
  BY <1>9 DEF ScannerFails
<1>10. ASSUME NEW c \in Chains, Deadline(c) PROVE TypeInv'
  BY <1>10 DEF Deadline
<1>11. ASSUME NEW c \in Chains, Surface(c) PROVE TypeInv'
  BY <1>11 DEF Surface
<1>12. ASSUME NEW c \in Chains, Ignore(c) PROVE TypeInv'
  BY <1>12 DEF Ignore
<1>13. CASE FeedStops
  BY <1>13 DEF FeedStops
<1>14. ASSUME NEW a \in Approvals, NEW c \in Chains, RequestApproval(a, c)
       PROVE  TypeInv'
  <2>1. /\ about' \in [Calls -> Chains \cup {NoChain}]
        /\ notifying' \subseteq Approvals
        /\ a \in Calls
    BY <1>14 DEF RequestApproval, Calls
  <2>2. approval' \in [Approvals -> ApprovalStates]
    BY <1>14 DEF RequestApproval
  <2>3. cpc[a] = "idle"
    BY <1>14 DEF RequestApproval
  <2>4. CallsOK'
    BY <1>14, <2>1, <2>3 DEF RequestApproval, Pending
  <2> QED  BY <1>14, <2>1, <2>2, <2>4 DEF RequestApproval
<1>15. ASSUME NEW a \in Approvals, Lapse(a) PROVE TypeInv'
  BY <1>15 DEF Lapse
<1>16. ASSUME NEW a \in Approvals, Reject(a) PROVE TypeInv'
  BY <1>16 DEF Reject, MayAnswer
<1>17. ASSUME NEW a \in Approvals, Approve(a) PROVE TypeInv'
  BY <1>17 DEF Approve, MayAnswer, Calls
<1>18. ASSUME NEW a \in Approvals, Notified(a) PROVE TypeInv'
  BY <1>18 DEF Notified
<1>19. ASSUME NEW a \in Approvals, MarkFailed(a) PROVE TypeInv'
  BY <1>19 DEF MarkFailed
<1>20. ASSUME NEW x \in Direct, NEW c \in Chains, CallDirectly(x, c)
       PROVE  TypeInv'
  BY <1>20 DEF CallDirectly, Calls
<1>21. ASSUME NEW x \in Calls, Check(x) PROVE TypeInv'
  BY <1>21 DEF Check
<1>22. ASSUME NEW x \in Calls, BeginCall(x) PROVE TypeInv'
  <2>1. /\ about[x] \in Chains
        /\ state[about[x]] \in {"surfaced", "accepted", "executed"}
    BY <1>22 DEF BeginCall
  <2>2. state' = [state EXCEPT ![about[x]] = Accepted(@)]
    BY <1>22 DEF BeginCall
  <2>3. Accepted(state[about[x]]) \in States
    BY <2>1 DEF Accepted
  <2>4. state' \in [Chains -> States]
    BY <2>1, <2>2, <2>3
  <2>5. next' \in [Calls -> Nat] /\ 1 \in Legs
    BY <1>22 DEF BeginCall, Legs
  <2>6. snapshot' \in [Calls -> Nat]
    BY <1>22, <2>1 DEF BeginCall
  <2> QED  BY <1>22, <2>4, <2>5, <2>6 DEF BeginCall
<1>23. ASSUME NEW x \in Calls, StartLeg(x) PROVE TypeInv'
  BY <1>23 DEF StartLeg
<1>24. ASSUME NEW x \in Calls, RunLeg(x) PROVE TypeInv'
  BY <1>24 DEF RunLeg, AfterLeg, Legs
<1>25. ASSUME NEW x \in Calls, EndCall(x) PROVE TypeInv'
  BY <1>25 DEF EndCall
<1>26. ASSUME NEW x \in Calls, CallFails(x) PROVE TypeInv'
  BY <1>26 DEF CallFails
<1>27. CASE UNCHANGED vars
  BY <1>27 DEF vars
<1> QED
  BY <1>1, <1>2, <1>3, <1>4, <1>5, <1>6, <1>7, <1>8, <1>9, <1>10, <1>11,
       <1>12, <1>13, <1>14, <1>15, <1>16, <1>17, <1>18, <1>19, <1>20, <1>21,
       <1>22, <1>23, <1>24, <1>25, <1>26, <1>27 DEF Next, ScannerStep, ApprovalStep,
       CallStep

\* TypeOK holds in every reachable state.
THEOREM LifecycleTypes == Spec => []TypeOK
<1>1. TypeInv => TypeOK
  BY DEF TypeInv
<1> QED  BY <1>1, TypeInit, TypeNext, PTL DEF Spec

-----------------------------------------------------------------------------
(* open chains *)

\* A chain only opens by a detection that found no open chain of its key.
OpensAlone ==
  \A c \in Chains : Live(c)' =>
    \/ Live(c)
    \/ \A d \in Chains \ {c} :
         /\ Live(d)' => Live(d)
         /\ Live(d) => KeyOf[d] # KeyOf[c]

LEMMA OpenNext == TypeInv /\ [Next]_vars => OpensAlone
<1> SUFFICES ASSUME TypeInv, [Next]_vars PROVE OpensAlone
  OBVIOUS
<1>0. /\ state \in [Chains -> States]
      /\ \A x \in Calls : cpc[x] # "idle" => about[x] \in Chains
  BY DEF TypeInv, TypeOK, CallsOK
<1> USE <1>0 DEF OpensAlone, Live, rowVars, outboxVars, scannerVars, feedVars,
        approvalVars, callVars, counters
<1>1. ASSUME NEW s \in Scanners, NEW k \in Keys, Detect(s, k) PROVE OpensAlone
  BY <1>1 DEF Detect, Open
<1>2. ASSUME NEW s \in Scanners, Sweep(s) PROVE OpensAlone
  BY <1>2 DEF Sweep, SweptTo, Overdue
<1>3. ASSUME NEW c \in Chains, Surface(c) PROVE OpensAlone
  BY <1>3 DEF Surface, MaySurface
<1>4. ASSUME NEW c \in Chains, Ignore(c) PROVE OpensAlone
  BY <1>4 DEF Ignore, MayIgnore
<1>5. ASSUME NEW x \in Calls, BeginCall(x) PROVE OpensAlone
  BY <1>5 DEF BeginCall, Accepted
<1>6. ASSUME NEW x \in Calls, EndCall(x) PROVE OpensAlone
  BY <1>6 DEF EndCall
<1>7. ASSUME NEW s \in Scanners,
             Refresh(s) \/ Flush(s) \/ Send(s) \/ Mark(s) \/ FlushEnds(s) \/
             ScannerRestarts(s) \/ ScannerFails(s)
      PROVE  OpensAlone
  BY <1>7 DEF Refresh, Flush, Send, Mark, FlushEnds, ScannerRestarts,
       ScannerFails
<1>8. ASSUME NEW c \in Chains, Deadline(c)
      PROVE  OpensAlone
  BY <1>8 DEF Deadline
<1>9. ASSUME NEW a \in Approvals, NEW c \in Chains, RequestApproval(a, c)
      PROVE  OpensAlone
  BY <1>9 DEF RequestApproval
<1>10. ASSUME NEW a \in Approvals,
              Lapse(a) \/ Reject(a) \/ Approve(a) \/ Notified(a) \/
              MarkFailed(a)
       PROVE  OpensAlone
  BY <1>10 DEF Lapse, Reject, Approve, Notified, MarkFailed
<1>11. ASSUME NEW x \in Direct, NEW c \in Chains, CallDirectly(x, c)
       PROVE  OpensAlone
  BY <1>11 DEF CallDirectly
<1>12. ASSUME NEW x \in Calls,
              Check(x) \/ StartLeg(x) \/ RunLeg(x) \/ CallFails(x)
       PROVE  OpensAlone
  BY <1>12 DEF Check, StartLeg, RunLeg, CallFails
<1>13. CASE FeedStops
  BY <1>13 DEF FeedStops
<1>14. CASE UNCHANGED vars
  BY <1>14 DEF vars
<1> QED
  BY <1>1, <1>2, <1>3, <1>4, <1>5, <1>6, <1>7, <1>8, <1>9, <1>10, <1>11,
       <1>12, <1>13, <1>14 DEF Next, ScannerStep, ApprovalStep, CallStep

\* OneOpenChain holds in every reachable state: detections, redetections,
\* sweeps and humans in any order leave at most one open chain per key.
THEOREM ChainsAreUnique == Spec => []OneOpenChain
<1>1. Init => OneOpenChain
  BY DEF Init, OneOpenChain, Live
<1>2. TypeInv /\ OneOpenChain /\ [Next]_vars => OneOpenChain'
  BY OpenNext DEF OpensAlone, OneOpenChain
<1> QED  BY <1>1, <1>2, TypeInit, TypeNext, PTL DEF Spec

-----------------------------------------------------------------------------
(* outcomes and executions *)

\* A chain that a human was shown is past the scanner's reach.
ShownSurfaced == \A c \in shown : state[c] \notin {"none", "scored"}

\* A call that executes legs works on an accepted chain with the legs that
\* it still has, and has executed those before the one it stands at.
CallsAccepted ==
  \A x \in Calls : cpc[x] \in {"leg", "run", "end"} =>
    /\ state[about[x]] \in {"accepted", "executed"}
    /\ snapshot[x] = edition[about[x]]
    /\ \A l \in Legs : l < next[x] \/ cpc[x] = "end" => fills[about[x]][l] # 0

LifeInv ==
  /\ ShownSurfaced
  /\ CallsAccepted
  /\ OutcomesAgree
  /\ ExecutionExact

\* Nothing is shown, called or executed at the start.
LEMMA LifeInit == Init => LifeInv
<1> SUFFICES ASSUME Init PROVE LifeInv
  OBVIOUS
<1>1. ShownSurfaced /\ CallsAccepted
  BY DEF Init, ShownSurfaced, CallsAccepted
<1>2. OutcomesAgree
  BY DEF Init, OutcomesAgree, Traded
<1>3. ExecutionExact
  BY DEF Init, ExecutionExact
<1> QED  BY <1>1, <1>2, <1>3 DEF LifeInv

\* A chain that is surfaced never becomes a scored one again.
LEMMA ShownNext == TypeInv /\ ShownSurfaced /\ [Next]_vars => ShownSurfaced'
<1> SUFFICES ASSUME TypeInv, ShownSurfaced, [Next]_vars PROVE ShownSurfaced'
  OBVIOUS
<1>0. /\ state \in [Chains -> States]
      /\ shown \subseteq Chains
      /\ \A x \in Calls : cpc[x] # "idle" => about[x] \in Chains
  BY DEF TypeInv, TypeOK, CallsOK
<1> USE <1>0 DEF ShownSurfaced, rowVars, outboxVars, scannerVars, feedVars,
        approvalVars, callVars, counters
<1>1. ASSUME NEW s \in Scanners, NEW k \in Keys, Detect(s, k)
      PROVE  ShownSurfaced'
  BY <1>1 DEF Detect, Open
<1>2. ASSUME NEW s \in Scanners, Sweep(s) PROVE ShownSurfaced'
  BY <1>2 DEF Sweep, SweptTo, Overdue
<1>3. ASSUME NEW c \in Chains, Surface(c) PROVE ShownSurfaced'
  BY <1>3 DEF Surface, MaySurface
<1>4. ASSUME NEW c \in Chains, Ignore(c) PROVE ShownSurfaced'
  BY <1>4 DEF Ignore, MayIgnore
<1>5. ASSUME NEW x \in Calls, BeginCall(x) PROVE ShownSurfaced'
  BY <1>5 DEF BeginCall, Accepted
<1>6. ASSUME NEW x \in Calls, EndCall(x) PROVE ShownSurfaced'
  BY <1>6 DEF EndCall
<1>7. ASSUME NEW s \in Scanners,
             Refresh(s) \/ Flush(s) \/ Send(s) \/ Mark(s) \/ FlushEnds(s) \/
             ScannerRestarts(s) \/ ScannerFails(s)
      PROVE  ShownSurfaced'
  BY <1>7 DEF Refresh, Flush, Send, Mark, FlushEnds, ScannerRestarts,
       ScannerFails
<1>8. ASSUME NEW c \in Chains, Deadline(c)
      PROVE  ShownSurfaced'
  BY <1>8 DEF Deadline
<1>9. ASSUME NEW a \in Approvals, NEW c \in Chains, RequestApproval(a, c)
      PROVE  ShownSurfaced'
  BY <1>9 DEF RequestApproval
<1>10. ASSUME NEW a \in Approvals,
              Lapse(a) \/ Reject(a) \/ Approve(a) \/ Notified(a) \/
              MarkFailed(a)
       PROVE  ShownSurfaced'
  BY <1>10 DEF Lapse, Reject, Approve, Notified, MarkFailed
<1>11. ASSUME NEW x \in Direct, NEW c \in Chains, CallDirectly(x, c)
       PROVE  ShownSurfaced'
  BY <1>11 DEF CallDirectly
<1>12. ASSUME NEW x \in Calls,
              Check(x) \/ StartLeg(x) \/ RunLeg(x) \/ CallFails(x)
       PROVE  ShownSurfaced'
  BY <1>12 DEF Check, StartLeg, RunLeg, CallFails
<1>13. CASE FeedStops
  BY <1>13 DEF FeedStops
<1>14. CASE UNCHANGED vars
  BY <1>14 DEF vars
<1> QED
  BY <1>1, <1>2, <1>3, <1>4, <1>5, <1>6, <1>7, <1>8, <1>9, <1>10, <1>11,
       <1>12, <1>13, <1>14 DEF Next, ScannerStep, ApprovalStep, CallStep

\* Whatever happens around a call, the chain it works on stays accepted and
\* its contents stay what the call read.
LEMMA CallsNext ==
  TypeInv /\ CallsAccepted /\ [Next]_vars => CallsAccepted'
<1> SUFFICES ASSUME TypeInv, CallsAccepted, [Next]_vars PROVE CallsAccepted'
  OBVIOUS
<1>0. /\ state \in [Chains -> States]
      /\ edition \in [Chains -> Nat]
      /\ fills \in [Chains -> [Legs -> Nat]]
      /\ cpc \in [Calls -> CallStages]
      /\ about \in [Calls -> Chains \cup {NoChain}]
      /\ next \in [Calls -> Nat]
      /\ snapshot \in [Calls -> Nat]
      /\ \A x \in Calls : cpc[x] # "idle" => about[x] \in Chains
      /\ \A x \in Calls : cpc[x] \in {"leg", "run"} => next[x] \in Legs
      /\ \A a \in Approvals :
           approval[a] \in {"none", "pending"} => cpc[a] = "idle"
  BY DEF TypeInv, TypeOK, CallsOK
<1> USE <1>0 DEF CallsAccepted, rowVars, outboxVars, scannerVars, feedVars,
        approvalVars, callVars, counters
<1>1. ASSUME NEW s \in Scanners, NEW k \in Keys, Detect(s, k)
      PROVE  CallsAccepted'
  BY <1>1 DEF Detect, Open
<1>2. ASSUME NEW s \in Scanners, Refresh(s) PROVE CallsAccepted'
  BY <1>2 DEF Refresh, MayRefresh, Open
<1>3. ASSUME NEW s \in Scanners, Sweep(s) PROVE CallsAccepted'
  BY <1>3 DEF Sweep, SweptTo, Overdue
<1>4. ASSUME NEW c \in Chains, Surface(c) PROVE CallsAccepted'
  BY <1>4 DEF Surface, MaySurface
<1>5. ASSUME NEW c \in Chains, Ignore(c) PROVE CallsAccepted'
  BY <1>5 DEF Ignore, MayIgnore
<1>6. ASSUME NEW a \in Approvals, NEW c \in Chains, RequestApproval(a, c)
      PROVE  CallsAccepted'
  BY <1>6 DEF RequestApproval
<1>7. ASSUME NEW a \in Approvals, Approve(a) PROVE CallsAccepted'
  BY <1>7 DEF Approve, MayAnswer
<1>8. ASSUME NEW x \in Direct, NEW c \in Chains, CallDirectly(x, c)
      PROVE  CallsAccepted'
  BY <1>8 DEF CallDirectly
<1>9. ASSUME NEW x \in Calls, Check(x) PROVE CallsAccepted'
  BY <1>9 DEF Check
<1>10. ASSUME NEW x \in Calls, BeginCall(x) PROVE CallsAccepted'
  BY <1>10 DEF BeginCall, Accepted, Legs
<1>11. ASSUME NEW x \in Calls, StartLeg(x) PROVE CallsAccepted'
  BY <1>11 DEF StartLeg
<1>12. ASSUME NEW x \in Calls, RunLeg(x) PROVE CallsAccepted'
  <2>1. /\ about[x] \in Chains
        /\ next[x] \in Legs
        /\ snapshot[x] + 1 \in Nat \ {0}
    BY <1>12 DEF RunLeg
  <2>2. /\ fills' = [fills EXCEPT ![about[x]][next[x]] = snapshot[x] + 1]
        /\ cpc' = [cpc EXCEPT ![x] = AfterLeg(x)]
        /\ next' = [next EXCEPT ![x] = next[x] + 1]
        /\ UNCHANGED <<state, edition, about, snapshot>>
        /\ cpc[x] = "run"
    BY <1>12 DEF RunLeg
  <2>3. /\ fills'[about[x]][next[x]] # 0
        /\ \A c \in Chains, l \in Legs : fills[c][l] # 0 => fills'[c][l] # 0
    BY <2>1, <2>2
  <2> SUFFICES ASSUME NEW y \in Calls, cpc'[y] \in {"leg", "run", "end"}
               PROVE  /\ state[about[y]] \in {"accepted", "executed"}
                      /\ snapshot[y] = edition[about[y]]
                      /\ \A l \in Legs : l < next'[y] \/ cpc'[y] = "end" =>
                           fills'[about[y]][l] # 0
    BY <2>2
  <2>4. CASE y # x
    BY <2>1, <2>2, <2>3, <2>4
  <2>5. CASE y = x
    <3>1. \A l \in Legs : l < next[x] => fills'[about[x]][l] # 0
      BY <2>1, <2>2, <2>3
    <3>2. ASSUME NEW l \in Legs, l < next[x] + 1 \/ next[x] + 1 \notin Legs
          PROVE  l <= next[x]
      BY <2>1, <3>2, LifecycleAssumption DEF Legs
    <3>3. ASSUME NEW l \in Legs, l <= next[x] PROVE fills'[about[x]][l] # 0
      BY <2>1, <2>3, <3>1, <3>3 DEF Legs
    <3>4. \A l \in Legs : l < next'[x] \/ cpc'[x] = "end" =>
            fills'[about[x]][l] # 0
      BY <2>1, <2>2, <3>2, <3>3 DEF AfterLeg
    <3> QED  BY <2>1, <2>2, <2>5, <3>4
  <2> QED  BY <2>4, <2>5
<1>13. ASSUME NEW x \in Calls, EndCall(x) PROVE CallsAccepted'
  BY <1>13 DEF EndCall
<1>14. ASSUME NEW x \in Calls, CallFails(x) PROVE CallsAccepted'
  BY <1>14 DEF CallFails
<1>15. ASSUME NEW s \in Scanners,
              Flush(s) \/ Send(s) \/ Mark(s) \/ FlushEnds(s) \/
              ScannerRestarts(s) \/ ScannerFails(s)
       PROVE  CallsAccepted'
  BY <1>15 DEF Flush, Send, Mark, FlushEnds, ScannerRestarts, ScannerFails
<1>16. ASSUME NEW c \in Chains, Deadline(c)
       PROVE  CallsAccepted'
  BY <1>16 DEF Deadline
<1>17. ASSUME NEW a \in Approvals,
              Lapse(a) \/ Reject(a) \/ Notified(a) \/ MarkFailed(a)
       PROVE  CallsAccepted'
  BY <1>17 DEF Lapse, Reject, Notified, MarkFailed
<1>18. CASE FeedStops
  BY <1>18 DEF FeedStops
<1>19. CASE UNCHANGED vars
  BY <1>19 DEF vars
<1> QED
  BY <1>1, <1>2, <1>3, <1>4, <1>5, <1>6, <1>7, <1>8, <1>9, <1>10, <1>11,
       <1>12, <1>13, <1>14, <1>15, <1>16, <1>17, <1>18, <1>19 DEF Next,
       ScannerStep, ApprovalStep, CallStep

\* The row and its attribution change in one transaction, and a chain with an
\* executed leg can only go on to be executed.
LEMMA OutcomesNext ==
  TypeInv /\ ShownSurfaced /\ CallsAccepted /\ OutcomesAgree /\ [Next]_vars
    => OutcomesAgree'
<1> SUFFICES ASSUME TypeInv, ShownSurfaced, CallsAccepted, OutcomesAgree,
                    [Next]_vars
             PROVE  OutcomesAgree'
  OBVIOUS
<1>0. /\ state \in [Chains -> States]
      /\ attribution \in [Chains -> Outcomes]
      /\ fills \in [Chains -> [Legs -> Nat]]
      /\ shown \subseteq Chains
      /\ \A x \in Calls : cpc[x] # "idle" => about[x] \in Chains
      /\ \A x \in Calls : cpc[x] \in {"leg", "run"} => next[x] \in Legs
  BY DEF TypeInv, TypeOK, CallsOK
<1> USE <1>0 DEF ShownSurfaced, CallsAccepted, OutcomesAgree, Traded, rowVars,
        outboxVars, scannerVars, feedVars, approvalVars, callVars, counters
<1>1. ASSUME NEW s \in Scanners, NEW k \in Keys, Detect(s, k)
      PROVE  OutcomesAgree'
  BY <1>1 DEF Detect, Open
<1>2. ASSUME NEW s \in Scanners, Sweep(s) PROVE OutcomesAgree'
  BY <1>2 DEF Sweep, SweptTo, Overdue
<1>3. ASSUME NEW c \in Chains, Surface(c) PROVE OutcomesAgree'
  BY <1>3 DEF Surface, MaySurface
<1>4. ASSUME NEW c \in Chains, Ignore(c) PROVE OutcomesAgree'
  BY <1>4 DEF Ignore, MayIgnore
<1>5. ASSUME NEW x \in Calls, BeginCall(x) PROVE OutcomesAgree'
  BY <1>5 DEF BeginCall, Accepted
<1>6. ASSUME NEW x \in Calls, RunLeg(x) PROVE OutcomesAgree'
  BY <1>6 DEF RunLeg
<1>7. ASSUME NEW x \in Calls, EndCall(x) PROVE OutcomesAgree'
  BY <1>7 DEF EndCall
<1>8. ASSUME NEW s \in Scanners,
             Refresh(s) \/ Flush(s) \/ Send(s) \/ Mark(s) \/ FlushEnds(s) \/
             ScannerRestarts(s) \/ ScannerFails(s)
      PROVE  OutcomesAgree'
  BY <1>8 DEF Refresh, Flush, Send, Mark, FlushEnds, ScannerRestarts,
       ScannerFails
<1>9. ASSUME NEW c \in Chains, Deadline(c)
      PROVE  OutcomesAgree'
  BY <1>9 DEF Deadline
<1>10. ASSUME NEW a \in Approvals, NEW c \in Chains, RequestApproval(a, c)
       PROVE  OutcomesAgree'
  BY <1>10 DEF RequestApproval
<1>11. ASSUME NEW a \in Approvals,
              Lapse(a) \/ Reject(a) \/ Approve(a) \/ Notified(a) \/
              MarkFailed(a)
       PROVE  OutcomesAgree'
  BY <1>11 DEF Lapse, Reject, Approve, Notified, MarkFailed
<1>12. ASSUME NEW x \in Direct, NEW c \in Chains, CallDirectly(x, c)
       PROVE  OutcomesAgree'
  BY <1>12 DEF CallDirectly
<1>13. ASSUME NEW x \in Calls,
              Check(x) \/ StartLeg(x) \/ CallFails(x)
       PROVE  OutcomesAgree'
  BY <1>13 DEF Check, StartLeg, CallFails
<1>14. CASE FeedStops
  BY <1>14 DEF FeedStops
<1>15. CASE UNCHANGED vars
  BY <1>15 DEF vars
<1> QED
  BY <1>1, <1>2, <1>3, <1>4, <1>5, <1>6, <1>7, <1>8, <1>9, <1>10, <1>11,
       <1>12, <1>13, <1>14, <1>15 DEF Next, ScannerStep, ApprovalStep, CallStep

\* A leg is only executed from the contents the chain has kept since it was
\* surfaced, and a chain is only executed after its last leg.
LEMMA ExecutionNext ==
  TypeInv /\ CallsAccepted /\ OutcomesAgree /\ ExecutionExact /\ [Next]_vars
    => ExecutionExact'
<1> SUFFICES ASSUME TypeInv, CallsAccepted, OutcomesAgree, ExecutionExact,
                    [Next]_vars
             PROVE  ExecutionExact'
  OBVIOUS
<1>0. /\ state \in [Chains -> States]
      /\ edition \in [Chains -> Nat]
      /\ fills \in [Chains -> [Legs -> Nat]]
      /\ snapshot \in [Calls -> Nat]
      /\ \A x \in Calls : cpc[x] # "idle" => about[x] \in Chains
      /\ \A x \in Calls : cpc[x] \in {"leg", "run"} => next[x] \in Legs
  BY DEF TypeInv, TypeOK, CallsOK
<1> USE <1>0 DEF CallsAccepted, OutcomesAgree, Traded, ExecutionExact, rowVars,
        outboxVars, scannerVars, feedVars, approvalVars, callVars, counters
<1>1. ASSUME NEW s \in Scanners, NEW k \in Keys, Detect(s, k)
      PROVE  ExecutionExact'
  BY <1>1 DEF Detect, Open
<1>2. ASSUME NEW s \in Scanners, Refresh(s) PROVE ExecutionExact'
  BY <1>2 DEF Refresh, MayRefresh, Open
<1>3. ASSUME NEW s \in Scanners, Sweep(s) PROVE ExecutionExact'
  BY <1>3 DEF Sweep, SweptTo, Overdue
<1>4. ASSUME NEW c \in Chains, Surface(c) PROVE ExecutionExact'
  BY <1>4 DEF Surface, MaySurface
<1>5. ASSUME NEW c \in Chains, Ignore(c) PROVE ExecutionExact'
  BY <1>5 DEF Ignore, MayIgnore
<1>6. ASSUME NEW x \in Calls, BeginCall(x) PROVE ExecutionExact'
  BY <1>6 DEF BeginCall, Accepted
<1>7. ASSUME NEW x \in Calls, RunLeg(x) PROVE ExecutionExact'
  BY <1>7 DEF RunLeg
<1>8. ASSUME NEW x \in Calls, EndCall(x) PROVE ExecutionExact'
  BY <1>8 DEF EndCall
<1>9. ASSUME NEW s \in Scanners,
             Flush(s) \/ Send(s) \/ Mark(s) \/ FlushEnds(s) \/
             ScannerRestarts(s) \/ ScannerFails(s)
      PROVE  ExecutionExact'
  BY <1>9 DEF Flush, Send, Mark, FlushEnds, ScannerRestarts, ScannerFails
<1>10. ASSUME NEW c \in Chains, Deadline(c)
       PROVE  ExecutionExact'
  BY <1>10 DEF Deadline
<1>11. ASSUME NEW a \in Approvals, NEW c \in Chains, RequestApproval(a, c)
       PROVE  ExecutionExact'
  BY <1>11 DEF RequestApproval
<1>12. ASSUME NEW a \in Approvals,
              Lapse(a) \/ Reject(a) \/ Approve(a) \/ Notified(a) \/
              MarkFailed(a)
       PROVE  ExecutionExact'
  BY <1>12 DEF Lapse, Reject, Approve, Notified, MarkFailed
<1>13. ASSUME NEW x \in Direct, NEW c \in Chains, CallDirectly(x, c)
       PROVE  ExecutionExact'
  BY <1>13 DEF CallDirectly
<1>14. ASSUME NEW x \in Calls,
              Check(x) \/ StartLeg(x) \/ CallFails(x)
       PROVE  ExecutionExact'
  BY <1>14 DEF Check, StartLeg, CallFails
<1>15. CASE FeedStops
  BY <1>15 DEF FeedStops
<1>16. CASE UNCHANGED vars
  BY <1>16 DEF vars
<1> QED
  BY <1>1, <1>2, <1>3, <1>4, <1>5, <1>6, <1>7, <1>8, <1>9, <1>10, <1>11,
       <1>12, <1>13, <1>14, <1>15, <1>16 DEF Next, ScannerStep, ApprovalStep,
       CallStep

LEMMA LifeNext == TypeInv /\ LifeInv /\ [Next]_vars => LifeInv'
  BY ShownNext, CallsNext, OutcomesNext, ExecutionNext DEF LifeInv

\* OutcomesAgree holds in every reachable state: how a chain ended is what
\* happened to it, in any order of sweep, delivery, answer and call.
THEOREM OutcomesAlwaysAgree == Spec => []OutcomesAgree
<1>1. LifeInv => OutcomesAgree
  BY DEF LifeInv
<1> QED  BY <1>1, TypeInit, TypeNext, LifeInit, LifeNext, PTL DEF Spec

\* ExecutionExact holds in every reachable state: any number of calls that
\* fail halfway and are tried again execute each leg once, from one edition.
THEOREM ExecutionsAreExact == Spec => []ExecutionExact
<1>1. LifeInv => ExecutionExact
  BY DEF LifeInv
<1> QED  BY <1>1, TypeInit, TypeNext, LifeInit, LifeNext, PTL DEF Spec

-----------------------------------------------------------------------------
(* approvals *)

\* No step changes a reference that was rejected, has expired or has failed.
FinalKept ==
  \A a \in Approvals :
    approval[a] \in {"rejected", "expired", "failed"} =>
      approval'[a] = approval[a]

LEMMA FinalNext == TypeInv /\ [Next]_vars => FinalKept
<1> SUFFICES ASSUME TypeInv, [Next]_vars PROVE FinalKept
  OBVIOUS
<1>0. approval \in [Approvals -> ApprovalStates]
  BY DEF TypeInv, TypeOK
<1> USE <1>0 DEF FinalKept, rowVars, outboxVars, scannerVars, feedVars,
        approvalVars, callVars, counters
<1>1. ASSUME NEW a \in Approvals, NEW c \in Chains, RequestApproval(a, c)
      PROVE  FinalKept
  BY <1>1 DEF RequestApproval, Pending
<1>2. ASSUME NEW a \in Approvals, Reject(a) PROVE FinalKept
  BY <1>2 DEF Reject, MayAnswer
<1>3. ASSUME NEW a \in Approvals, Approve(a) PROVE FinalKept
  BY <1>3 DEF Approve, MayAnswer
<1>4. ASSUME NEW a \in Approvals, MarkFailed(a) PROVE FinalKept
  BY <1>4 DEF MarkFailed
<1>5. ASSUME NEW s \in Scanners, NEW k \in Keys, Detect(s, k)
      PROVE  FinalKept
  BY <1>5 DEF Detect
<1>6. ASSUME NEW s \in Scanners,
             Refresh(s) \/ Flush(s) \/ Send(s) \/ Mark(s) \/ FlushEnds(s) \/
             Sweep(s) \/ ScannerRestarts(s) \/ ScannerFails(s)
      PROVE  FinalKept
  BY <1>6 DEF Refresh, Flush, Send, Mark, FlushEnds, Sweep, ScannerRestarts,
       ScannerFails
<1>7. ASSUME NEW c \in Chains,
             Deadline(c) \/ Surface(c) \/ Ignore(c)
      PROVE  FinalKept
  BY <1>7 DEF Deadline, Surface, Ignore
<1>8. ASSUME NEW a \in Approvals,
             Lapse(a) \/ Notified(a)
      PROVE  FinalKept
  BY <1>8 DEF Lapse, Notified
<1>9. ASSUME NEW x \in Direct, NEW c \in Chains, CallDirectly(x, c)
      PROVE  FinalKept
  BY <1>9 DEF CallDirectly
<1>10. ASSUME NEW x \in Calls,
              Check(x) \/ BeginCall(x) \/ StartLeg(x) \/ RunLeg(x) \/
              EndCall(x) \/ CallFails(x)
       PROVE  FinalKept
  BY <1>10 DEF Check, BeginCall, StartLeg, RunLeg, EndCall, CallFails
<1>11. CASE FeedStops
  BY <1>11 DEF FeedStops
<1>12. CASE UNCHANGED vars
  BY <1>12 DEF vars
<1> QED
  BY <1>1, <1>2, <1>3, <1>4, <1>5, <1>6, <1>7, <1>8, <1>9, <1>10, <1>11, <1>12
       DEF Next, ScannerStep, ApprovalStep, CallStep

\* ApprovalsFinal holds of every behaviour: however prompts, answers and
\* deadlines race, a reference is answered once.
THEOREM ApprovalsAreFinal == Spec => ApprovalsFinal
<1>1. TypeInv /\ [Next]_vars =>
        [\A a \in Approvals :
           approval[a] \in {"rejected", "expired", "failed"} =>
             approval'[a] = approval[a]]_vars
  BY FinalNext DEF FinalKept
<1> QED  BY <1>1, TypeInit, TypeNext, PTL DEF Spec, ApprovalsFinal
=============================================================================
