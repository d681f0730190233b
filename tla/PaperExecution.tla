--------------------------- MODULE PaperExecution ---------------------------
(***************************************************************************)
(* Durable paper execution: the paper-ledger service                       *)
(* (connectors/execution/paper-ledger) and the execute-paper entrypoint    *)
(* (connectors/execution/order-router/src/bin/execute-paper.rs), which     *)
(* share one Postgres database and one bus.                                *)
(*                                                                         *)
(* A service consumes one intent at a time from orders.intents, executes   *)
(* it against its in-memory ledger, writes intent, order, fills, outbox    *)
(* rows and position in one transaction, drains the outbox to              *)
(* orders.fills, and only then commits the consumer offset.  execute-paper *)
(* is a process per request that does the same without the bus input.  An  *)
(* error returned anywhere ends the process: a failure of what it uses is  *)
(* a crash, and an intent that the ledger does not fill a refusal.  The    *)
(* ledger fills an intent or not depending on the current book; an intent  *)
(* it never fills is one that no book suits.                               *)
(*                                                                         *)
(* Postgres runs at READ COMMITTED: each SQL statement is a step.  An      *)
(* INSERT waits for an uncommitted row with its key; SELECT ... FOR UPDATE *)
(* waits for and locks the row it finds, and locks nothing if there is no  *)
(* row.                                                                    *)
(*                                                                         *)
(* The fills of an execution depend on the book at that instant; only      *)
(* their number is kept.  A position is the number of fills of each order  *)
(* it accounts for.                                                        *)
(***************************************************************************)
EXTENDS Naturals, Sequences, FiniteSets, TLC

CONSTANTS Services,      \* paper-ledger processes of one consumer group
          Shots,         \* execute-paper processes
          Intents,
          Markets,
          MarketOf,      \* intent.market
          Seeded,        \* markets that already have a paper position row
          Topic,         \* the records of the orders.intents partition
          Tradable,      \* sets of intents that the current books may fill
          MaxFills,      \* bound on the fills of one execution
          MaxCrashes,    \* bound on process failures
          MaxRebalances  \* bound on partitions taken from a live service

Procs == Services \cup Shots
NoProc == "no process"
NoIntent == "no intent"

ASSUME PaperAssumption ==
  /\ Services \cap Shots = {}
  /\ NoProc \notin Procs
  /\ NoIntent \notin Intents
  /\ MarketOf \in [Intents -> Markets]
  /\ Seeded \subseteq Markets
  /\ Topic \in Seq(Intents)
  /\ MaxFills \in Nat \ {0}
  /\ MaxCrashes \in Nat
  /\ MaxRebalances \in Nat

Stages == {"down", "ready", "preflight", "execute", "insert", "read_position",
           "upsert", "commit", "reread", "flush", "send", "mark", "ack"}

\* One outbox row and one bus event per fill.
Events == Intents \X (1..MaxFills)

NoPosition == [i \in Intents |-> 0]

VARIABLES
  \* the consumer group
  offset, owner, fetched, rebalances,
  \* each process: stage, intent, its fills, position read, events to send
  pc, job, ledger, result, seen, todo, sending,
  \* Postgres: committed rows, and the locks of open transactions
  orders, positions, rows, published, keyLock, rowLock,
  \* the bus and the callers
  sent, answers,
  \* the intents that the current books fill
  tradable,
  crashes

groupVars == <<offset, owner, fetched, rebalances>>
durable == <<orders, positions, rows, published>>
locks == <<keyLock, rowLock>>
flushVars == <<todo, sending>>
vars == <<groupVars, pc, job, ledger, result, seen, flushVars, durable, locks,
          sent, answers, tradable, crashes>>

Init ==
  /\ offset = 0
  /\ owner = NoProc
  /\ fetched = [p \in Services |-> 0]
  /\ rebalances = 0
  /\ pc = [p \in Procs |-> "down"]
  /\ job = [p \in Procs |-> NoIntent]
  /\ ledger = [p \in Procs |-> NoPosition]
  /\ result = [p \in Procs |-> 0]
  /\ seen = [p \in Procs |-> NoPosition]
  /\ todo = [p \in Procs |-> {}]
  /\ sending = [p \in Procs |-> {}]
  /\ orders = [i \in Intents |-> 0]
  /\ positions = [m \in Markets |-> NoPosition]
  /\ rows = Seeded
  /\ published = {}
  /\ keyLock = [i \in Intents |-> NoProc]
  /\ rowLock = [m \in Markets |-> NoProc]
  /\ sent = {}
  /\ answers = [i \in Intents |-> {}]
  /\ tradable \in Tradable
  /\ crashes = 0

-----------------------------------------------------------------------------
Goto(p, stage) == pc' = [pc EXCEPT ![p] = stage]

\* The service starts with an empty ledger and drains the outbox first.
Boot(p) ==
  /\ p \in Services
  /\ pc[p] = "down"
  /\ Goto(p, "flush")
  /\ UNCHANGED <<groupVars, job, ledger, result, seen, flushVars, durable,
                 locks, sent, answers, tradable, crashes>>

\* The group hands the partition to a polling service, which resumes from
\* the committed offset: the previous owner is gone, or was too slow to poll.
Assign(p) ==
  /\ p \in Services
  /\ pc[p] = "ready"
  /\ owner # p
  /\ \/ owner = NoProc /\ UNCHANGED rebalances
     \/ /\ owner # NoProc
        /\ rebalances < MaxRebalances
        /\ rebalances' = rebalances + 1
  /\ owner' = p
  /\ fetched' = [fetched EXCEPT ![p] = offset]
  /\ UNCHANGED <<offset, pc, job, ledger, result, seen, flushVars, durable,
                 locks, sent, answers, tradable, crashes>>

\* Mutant: the offset is committed when the record is received.
OffsetAfterReceiveEager(n) == n

\* enable.auto.commit and enable.auto.offset.store are off: receiving a
\* record only remembers its offset.
OffsetAfterReceive(n) == offset

\* consume() returns one record.
Consume(p) ==
  /\ p \in Services
  /\ pc[p] = "ready"
  /\ owner = p
  /\ fetched[p] < Len(Topic)
  /\ fetched' = [fetched EXCEPT ![p] = @ + 1]
  /\ offset' = OffsetAfterReceive(fetched[p] + 1)
  /\ job' = [job EXCEPT ![p] = Topic[fetched[p] + 1]]
  /\ Goto(p, "preflight")
  /\ UNCHANGED <<owner, rebalances, ledger, result, seen, flushVars, durable,
                 locks, sent, answers, tradable, crashes>>

\* A request starts an execute-paper process; the router executes first.
Request(p, i) ==
  /\ p \in Shots
  /\ pc[p] = "down"
  /\ job' = [job EXCEPT ![p] = i]
  /\ Goto(p, "execute")
  /\ UNCHANGED <<groupVars, ledger, result, seen, flushVars, durable, locks,
                 sent, answers, tradable, crashes>>

\* existing_execution() before the transaction.
Preflight(p) ==
  /\ pc[p] = "preflight"
  /\ result' = [result EXCEPT ![p] = orders[job[p]]]
  /\ Goto(p, IF orders[job[p]] # 0 THEN "flush"
             ELSE IF p \in Services THEN "execute" ELSE "insert")
  /\ UNCHANGED <<groupVars, job, ledger, seen, flushVars, durable, locks, sent,
                 answers, tradable, crashes>>

\* A service walks the current book of the cache, execute-paper the book of
\* its request, whatever that is.
MayFill(p) == p \in Services => job[p] \in tradable
MayRefuse(p) == p \in Services => job[p] \notin tradable

\* PaperLedger::execute, through the router in execute-paper: an order the
\* ledger knows returns its fills, any other walks the book.
Execute(p) ==
  LET i == job[p] IN
  /\ pc[p] = "execute"
  /\ ledger[p][i] # 0 \/ MayFill(p)
  /\ \E n \in (IF ledger[p][i] # 0 THEN {ledger[p][i]} ELSE 1..MaxFills) :
       ledger' = [ledger EXCEPT ![p][i] = n]
  /\ Goto(p, IF p \in Services THEN "insert" ELSE "preflight")
  /\ UNCHANGED <<groupVars, job, result, seen, flushVars, durable, locks, sent,
                 answers, tradable, crashes>>

-----------------------------------------------------------------------------
(* persist_execution *)

\* Mutant: the loser keeps its speculative execution.
DiscardKept(p) == ledger

\* The service restores the ledger it had before the execution; execute-paper
\* ends with the request.
Discard(p) ==
  IF p \in Services THEN [ledger EXCEPT ![p][job[p]] = 0] ELSE ledger

\* Mutant: the insert does not look for a committed row.
IsFirstAlways(i) == TRUE

\* Rows affected by the INSERT, once nobody else holds the key.
IsFirst(i) == orders[i] = 0

\* The intent, order, fill and outbox rows; ON CONFLICT (order_id) is the
\* idempotency gate.  AlreadyExists rolls back.
InsertOrder(p) ==
  LET i == job[p] IN
  /\ pc[p] = "insert"
  /\ keyLock[i] = NoProc
  /\ \/ /\ IsFirst(i)
        /\ keyLock' = [keyLock EXCEPT ![i] = p]
        /\ Goto(p, "read_position")
        /\ UNCHANGED ledger
     \/ /\ ~IsFirst(i)
        /\ ledger' = Discard(p)
        /\ Goto(p, "reread")
        /\ UNCHANGED keyLock
  /\ UNCHANGED <<groupVars, job, result, seen, flushVars, durable, rowLock,
                 sent, answers, tradable, crashes>>

\* Mutant: a plain SELECT.
LockRowNone(p, m) == UNCHANGED rowLock

\* SELECT ... FOR UPDATE of a row that exists.
LockRow(p, m) ==
  /\ rowLock[m] = NoProc
  /\ rowLock' = [rowLock EXCEPT ![m] = p]

ReadPosition(p) ==
  LET m == MarketOf[job[p]] IN
  /\ pc[p] = "read_position"
  /\ \/ m \in rows /\ LockRow(p, m)
     \/ m \notin rows /\ UNCHANGED rowLock
  /\ seen' = [seen EXCEPT ![p] = positions[m]]
  /\ Goto(p, "upsert")
  /\ UNCHANGED <<groupVars, job, ledger, result, flushVars, durable, keyLock,
                 sent, answers, tradable, crashes>>

\* INSERT ... ON CONFLICT (market_key,paper) DO UPDATE.
UpsertPosition(p) ==
  LET m == MarketOf[job[p]] IN
  /\ pc[p] = "upsert"
  /\ rowLock[m] \in {NoProc, p}
  /\ rowLock' = [rowLock EXCEPT ![m] = p]
  /\ Goto(p, "commit")
  /\ UNCHANGED <<groupVars, job, ledger, result, seen, flushVars, durable,
                 keyLock, sent, answers, tradable, crashes>>

\* The position written is the one read with this execution's fills applied.
Commit(p) ==
  LET i == job[p]
      m == MarketOf[i]
  IN
  /\ pc[p] = "commit"
  /\ orders' = [orders EXCEPT ![i] = ledger[p][i]]
  /\ positions' = [positions EXCEPT ![m] =
                     [seen[p] EXCEPT ![i] = @ + ledger[p][i]]]
  /\ rows' = rows \cup {m}
  /\ keyLock' = [keyLock EXCEPT ![i] = NoProc]
  /\ rowLock' = [rowLock EXCEPT ![m] = NoProc]
  /\ result' = [result EXCEPT ![p] = ledger[p][i]]
  /\ seen' = [seen EXCEPT ![p] = NoPosition]
  /\ Goto(p, "flush")
  /\ UNCHANGED <<groupVars, job, ledger, flushVars, published, sent, answers, tradable,
                 crashes>>

\* Mutant: the loser answers with its own fills.
AuthoritativeOwn(p) == ledger[p][job[p]]

\* existing_execution() after AlreadyExists: the stored fills.
Authoritative(p) == orders[job[p]]

Reread(p) ==
  /\ pc[p] = "reread"
  /\ result' = [result EXCEPT ![p] = Authoritative(p)]
  /\ Goto(p, "flush")
  /\ UNCHANGED <<groupVars, job, ledger, seen, flushVars, durable, locks, sent,
                 answers, tradable, crashes>>

-----------------------------------------------------------------------------
(* flush_persisted_outbox *)

\* pending_fill_events()
Pending == {e \in Events : e[2] <= orders[e[1]]} \ published

Flush(p) ==
  /\ pc[p] = "flush"
  /\ todo' = [todo EXCEPT ![p] = Pending]
  /\ Goto(p, "send")
  /\ UNCHANGED <<groupVars, job, ledger, result, seen, sending, durable, locks,
                 sent, answers, tradable, crashes>>

\* The rows are sent in their stored order; the fills of an order are
\* numbered by it.
First(events) ==
  {e \in events : \A f \in events : f[1] = e[1] => e[2] <= f[2]}

\* Sending leaves the outbox row pending ...
Send(p) ==
  /\ pc[p] = "send"
  /\ \E e \in First(todo[p]) :
       /\ sent' = sent \cup {e}
       /\ sending' = [sending EXCEPT ![p] = {e}]
  /\ Goto(p, "mark")
  /\ UNCHANGED <<groupVars, job, ledger, result, seen, todo, durable, locks,
                 answers, tradable, crashes>>

\* Mutant: the UPDATE forgets the fill_id.
MarkedAll(p) == todo[p]

\* ... until mark_fill_published(), after the broker acknowledged it.
Marked(p) == sending[p]

Mark(p) ==
  /\ pc[p] = "mark"
  /\ published' = published \cup Marked(p)
  /\ todo' = [todo EXCEPT ![p] = @ \ Marked(p)]
  /\ sending' = [sending EXCEPT ![p] = {}]
  /\ Goto(p, "send")
  /\ UNCHANGED <<groupVars, job, ledger, result, seen, orders, positions, rows,
                 locks, sent, answers, tradable, crashes>>

\* The outbox is drained: the caller gets the fills.  After the flush at
\* startup there is no caller.
Return(p) ==
  LET i == job[p] IN
  /\ pc[p] = "send"
  /\ todo[p] = {}
  /\ answers' = IF i = NoIntent THEN answers
                ELSE [answers EXCEPT ![i] = @ \cup {result[p]}]
  /\ Goto(p, IF i = NoIntent THEN "ready"
             ELSE IF p \in Services THEN "ack" ELSE "down")
  /\ job' = IF p \in Services THEN job ELSE [job EXCEPT ![p] = NoIntent]
  /\ ledger' = IF p \in Services THEN ledger
               ELSE [ledger EXCEPT ![p] = NoPosition]
  /\ result' = [result EXCEPT ![p] = 0]
  /\ UNCHANGED <<groupVars, seen, flushVars, durable, locks, sent, tradable, crashes>>

\* What an exiting process loses: its memory, its open transaction, its
\* membership of the group.
Exit(p) ==
  /\ pc' = [pc EXCEPT ![p] = "down"]
  /\ job' = [job EXCEPT ![p] = NoIntent]
  /\ ledger' = [ledger EXCEPT ![p] = NoPosition]
  /\ result' = [result EXCEPT ![p] = 0]
  /\ seen' = [seen EXCEPT ![p] = NoPosition]
  /\ todo' = [todo EXCEPT ![p] = {}]
  /\ sending' = [sending EXCEPT ![p] = {}]
  /\ keyLock' = [i \in Intents |-> IF keyLock[i] = p THEN NoProc
                                   ELSE keyLock[i]]
  /\ rowLock' = [m \in Markets |-> IF rowLock[m] = p THEN NoProc
                                   ELSE rowLock[m]]
  /\ owner' = IF owner = p THEN NoProc ELSE owner

\* consume() remembered msg.offset() + 1; offsets count records here.
Acked(p) == fetched[p]

\* ack() and commit_sync().  The commit of a service that lost the partition
\* fails, and the service exits.
Ack(p) ==
  /\ pc[p] = "ack"
  /\ \/ /\ owner = p
        /\ offset' = Acked(p)
        /\ job' = [job EXCEPT ![p] = NoIntent]
        /\ Goto(p, "ready")
        /\ UNCHANGED <<owner, ledger, result, seen, flushVars, locks>>
     \/ /\ owner # p
        /\ Exit(p)
        /\ UNCHANGED offset
  /\ UNCHANGED <<fetched, rebalances, durable, sent, answers, tradable, crashes>>

\* The process is killed, or an operation returns an error to main().
Crash(p) ==
  /\ pc[p] # "down"
  /\ crashes < MaxCrashes
  /\ crashes' = crashes + 1
  /\ Exit(p)
  /\ UNCHANGED <<offset, fetched, rebalances, durable, sent, answers, tradable>>

\* walk_book() or the accounting fails, and nothing has changed: main() ends
\* with the error and the offset is not committed.  While there is no book of
\* the market at all a service waits for one instead.
Refuse(p) ==
  /\ pc[p] = "execute"
  /\ ledger[p][job[p]] = 0
  /\ MayRefuse(p)
  /\ Exit(p)
  /\ UNCHANGED <<offset, fetched, rebalances, durable, sent, answers, tradable,
                 crashes>>

\* run_books: other books become current.
Requote ==
  /\ tradable' \in Tradable \ {tradable}
  /\ UNCHANGED <<groupVars, pc, job, ledger, result, seen, flushVars, durable,
                 locks, sent, answers, crashes>>

-----------------------------------------------------------------------------
\* What a process does next, once it has work.
Work(p) ==
  \/ Preflight(p) \/ Execute(p) \/ InsertOrder(p) \/ ReadPosition(p)
  \/ UpsertPosition(p) \/ Commit(p) \/ Reread(p)
  \/ Flush(p) \/ Send(p) \/ Mark(p) \/ Return(p) \/ Ack(p)

Next ==
  \/ Requote
  \/ \E p \in Procs :
       \/ Boot(p) \/ Assign(p) \/ Consume(p) \/ Work(p) \/ Refuse(p) \/ Crash(p)
       \/ \E i \in Intents : Request(p, i)

Spec == Init /\ [][Next]_vars

\* The supervisor restarts the service (Restart=always in its unit), the group
\* assigns the partition, and a running service polls and makes progress.
\* Nothing makes a client ask, a book change or a service give up waiting for
\* one.
Fairness ==
  \A p \in Procs : WF_vars(Boot(p) \/ Consume(p) \/ Work(p)) /\ WF_vars(Assign(p))

FairSpec == Spec /\ Fairness

-----------------------------------------------------------------------------
TypeOK ==
  /\ offset \in 0..Len(Topic)
  /\ owner \in Services \cup {NoProc}
  /\ fetched \in [Services -> 0..Len(Topic)]
  /\ rebalances \in 0..MaxRebalances
  /\ pc \in [Procs -> Stages]
  /\ job \in [Procs -> Intents \cup {NoIntent}]
  /\ ledger \in [Procs -> [Intents -> 0..MaxFills]]
  /\ result \in [Procs -> 0..MaxFills]
  /\ seen \in [Procs -> [Intents -> Nat]]
  /\ todo \in [Procs -> SUBSET Events]
  /\ sending \in [Procs -> SUBSET Events]
  /\ orders \in [Intents -> 0..MaxFills]
  /\ positions \in [Markets -> [Intents -> Nat]]
  /\ rows \subseteq Markets
  /\ published \subseteq Events
  /\ keyLock \in [Intents -> Procs \cup {NoProc}]
  /\ rowLock \in [Markets -> Procs \cup {NoProc}]
  /\ sent \subseteq Events
  /\ answers \in [Intents -> SUBSET (0..MaxFills)]
  /\ tradable \in Tradable
  /\ crashes \in 0..MaxCrashes

\* What the processes do to an intent together is what one atomic executor
\* would do: execute it once, send its fills in their order, and answer with
\* them after the last is on the bus.
Durable ==
  INSTANCE DurableExecution WITH
    Sizes <- 1..MaxFills,
    executed <- orders,
    onBus <- [i \in Intents |-> {n \in 1..MaxFills : <<i, n>> \in sent}]

ImplementsDurableExecution == Durable!Spec

\* The outbox is at-least-once: an event marked published was sent, and only
\* fills that are committed are ever sent.
OutboxSound ==
  /\ published \subseteq sent
  /\ \A e \in sent : e[2] <= orders[e[1]]

\* The consumer offset only passes intents whose execution is durable and
\* whose fills are on the bus.
OffsetCoversFills ==
  \A k \in 1..offset :
    LET i == Topic[k] IN
    orders[i] # 0 /\ \A n \in 1..orders[i] : <<i, n>> \in sent

\* Between two intents the in-memory ledger of a service holds only
\* executions that are durable, with their durable fills.
LedgerAgrees ==
  \A p \in Services : pc[p] = "ready" =>
    \A i \in Intents : ledger[p][i] \in {0, orders[i]}

\* Positions never count a fill twice, and on a market that had a position
\* row from the start they account for exactly the durable fills.
PositionsExact(m) ==
  \A i \in Intents :
    positions[m][i] = IF MarketOf[i] = m THEN orders[i] ELSE 0

NoDoubleCount ==
  \A m \in Markets, i \in Intents :
    positions[m][i] <= IF MarketOf[i] = m THEN orders[i] ELSE 0

SeededPositionsExact == \A m \in Seeded : PositionsExact(m)

\* persistence.rs documents one atomic write of intent, order, fills and
\* positions: on every market the position accounts for the durable fills.
\* Two executions that both read before the row exists lose one of them.
PositionsMatchFills == \A m \in Markets : PositionsExact(m)

\* The fills of the k-th record of the topic are durable and on the bus.
IsPublished(k) ==
  LET i == Topic[k] IN
  orders[i] # 0 /\ \A n \in 1..orders[i] : <<i, n>> \in sent

\* An intent is executed in the end and its fills published, whatever fails,
\* once the books suit it and the intents before it on its partition; one
\* that no book suits blocks those behind it.
IntentsPublished ==
  \A k \in 1..Len(Topic) :
    <>[](\A j \in 1..k : Topic[j] \in tradable) => <>IsPublished(k)

-----------------------------------------------------------------------------
(* Instances for TLC *)

\* All intents are for one market, the topic has two of them and services
\* are interchangeable.
SameMarket == [i \in Intents |-> CHOOSE m \in Markets : TRUE]
TwoIntents == CHOOSE s \in [1..2 -> Intents] : s[1] # s[2]
Instances == Permutations(Services)

\* The books fill every intent, or some of them refuse the first of the topic.
GoodBooks == {Intents}
StrictFirst == {Intents, Intents \ {Topic[1]}}
=============================================================================
