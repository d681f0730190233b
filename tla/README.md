# AetherDash: TLA+ models, checks and proofs

AetherDash is a market terminal: connectors read venues, a scanner finds
opportunities, humans and agents act on them within permission tiers, and orders
are executed live or on paper. This directory holds the specification of the parts
that move money or decide who may: TLA+ modules translated from the source, the TLC
configurations that check them on small instances, and machine-checked proofs
of what holds for every instance.

All paths below are relative to the repository root. Run a configuration with its module:
`tlc -config RouterSubmit.cfg OrderRouter` (also `RouterReconcile`, `RouterLive`, `RouterRestart`),
`PaperExecution.cfg PaperExecution` (also `PaperRecovery`, `PaperPositions`),
`GuardianBroadcast.cfg WalletGuardian` (also `GuardianLive`), `OpportunityLife.cfg OpportunityLifecycle`,
`Components.cfg MCComponents` (also `ComponentsLive`); and the proofs with
`tlapm` on `OrderRouterProofs.tla`, `PaperExecutionProofs.tla`, `DurableExecution.tla`,
`WalletGuardianProofs.tla`, `OpportunityLifecycle.tla`, `GuardianAccess.tla`, `ApprovalReferences.tla` and
`ComponentProofs.tla` (the last takes a quarter of an hour, the others minutes or less).

## 1. The system

```
 venue connectors --ticks/books--> scanner --opps.detected--> gateway --frames--> client
                                     |  (Postgres rows + outbox)   |
                                     v                             v
                               opportunities <---ignore/execute--- actions <--- alerts (approvals)
                                     ^                             |
                                     |                             v
   orders.intents ---> paper-ledger service        execute-paper (order-router)
                             |                          |
                             +-----> Postgres <---------+----> orders.fills
   live orders: order-router -> venue adapter;  on-chain: wallet-guardian -> chain RPC
```

Postgres is the shared state of the services. The bus is Kafka with
at-least-once delivery, offsets committed after the work. Most services are
crash-only processes under a supervisor.

### Inventory

Parts that keep state, with what makes them correct.

- **order-router** (`connectors/execution/order-router`). State, all in memory behind
  mutexes: an idempotency map from intent to processing or outcome, per-venue
  breakers, the reconciler's map of unknown submissions, the audit sink. Operations:
  `submit`, `reconcile_unknowns`; a pass is started by the caller, and nothing in the repository outside its tests
  starts one. Hard: concurrent submissions of one intent, adapter timeouts while the order is on its way, overlapping passes on stale snapshots, audit outages.
  Correct: one effect and one answer per intent, no exposure behind a refusal,
  resolved orders stay resolved, bounded concurrency, audit before effect.
- **aether-bus breaker** (`crates/aether-bus/src/retry.rs`). State: failures, window, probe flag.
  Correct: the half-open probe is always owed an outcome.
- **paper-ledger** (`connectors/execution/paper-ledger`) and **execute-paper**
  (`order-router/src/bin/execute-paper.rs`). State: a ledger per process; in Postgres intents,
  orders, fills, positions, a fill outbox; consumer offsets. Hard: several processes on
  one intent, READ COMMITTED, crashes between persist, send, mark and commit,
  rebalances, intents the ledger refuses. Correct: one durable execution that everybody answers with,
  at-least-once events, offsets behind fills, positions that agree with fills.
- **wallet-guardian** (`connectors/execution/wallet-guardian`). State: proposals, approval
  references, broadcast jobs, a nonce per chain. Operations: propose, approve, get,
  worker cycles. Hard: concurrent proposals against one limit, workers that race, lost
  answers of the RPC node, expiry at every point, evicted transactions. Correct:
  distinct nonces without gaps, the limit, approval before broadcast, records that
  match the chain, no proposal that waits for ever.
- **scanner** (`connectors/execution/scanner`), **gateway** (`crates/aether-gateway`), **actions**
  (`server/actions`), **approvals of alerts** (`server/alerts/approvals.py`). State: the
  `opportunities` rows, whose transitions a trigger enforces (migration 0037),
  their attribution, the detection outbox, approval references. Hard: four processes move one
  row on, deliveries are late and repeated, legs are executed between transactions,
  a chain that is found again gets a later deadline. Correct: one open chain per key, an end that agrees with what happened, legs from one
  edition of the contents, references answered once.
- **venue packs** (`connectors/venues`: kalshi, polymarket, alpaca, hyperliquid, openbb). State: a task
  per stream with its connection, book, sequence number and breaker; channels and a last-tick time per pack;
  REST clients, two where orders are taken (Kalshi, Alpaca), each with its token bucket. Operations: stream ticks or books, list markets, health, orders, record and
  replay. Hard: lost, malformed and late messages, reconnects, bounded channels, 429s and lost
  answers. Correct: no book the venue never had, every item published or preserved, an order sent
  again only when the venue cannot have taken it, listings without duplicates.
- **aether-bus** delivery (`producer.rs`, `consumer.rs`, `quarantine.rs`). State: positions, stored and committed
  offsets, raw objects and metadata. Hard: malformed messages that cannot be quarantined, stops between
  quarantine and commit, messages the caller refuses. Correct: committed is handled; a consumer that is started again after
  each stop commits everything up to the first refused message. (The gateway's is not started again.)
- **aether-authz** and **aether-gateway** sessions. State: grants, caps versions, challenges, lockouts; connections,
  subscriptions, pending confirmations, two counters. Hard: expiry and revocation during a
  connection, late or repeated confirmations. Correct: a challenge or confirmation is used once, in time, by its
  owner; caps only tighten; counters are exact.
- **alerts and actions** (`server/alerts`, `server/actions`). State: references and attempts, alert rows,
  rate limits in memory, the offset. Hard: concurrent requests, crashes around a claim, callers
  that give up. Correct: references are consumed once for what was asked, an alert is sent once per claim, a
  button acts at most once with the authority of a grant.
- **risk-engine**, **aether-decompose**, **aether-fillmodel**, **simulator**, **scan cycle**, **back-tester**. Verdicts
  and amounts. Hard: rounding, boundaries, snapshots of the day, incremental work. Correct: an edge
  is supported by its book, nothing is missed by looking only at what changed, caps hold.
- **brain**, **inbox**, **ingest** (`server/brain`, `server/inbox`, `server/ingest`). State: rows with stages and tiers, chunks,
  vectors, leased notifications, cursors, queues. Hard: runs that resume, jobs that race, lost leases,
  batches cut off half-way, listings of several pages, content no parser reads. Correct: indexed is complete, no cursor passes what is
  not stored, mail is filed, recall returns only what its caller may see; the code falls short of the first three in ways the
  properties name (section 3).
- **swarm**, **llm_router**, **aether-agents**, **aether-plugin**. State: budgets and reservations, caches and
  accounting rows, automations with slots and runs, plugin rows with approvals. Hard: concurrent
  reservations, fallbacks after timeouts, claims with stale grants, revocation during a load. Correct: budgets
  and limits hold, what is stopped stays stopped.
- **aether-audit**, **paper accounts**. State: a hash-linked chain with anchors; positions and
  profit. Correct: damage is found, the accounts add up.
- **client, proto, observe, testing, core conversions, comms formatting, venue template, code writer,
  deployment**: no state another part relies on; generated code, conversion or I/O.

`PROJECT.json` lists every component with its status, and under `hazards` each place
where this code can go wrong in a way a unit test hardly reaches.

## 2. Modules and how they correspond to the code

| module | models | state | actions |
|---|---|---|---|
| `CircuitBreaker` | `aether-bus/src/retry.rs` | a record per breaker | operators `AllowRequest`, `RecordSuccess`, `RecordFailure` |
| `OrderRouter` | `router.rs`, `reconciler.rs`, the venue (external) | `intents`, `pc` per thread, `status`/`attempts` of the reconciler, `audit`, `breakers`, `venue` | one per lock section of `submit` and of `reconcile_unknowns` |
| `OrderRouterProofs` | - | - | theorems about `OrderRouter` |
| `DurableExecution` | what paper execution promises: execute once, publish in order, answer after the last fill is published | fills executed, on the bus, answered | `Execute`, `Publish`, `Answer`, and a theorem |
| `PaperExecution` | `paper-ledger/src`, `execute-paper.rs`, the bus consumer | rows and locks of Postgres, `sent`, `offset`, a ledger and stage per process, the intents the books of the moment fill | one per SQL statement, send and commit; `Refuse`, the ledger's error that ends a service before its commit |
| `PaperExecutionProofs` | - | - | theorems about `PaperExecution`, among them that it implements `DurableExecution` |
| `WalletGuardian` | `grpc.rs`, `worker.rs`, migrations 0035/0036, the chain (external) | proposals, references, jobs, nonces, what each worker read | one per transaction or RPC |
| `WalletGuardianProofs` | - | - | theorems about `WalletGuardian` |
| `OpportunityLifecycle` | scanner `lifecycle.rs`, gateway `feed.rs`, `alerts/approvals.py`, `actions/service.py`, migration 0037 | the row's `state`, `edition` of its contents, outbox, deadlines, references, a stage per call | one per transaction, send or leg; its theorems follow |
| `ComponentProofs` | - | - | theorems about the components of `MCComponents`, each an instance under its own name |

The components of `MCComponents`:

| module | models | state and actions |
|---|---|---|
| `KalshiStream` | kalshi `stream.rs` | a task in a role, its book as the set of changes it accounts for; connect, subscribe, snapshots, deltas, gaps, malformed messages, failures, breaker |
| `PolymarketStream` | polymarket `stream.rs` | books as levels with absolute sizes; a message changes several levels, published one by one; messages without an asset and levels that do not normalize, quarantined; breaker in its three states |
| `AlpacaStream` | alpaca `ws.rs` | handshake, subscription, batches whose items are published, coalesced or preserved |
| `HyperliquidStream` | hyperliquid `stream.rs` | polling rounds on the full `CircuitBreaker` with its window and clock |
| `VenueNormalization` | `normalize.rs` of four packs, `normalize.py` of openbb, constructors of `aether-core` | one message and what became of it, over all messages of the input sets: Kalshi's two sides of bids made a book with asks, books named or not, up to two levels a side |
| `VenueListing` | `ListMarkets`/`GetMarket` of five packs, polymarket `rpc.rs` | pages of a catalogue that may shrink, quarantine, resolution from the chain |
| `VenueFeed` | `StreamTicks`, `StreamBook`, `Health` in `main.rs` | source and relay tasks, bounded channels, last tick; Polymarket's first book by REST before its stream |
| `VenueOrders` | `client.rs`, `orders.rs`, the clients of `main.rs` | two clients, for market data and for orders, each with its token bucket, its breaker or count; retries after 429, lost answers |
| `VenueReplay` | `bin/record.rs`, `replay.rs` | a file of recorded messages; runs appended to it; replay to the bus |
| `Authorization`, `AuthorityStores` | `aether-authz` | `evaluate` as a function; grants, caps, challenges, lockout as actions |
| `GatewaySession` | `aether-gateway` `lib.rs`, `auth.rs`, `frames.rs`, `feed.rs` | upgrades, frames, confirmations, broadcast, counters |
| `BusDelivery` | `aether-bus` | sender with retries and breaker, partition, consumer, messages its caller refuses, quarantine, offsets, stops and restarts |
| `ApprovalReferences` | `alerts/approvals.py`, migration 0033 | both stores, two calls at a time, one step per statement that matters; a theorem |
| `AlertDelivery` | `alerts` rules, history, delivery | one message from evaluation to commit, its claim and row in the history, with crashes |
| `OperatorCallback` | webhook to action service | a press with its deadline, grants that change meanwhile |
| `EdgeDecomposition`, `EdgeSimulation` | `aether-fillmodel`, `aether-decompose`; `simulator` and its callers | functions on integers; one request answered |
| `PaperRisk` | `risk-engine`, the snapshots of `actions/service.py` | calls with legs, spending and holdings |
| `ScanCycle` | `scanner` cycle | quotes, books, dirty markets, emission, shedding |
| `Backtest` | `aether-agents` back-tester | a strategy over ticks |
| `BrainPipeline`, `BrainTiering`, `RecallFusion` | `server/brain` | the stages of a run with its locals; nightly jobs; one recall with its budget |
| `InboxQueue` | `server/inbox` | notifications, leases, the first page of a listing, fetching, deduplication, filing, parts no parser reads |
| `IngestFleet`, `ScreenshotOcr` | `server/ingest` | poller, queue, workers, cursors; the OCR loop |
| `SwarmBudget`, `LlmRouting` | `server/swarm`, `server/llm_router` | reservations and waves; fallback, cache, accounting |
| `Automations`, `PluginLifecycle` | `aether-agents`, `aether-plugin` | claims of slots, proposals; installation to revocation |
| `GuardianService`, `GuardianAccess` | wallet-guardian `service.rs`, `broadcast.rs`, `nonce.rs`, `wc/`; `grpc.rs` | in-memory service with its awaits; callers, scopes, price, step-up, the deadlines of proposals and approvals, one query per step; a theorem about `GuardianAccess` |
| `AuditChain`, `PaperAccounts` | `aether-audit`; `positions.rs`, `pnl.rs`, `ledger.rs` | append, anchor, damage, verify; fills, cancels, marks, closure |

`MCComponents` puts them side by side for TLC. A behaviour belongs to one component, its
`focus`, chosen in the initial state; the components share the variables `v1 .. v17`, which the instances
rename. So it is 33 independent specifications in one run, not their product: an interaction between
two of them is modelled inside a module (an external part of it), never by the composite. TLC reports
coverage of the actions of the composite; each component's own actions were also looked at one by one
and all of them fire.

`OrderRouter` and `HyperliquidStream` use `CircuitBreaker`. `OpportunityLifecycle` takes one fact from
`PaperExecution`: a leg has one durable execution whoever asks. That promise is the abstract
specification `DurableExecution`, which `PaperExecution` is checked and proved to implement.
`EdgeSimulation`, `ScanCycle` and `PaperRisk` use
`EdgeDecomposition`, `AuthorityStores` and others `Authorization`. `MCComponents` gives constants to TLC; the
four other run modules end with the few instance definitions their configurations name.

**Atomicity.** A step is what the code makes indivisible: a mutex section in the
router; a SQL statement in the paper ledger, where locks matter; a whole
transaction where it begins by locking the row everything depends on
(guardian, lifecycle). What a process reads earlier stays in a variable of its own and may
be stale when used: a pass's `targets`, a worker's `view` and `pendingNonce`, a
call's `snapshot`, the approval a call checked before it waits for the row.

**Data.** Intents, proposals and chains are identities. A fill is its index. A position is
the number of fills of each order it accounts for, so losing or doubling one is
visible. The contents of an opportunity are an edition number. Verdicts of
authorization and risk, venue answers and chain events are chosen
nondeterministically; deadlines pass at any time after they are set.

**Trigger of migration 0037.** Each transition is an event inserted with the state it
expects; the trigger locks the row, compares, and refuses what its table does not list.
`detected` and `expired` occur only inside transactions, so no state of the model has them.

## 3. Runs

| run | instance | what it shows |
|---|---|---|
| `RouterSubmit` | 2 threads, 3 live intents, capacity 2, breaker threshold 1, clock to 2 | one effect and one answer per intent; the probe is always owned |
| `RouterReconcile` | 2 threads, 2 passes, live, read-only and paper intents, budget 2 | exposure, audit, attempt budget, agreement with the venue, resolved for good |
| `RouterLive` | 1 thread, 1 pass, 2 intents, fair | every reserved submission gets an outcome, and no order stays unknown if passes are started again and again |
| `RouterRestart` | as above with restarts | violation: unknown orders are forgotten |
| `PaperExecution` | 2 services, execute-paper, 2 intents, a market without a position, 1 rebalance | implements `DurableExecution` (as one atomic executor would), ledgers agree, no fill counted twice |
| `PaperRecovery` | 1 service, execute-paper, 2 crashes, books that may refuse the first intent, fair | outbox and offsets, exact positions on a market with a row; an intent is published if the books suit it and those before it from some time on |
| `PaperPositions` | 1 service, execute-paper, no position row | violation: the first fills of a market overwrite each other |
| `GuardianBroadcast` | 2 workers, 2 proposals, 1 lost answer | nonces distinct and without gaps, approval before broadcast, records match the chain |
| `GuardianLive` | 1 worker, limit below the sum, eviction and crash, fair | limit, every proposal settles |
| `OpportunityLife` | 1 scanner, 2 chains of one key, 2 legs, 1 approval, 1 direct call, 1 failure, fair | one open chain, ends agree, executions exact, references final; a detection settles unless it is found again for ever |
| `Components` | the 33 components, each on its own instance (constants in `MCComponents`) | `StreamsSound` .. `RecordsSound`, `StepsSound`: see below |
| `ComponentsLive` | inbox with 1 worker, OCR loop, bus with 2 stops; fair | mail is filed, readable screenshots are read, what is on the bus is committed, each under the conditions below |

The properties of `Components` are conjunctions over the components of an area; each conjunct is
defined, with its comment, in the component's module:

- `StreamsSound`: a Polymarket book equals the venue's when all messages are read; each item of an Alpaca frame
  is published, coalesced into a later one or preserved; a polling task gives up only when its breaker had
  reason to; a recording replays into books the venue had.
- `VenuesSound`: a message is normalized exactly or refused; a listing names each market once; feeds
  lose nothing on the way; each client keeps its budget and sends an order once unless refused (a pack with two clients may
  send twice the budget).
- `AuthoritySound`: what `evaluate` allows is within the grant, its expiry and the human's session; caps only tighten; challenges and confirmations
  are used once and in time; the gateway's counters are exact.
- `OperatorsSound`: references are consumed once, within the limit the race allows; an alert is sent once per claim;
  a press that is told done is done, with a grant.
- `EdgesSound`: both legs of a simulation are filled alike, an edge never improves with depth or age, and it agrees
  with its table; an incremental cycle emits what a full one
  would; a back-test's report accounts for every purchase and sale.
- `BrainSound`: an indexed object has its chunks and vectors, unless a run started without what its stages need (`Unready`: beside
  another run, at `summarize` with the summary already written, or at `index`); seen mail is filed, and a mailbox up to its cursor but for mail on a
  further page of the history, which the code never asks for (`skipped`); recall shows
  only admitted objects in order; tiers follow age and links; no cursor passes unstored items, but for what does not fit in a
  batch (`passed`) and pages a crawl may not read. The exceptions are the code's: `orderly`, `skipped` and `passed` record exactly
  those cases, and everything else must be there.
- `AgentsSound`: committed and reserved stay within the budget together; an answer is that of the first provider that
  did not fail, with a row for every try; runs are counted and an improvement is authorized once; a plugin has the effects it was granted.
- `CustodySound`: the in-memory guardian sends and mines only what was approved, once; authority at the gRPC boundary is
  current when it is used, and no path around a person moves anything.
- `RecordsSound`: damage to hashed fields is found; position, profit and durable row agree with
  the fills; committed offsets are handled.
- `StepsSound` (no step may): publish a Kalshi book the venue never had, report health without a recent
  tick, spend more on a YES leg with a limit than it was valued at, move an ingestion cursor back, dispatch a stopped automation, run a revoked plugin.

The conditions of `ComponentsLive`: `MailFiled` excepts mail that cannot be parsed, or that stands behind such mail in its
mailbox, and mail the cursor passed on a further page; it assumes that the notifications that fail for ever are now and then all in their
backoff, without which they are always claimed first. `EverythingCommitted` assumes a consumer that is started again after each
stop, and stops at the first message its caller refuses.

**Bounds.** Two threads, services, workers or calls are the smallest number that race;
two intents on one market, or two proposals on one chain, the smallest that share
a row, nonce or limit. Reconciliation needs two passes and a budget of two so that a pass
can be stale by one attempt, and a slow order can arrive between the last query and the verdict.
Two crashes allow a crash during the recovery from a crash. A rebalance hands over a
record that is still being worked on; a second one adds only a repetition. `MaxContents` 2 counts
the contents a detection may find: one after the first is both the refresh of an open chain and the redetection of a closed one. Finding
the same contents again is not bounded, and each time moves the deadline. One
failure suffices to stop the feed or to interrupt the outbox at any of its
three steps. In `Components` an instance has two of whatever races (calls,
workers, presses, loaders), a capacity or limit of one or two so that it is met, and a clock that reaches past every
deadline once; a mailbox whose history comes in pages of one or two of its two messages, and sets of what is
unparsable (`Poisons`) or refused (`RefusedSets`) that include none and some; venues make three changes, so that a gap can be followed by a snapshot and another change.
Counters bounded only to keep the state finite are `MaxTime`, `MaxQueryErrors`,
`MaxCrashes`, `MaxRebalances`, `MaxLost`, `MaxEvictions`, `MaxContents`, `MaxFailures`, `MaxFaults`, `MaxChanges`,
`MaxSessions`, `MaxSends`, `MaxRuns`, `MaxNights`, `MaxDays` and their like in the components.
Symmetry is used only in runs without liveness.

**Deadlock** is checked where the bounds leave something to do for ever. It is off
(`CHECK_DEADLOCK FALSE`) in the guardian's, the lifecycle's and the components' runs: once the proposals are settled,
or every chain of the bounded instance is closed and every call is over, the system
really has nothing to do; a task that gave up or a request that is answered ends.

**Fairness.** Router: adapters and queries time out, so a thread or a pass that has started goes on (weak); an
order that is asked for again and again is answered some of the time, and its audit accepted
(strong). No pass has to start: that orders are resolved is stated under `PassesGoOn`, that a caller starts passes again and
again while orders are unknown. Paper: the supervisor restarts a process, the group assigns the partition, a
running process progresses; nothing makes a client ask, and nothing makes a book suit an intent: `IntentsPublished` has that as its
premise, for the intent and those before it. Guardian: `run_once` visits every due
proposal and job each cycle (strong, since other work intervenes), deadlines pass and blocks
are made; nobody has to propose, approve or ask. Lifecycle: a scanner cycles every 500 ms and is
restarted, and a cycle detects each of its finitely many pairs once before it flushes and sweeps (strong, since detections
intervene); deadlines pass; for `EveryChainCloses` also a running consumer delivers and a
call goes on or fails. Detections are not bounded, so that a chain which is found again for ever stays scored: `DetectionsSettle`
promises its end only where `FoundAgain` happens finitely often. Humans are never fair. `ComponentsLive`: a claimed notification is
worked on, and one that can be claimed again and again is; the OCR loop goes on; the bus's consumer goes on while it runs, its restart is
the premise of the property; providers push in the end, backoffs,
leases and the breaker's open time end, and the quarantine topic accepts a message after a while; faults are
finitely many and nothing obliges them to occur.

Every property has a mutant in `PROJECT.json`: a change of one definition that a plausible
bug would make (a wrong state compared, a guard dropped, an off-by-one) and
that TLC then finds violated in the same run. The mutated forms stand before the definitions
they replace, marked `Mutant`.

## 4. Proofs

`OrderRouterProofs` proves, for any number of threads, passes, intents and venues and any limits,
ten theorems of the form `Spec => []Inv` (`ResolvedStays` is an action property). They rest on
`BreakerAssumption` and `RouterAssumption` only: the limits are naturals, positive where
the code requires it, and read-only venues have no order adapter.

The properties are not inductive, so each rests on a strengthening:

- `TypeInv` adds to `TypeOK` which thread is at which stage with which work and result
  (`StageOK`): without it nothing is known of the intent a thread handles.
- `IdempotencyInv` adds *ownership*: an intent in processing has exactly one thread that works
  on it, and only that thread has not yet produced its effect. `AtMostOneEffect`
  alone says nothing about the thread that is about to dispatch.
- `ProbeInv`: a half-open breaker with its probe out has a thread between permission and
  report. It needs that no report leaves a breaker half open (`RecordType`) and
  that permission is given once (`AllowType`).
- `ReconInv` relates what a pass carries (snapshot attempts, sighting) to the map it will
  write: stale attempts never exceed the counter, and a sighting was true of the venue and
  the venue never goes back.
- `AuditInv` says which gates a thread at a stage has passed, with their events.
- `ExposureInv` extends ownership to the order on its way: a thread that
  has an answer knows whether the order can still reach the venue.
- `CapacityInv` needs finiteness of the intents in processing, to count them.

Each of these has an `Init` lemma, a `Next` lemma with one step per action, and a
theorem that combines them with PTL.

`PaperExecutionProofs` does the same for any services, callers, intents and markets, any topic
and any bounds, from `PaperAssumption`. Its invariants build on each other:

- `DurableInv`: a process that passed the insert holds the key of an intent without a row
  (`WriterOK`), so a commit never meets one; and what a process will answer
  is the stored execution, whichever of the three ways it took (`ResultOK`).
- `OutboxInv`: what is sent is committed and sent in order (`SentOK`); a fill that a flush did not
  read was sent before (`FlushOK`). The second is what makes an empty list
  at `Return` mean "all on the bus", although other processes commit, send and mark in between.
- `LedgerInv`: a service knows of no unstored execution but the one it is about to store.
- `PositionInv`: a position read before the upsert counts no more than is stored, even where
  no row could be locked. That it counts no less holds only for markets with a row: `PaperPositions`.
- `OffsetInv`: the owner of the partition is idle at the committed offset or works on the record after
  it, and acknowledges only when that record's intent is complete.

`Refinement` shows from `OutboxInv` that `Spec` implies the abstract `DurableExecution`:
`executed` is the durable order, `onBus` the events sent for it, `Commit` executes,
`Send` publishes, `Return` answers, and every other statement, crash and rebalance is a
stutter. `DurableExecution` carries `Promise`: all callers of an intent are told of one
execution, whose fills, and no others, are then on the bus. `OneAnswer` combines the two.

`SeededPositionsAlways` is the positive half of `PaperPositions`. It rests on the row lock (`SeededOK`): on a market
with a row, whoever is between the read and the commit holds the lock of the row and has read what
the row still says. The position then *equals* the stored fills, where `PositionInv` only bounds it.

`WalletGuardianProofs` covers any workers and proposals, any values and limits, from `GuardianAssumption`:
proposals are finite (they are counted and summed), amounts and limit naturals.

- `ApprovalsPrecedeChain`: `ApprovedBeforeChain` needs how an approved state is reached (`ApprovalGiven`) and what the stage of a
  worker says of the job in its hands (`StageOK`): a worker that comes back late only acts on
  a job that exists, and only finishes one whose transaction the chain has finished.
- `RecordsAreTrue`: from the same invariant, with no more than that chain states do not go back from mined or reverted.
- `NoncesNeverShared`: `PreparedLast` says that at most one job is prepared and that it holds the last nonce. Only
  therefore may a job that is abandoned before it was sent give its nonce back.
- `NoncesWithoutGap`: `FetchedTaken` says that what a worker read as the pending nonce is still a bound on holes when it
  signs, by `TakenStays`: without evictions a nonce leaves the pool only to be mined. The property
  itself says `evictions = 0`, as the code does not fill holes that an eviction makes.
- `LimitNeverExceeded`: the usage is a sum over a set. `SumCountsUnits` shows that it equals the cardinality of a set of units,
  one per dollar, by taking a smallest set for which it would not (`SmallestSubset`,
  from the library's well-founded order on finite subsets; no induction theorem with an operator parameter is needed). Two action lemmas
  carry the rest: a proposal only starts to reserve by its verdict (`ReservesByVerdict`) and an evaluation begins
  alone with the usage of that moment (`EvaluatesAlone`), so that the usage it saw is never below the present one.

`OpportunityLifecycle` ends with theorems for any keys, chains, legs, calls and approvals, from `LifecycleAssumption`.

- `ChainsAreUnique`: a chain only opens by a detection that found none of its key open (`OpensAlone`).
- `OutcomesAlwaysAgree`, `ExecutionsAreExact`: together one invariant. `CallsAccepted` relates a call at its legs to the row: the
  chain is accepted or executed, the edition is still that of the call's snapshot, and the legs before the one it stands at
  have fills; `ShownSurfaced` keeps the sweep away from what a human saw.
- `ApprovalsAreFinal`: an action property; each step leaves settled references as they are.

`GuardianAccess` ends with `AccessIsSound`, for any calls, grants, sessions and transactions, from `AccessAssumption`. Its
invariant `AccessInv` has one part for each thing the boundary promises. The harder ones:

- `AuthorityInv`: `AuthorityHeld` says that nothing in the log stands on a grant or a session that an earlier entry ended, although
  every call read them long before. It needs `EndedLogged`: an entry that ends something names what is ended now, and the
  transaction that records a call's work looks again that its grant and its session are not.
- `ReferenceInv`: the used references and the recorded approvals are equally many at every step, so both sets are
  kept finite and every step that adds to the one is shown to add to the other, and nothing else adds to either.
- `CodesInv`: a pending step-up has tries left (`TriesLeft`), which is why the last wrong code has to fail it and why
  `CodesBounded` holds when several calls answer the same step-up.

`ApprovalReferences` ends with `ApprovalsAreSound`, for any references, callers, targets and limits. `AnsweredOnce` and `OnePending` need what
a call knows between two of its statements. `LimitNearlyHeld` is a counting argument: `Within(t)` is what was created in the
hour before `t`, `Armed` the callers that have counted fewer than the limit and not inserted yet. Their
numbers together never exceed `Most`, the limit plus all but one of the callers: a caller that counts adds itself only
where there is room, one that inserts moves from the one set to the other.

`ComponentProofs` has the theorems about other components. A component is there as an instance, and a theorem about it
has the assumption its module states (`...Assumption`) and no other.

- `CommitCoversWork` (`BusDelivery`). `LoopOK` says where the stored offset stands relative to the message in the
  loop's hands, and `HandledStays` that nothing in the log or the two sets is taken back.
- `CallbacksAreSound` (`OperatorCallback`). Grants only change under a press in flight, so `PressOK` keeps the most authority its presser
  has had since it began (`held`) and asks for that, and no more, at each stage.
- `AllowedOnlyInside` and `StoresAreSound` (`AuthorityStores`). The first is a lemma about `evaluate` for every actor, grant and context: all that
  follows from the verdict "Allow". The second adds that the store's active version is the one it names and that a challenge that is
  not consumed has no use: that is what keeps a second use out.
- `AlertsAreSound` (`AlertDelivery`). Two sends of an alert the history answered for are further apart than the claim timeout
  (`Apart`): what was sent is older than the claim that is now held (`Older`, `ClaimOK`), since a claim is only taken over when it
  is stale. The passes in memory are the latest evaluations of this life of the process (`PassesOK`), so that counting them
  counts every window; a restart begins a new life.
- `ServiceIsSound` (`GuardianService`). Nothing in the service confirms a nonce, so the only one it ever reserves is
  the first (`NonceInv`); retries replace one another in the node's pool and one transaction at most is mined. `SentOK` says of
  it what was true when its broadcast began.
- `GatewayIsSound` (`GatewaySession`). The two counters are the cardinalities of the sets of open and of subscribed connections, whatever
  path ends a connection. `WaitingOK` ties a pending confirmation to the reference it was issued with, which no
  authorization names yet.
- `OrdersAreSound` (`VenueOrders`). `Keeps`, for each client and its bucket: from any request to the last, the number of requests plus the tokens
  that are left is at most the capacity plus what the bucket gained since. `BudgetHeld` for two requests alone is not inductive, as it says nothing of
  the tokens. `RequestFits` bounds how often a request was taken by its stage.
- `FeedsAreOrderly`, `HealthIsTruthful` (`VenueFeed`). What was read, what is in the second channel and what is in the first make up `1..made`, as
  sequences (`OnTheWay`); a relay that ended while its caller is there has nothing left to bring. The tick time a pack
  answers with is that of the last tick made (`TickKept`).
- `ItemsAreAccountedFor` (`AlpacaStream`). Each item of the last frame is published, preserved or still in the task's hands.
- `BooksAreFaithful` (`KalshiStream`, an action property). `OnTheWire`: the messages under way are numbered without a hole and each starts
  from where the one before it leads. `BookOK`: when no number is missing the book is the prefix the next message starts from; where one is
  missing the next message shows the gap; at the start of a session an old book only lives with a snapshot at the
  head of the wire.
- `AutomationsAreSound`, `StoppedIsStopped` (`Automations`). The worker that holds the row lock has the row as it is, and is alone
  (`WorkerOK`); the last slot in the row is the last one dispatched (`LastKept`).
- `PluginsAreSound`, `RevokedIsRevoked` (`PluginLifecycle`). The loader that holds the row lock has the approved row (`LoaderOK`), so a
  revocation waits for its run; effects stay inside what was granted (`EffectsOK`).

With these, every conjunct of `AuthoritySound` and `OperatorsSound` and of `CustodySound` is a theorem about its component for all
constants, and so are the conjuncts of `VenuesSound`, `StreamsSound`, `AgentsSound`, `RecordsSound` and `StepsSound` that
belong to the components named above. `MCComponents` itself fixes the constants and runs one component at a time; a theorem about
it would say less than these. It states each component's assumption of its own constants as an ASSUME, which TLC evaluates.

TLC agreed to each property before it was proved, and for `OrderRouter`, `PaperExecution`, `WalletGuardian` and `OpportunityLifecycle` to each inductive
invariant too. Every module of the first table states its type correctness; it is proved
and no property of a run, which is kept for what could go wrong. `CapacityHolds` is proved and no longer run.

Model-checked only:

- liveness (`GuardianLive`, `RouterLive`, `PaperRecovery`, `OpportunityLife`, `ComponentsLive`): fairness and ENABLED are out of
  the prover's reach;
- what counts or adds up over windows or data: `BudgetSound` (`SwarmBudget`), `RiskHeldStep` (`PaperRisk`), the polling breaker's window
  (`HyperliquidStream`, whose threshold is a cardinality over a sliding set of times), `AccountsSound` of `PaperAccounts`, the walks of
  `EdgeDecomposition`, the chain of `AuditChain`: what they compute is a fold or a recursive function of the data, and there is no
  induction over data;
- components that are functions of bounded inputs (`VenueNormalization`, `VenueListing`, `RecallFusion`, `Backtest`, `EdgeSimulation`);
- those whose invariants have not been worked out: `PolymarketStream`, `VenueReplay`, `ScanCycle`, `BrainPipeline`,
  `BrainTiering`, `InboxQueue`, `IngestFleet`, `ScreenshotOcr`, `LlmRouting`.

No module declares a RECURSIVE operator, so each can be proved about.

## 5. What the checks found

Disagreements between the code and what the repository says of it; `PROJECT.json` has the lines.

1. `RouterRestart`: the idempotency table and the reconciler live in memory; SPEC-006 says no
   in-memory truth and recovery by the reconciler after any restart.
2. `PaperPositions`: `SELECT ... FOR UPDATE` locks nothing while a market has no
   position row, so two first executions start from nothing and the second upsert drops the fills
   of the first.

The following are stated as properties of the component's module and do not hold there; each can be
seen with a small configuration of that module; the temporal ones among 3, 4 and 20 with its
fair specification (`BusySpec` for 3).

3. `EveryChainCloses` (`OpportunityLifecycle`): the sweep takes only unseen chains and nothing in production
   closes an executed one, against SPEC-012's TTL on every state. An open chain also keeps its
   dedupe key, so its legs are never detected afresh.
4. `Reconnects` (`PolymarketStream`): a half-open breaker whose one connection ends without
   an outcome never admits another.
5. `ExpiredNeverActs` (`WalletGuardian`): the worker sends on an expiry checked before.
6. `GreetingIsNoRefusal` (`AlpacaStream`): the venue's greeting is taken for a refusal.
7. `RevocationImmediate` (`GatewaySession`): a connection keeps the session it was opened with.
8. `ProbeAgain` (`VenueOrders`): a probe that ends in an error of the transport leaves the breaker half open
   for good.
9. `AttemptsComplete` (`ApprovalReferences`): the exception for a denied attempt rolls it back.
10. `NeverUnderestimated`, `InventoryCovered` (`PaperRisk`): a market order is valued at the quote though it fills
    beyond it; one position covers sales of either outcome.
11. `CutsCounted` (`ScanCycle`): pairs above the cap are not counted.
12. `SteepPastTwice` (`EdgeSimulation`): the staleness penalty is constant past the double.
13. `RetriedStageRuns`, `NotBeforeIndex` (`BrainPipeline`): a run resumed at `link` lacks the summary; the nightly
    job makes unindexed objects recallable.
14. `OneSynthesis`, `ResolvedGoCold`, `OpenMarketsStayHot` (`BrainTiering`): roll-ups are made again every night.
15. `ContextEndsChain` (`LlmRouting`): a context error in other words falls back.
16. `NothingSkipped` (`IngestFleet`): items that do not fit a batch are passed over.
17. `BroadcastNoncesDistinct`, `AskedInTime` (`GuardianService`): nonces of the in-memory service are used twice; a
    request is built after its approval expired.
18. `DamageFound` (`AuditChain`): the payload hash is not hashed.
19. `RecordedReplays` (`VenueReplay`): Hyperliquid recordings do not replay, appended Kalshi runs show a gap.
20. `UnknownsResolved` (`OrderRouter`): an unknown order is resolved by a pass only, and no process starts one.

Remarks, seen while modelling and not the subject of a run:

- Router: the events of an accepted or unknown submission are emitted after the venue has answered
  (router.rs:292, 313), so an audit outage leaves an open order without one although EP-305
  asks for an event per state change. An audit error inside a pass abandons the rest of its
  snapshot (router.rs:450). Errors of an adapter other than a timeout are taken to mean that
  nothing was placed. "Open" is not a resolved state, so
  an order seen open can later be recorded as not found by the older answer of another pass.
- Breaker: an outcome of a request sent before the breaker opened decides its half-open state.
- Paper: the outbox is drained at start-up and after an execution only; an intent the ledger
  refuses (ledger.rs:130, no liquidity, a limit violated, an overflow) ends the process before its offset is committed and is met again after
  each restart (`Refuse`), so those behind it on its partition wait for a book that suits it.
- Guardian: with the RPC node down for ever a prepared job stays prepared and its proposal
  approved; a late transaction of an abandoned job may use a nonce given back;
  the replacement of stuck transactions in SPEC-010 is not implemented.
- Approvals: `consume` raises inside its transaction, which undoes the denied attempt and the
  expiry it recorded just before (approvals.py:299-317), against EP-308's "audited on every
  response attempt". The rate limit is counted without a lock.
- More properties that are stated and false, without a document that says otherwise: `SlotOnce` (`Automations`: only the
  last slot is remembered), `RunOnce` (`PluginLifecycle`: a denied call is made again), `NoStarvation` and
  `TextIndexed` (`ScreenshotOcr`: unreadable screenshots fill a batch; a restart leaves an object at intake),
  `BatchesStored` (`IngestFleet`: a slow batch is always cut off), `CommittedIsDelivered` (`AlertDelivery`),
  `FailedIsNotDone` (`OperatorCallback`), `RecentDamageFound` (`AuditChain`), `TakenIsRecorded` (`GuardianService`).
- Guardian access: an allowlist entry that is removed from the environment stays in force until the next start; the price may
  be older than its limit when the proposal is committed.
- Inbox: only the first page of a Gmail history is read while the cursor passes all of it, and a message that cannot be parsed
  blocks its mailbox.
- Kalshi and Alpaca: two clients in one process have a token bucket and a breaker (or count) each, so that the pack may send twice
  `rest_per_min`, and one client goes on while the other is stopped.
- Alerts: an alert that is sent while the history fails updates the row of its new id, and there is none.
- Lifecycle: the frame carries the payload of the first detection (the outbox row) while the row may have
  been refreshed since, so a human can accept contents other than those shown. The
  gateway's consumer stops for good on its first error. A scanner exits when an open
  chain closes between its insert and its select.

## 6. What is abstracted

- Times are orders of events: deadlines may pass at any later point. The guardian's 24 h
  windows are one window; retry delays are left out; the sweep's `now` from the start of
  a cycle only delays an expiry.
- One chain of the guardian, one partition of `orders.intents`: others are independent.
- The detection outbox is published in any order: chains do not depend on each other.
- Grants of actors do not change; tier 5 actors are the `Direct` calls.
- An approval bound to another actor, channel or action is a denied answer, which
  changes nothing; step-up references belong to the guardian's model.
- In the router, paper, guardian and lifecycle modules: prices, sizes, fees, edges and formatted text. In the components that compute with them,
  amounts are small integers in units in which the code's divisions are exact, so rounding at the 28th digit and
  overflow of decimals are not modelled.
- Hashes, signatures and encodings stand for what they are computed from.

### Not modelled

Key derivation, signing, RLP and the WalletConnect relay (cryptography and an external protocol); the live-flip ceremony of
the order router; account, position, funding and candle queries of the venues (one request, one answer); robots
rules, parsers, extractors, embeddings and language models (their results are inputs); provider subscriptions of the
inbox; the parts listed above without state. Which intents a book fills is a free choice (`tradable`) that stands for the
ledger's errors: no liquidity, a limit violated, an amount that is invalid or overflows. Two different intents with one id. `PROJECT.json` gives the reason for each component.

## 7. Plan

The components the repository names are modelled as far as the table of section 2 says. Next:

1. Theorems: `BookCatchesUp` of `PolymarketStream`, `ForwardStep` of `IngestFleet`, `BudgetSound` of `SwarmBudget` (with the sums of
   `WalletGuardianProofs`).
2. Lemmas on pure operators: `CircuitBreaker`, `EdgeDecomposition` (a walk takes no more than it is offered).
3. An abstract `LiveOrder` (requested, exposed, resolved) that `OrderRouter` refines.
4. Liveness of further components: feeds that reconnect, alerts that are delivered, proposals of the gRPC boundary.
5. Composition: `ApprovalReferences` in place of the references of `OpportunityLifecycle` and `WalletGuardian`,
   `BusDelivery` in place of the offset actions of `PaperExecution`.
