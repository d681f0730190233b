---------------------------- MODULE MCComponents ----------------------------
(***************************************************************************)
(* The components beside the routers, the paper loop, the guardian's       *)
(* worker and the opportunity's life, for TLC.  A behaviour belongs to one *)
(* component, its focus, which stays what it was chosen to be: the states  *)
(* of this specification are the states of all of them side by side, and a *)
(* property of a component is stated of the states it is the focus of.     *)
(* Since one component has the floor, they share the variables v1 .. v17;  *)
(* the instances say what each of them stands for.                         *)
(***************************************************************************)
EXTENDS Integers, Sequences, TLC

CONSTANTS Focus,          \* names of the modules to be checked
          InboxWorkers,   \* workers of the inbox
          a1, a2, b1, b2, c1, g1, m1, m2

VARIABLES focus, v1, v2, v3, v4, v5, v6, v7, v8, v9, v10, v11, v12, v13, v14, v15, v16, v17

shared == <<focus, v1, v2, v3, v4, v5, v6, v7, v8, v9, v10, v11, v12, v13, v14, v15, v16, v17>>

\* What a component of n variables leaves unused.
Unused14 == v15 = 0 /\ v16 = 0 /\ v17 = 0
Unused13 == v14 = 0 /\ Unused14
Unused12 == v13 = 0 /\ Unused13
Unused11 == v12 = 0 /\ Unused12
Unused10 == v11 = 0 /\ Unused11
Unused9 == v10 = 0 /\ Unused10
Unused8 == v9 = 0 /\ Unused9
Unused7 == v8 = 0 /\ Unused8
Unused6 == v7 = 0 /\ Unused7
Unused5 == v6 = 0 /\ Unused6
Unused4 == v5 = 0 /\ Unused5
Unused3 == v4 = 0 /\ Unused4
Unused2 == v3 = 0 /\ Unused3

Spare14 == <<v15, v16, v17>>
Spare13 == <<v14, Spare14>>
Spare12 == <<v13, Spare13>>
Spare11 == <<v12, Spare12>>
Spare10 == <<v11, Spare11>>
Spare9 == <<v10, Spare10>>
Spare8 == <<v9, Spare9>>
Spare7 == <<v8, Spare8>>
Spare6 == <<v7, Spare7>>
Spare5 == <<v6, Spare6>>
Spare4 == <<v5, Spare5>>
Spare3 == <<v4, Spare4>>
Spare2 == <<v3, Spare3>>

-----------------------------------------------------------------------------
(* Values of the constants.                                                *)

Level(price, size) == [price |-> price, size |-> size]
Book(bids, asks) == [bids |-> bids, asks |-> asks]

\* A deep book and a steep one, one without bids, one with an empty level.
BookSet ==
  LET asks == <<Level(6000, 1), Level(6400, 2)>> IN
    {Book(<<Level(5800, 1), Level(5500, 2)>>, asks), Book(<<Level(5800, 4)>>, <<Level(6000, 1)>>),
     Book(<< >>, asks), Book(<<Level(5800, 0)>>, asks)}

Legs == {[side |-> "buy", size |-> 1, limit |-> 5200], [side |-> "buy", size |-> 2, limit |-> 0],
         [side |-> "sell", size |-> 1, limit |-> 4900], [side |-> "sell_no", size |-> 1, limit |-> 0]}
LegQuotes == {[bid |-> 5000, ask |-> 5100, size |-> 1, age |-> 0, open |-> TRUE, enabled |-> TRUE],
              [bid |-> 0, ask |-> 5100, size |-> 0, age |-> 6, open |-> TRUE, enabled |-> FALSE]}
Caps == {[order |-> 10250, daily |-> 15250]}

\* Two venues have the event, a third has another one.
ScanVenue == <<"kalshi", "polymarket", "alpaca">>
ScanEvent == <<"e", "e", "f">>
ScanQuotes == {[bid |-> 5000, ask |-> 5100], [bid |-> 6000, ask |-> 6100], [bid |-> 6000, ask |-> 0]}
ScanBooks == {Book(<<Level(5900, 2)>>, <<Level(5200, 2)>>)}

\* The first message has an attachment.
MailParts == [m \in 1 .. 2 \cup {g1} |->
  IF m = 1 THEN <<<<m, "mail">>, <<m, "attachment">>>> ELSE <<<<m, "mail">>>>]
MailHash == [m \in 1 .. 2 \cup {g1} |-> m]

\* Everything can be read, or not an attachment; with one worker, also not a
\* whole message of either mailbox.
MailPoisons ==
  {{}, {<<1, "attachment">>}}
    \cup (IF InboxWorkers = {b1} THEN {{<<2, "mail">>}, {<<g1, "mail">>}} ELSE {})

SourceKinds == {a1 :> "rss" @@ a2 :> "review", a1 :> "json" @@ a2 :> "crawl"}

Fallbacks == [default |-> <<"cheap", "local">>, cheap |-> <<"local">>, local |-> << >>]

Manifest(caps, hosts, deps, lock, module) ==
  [named |-> TRUE, caps |-> caps, hosts |-> hosts, deps |-> deps, lock |-> lock, module |-> module]
PluginManifests ==
  LET reads == <<"read_markets">>  trades == <<"read_markets", "execute_paper">> IN
    {Manifest(reads, {}, {"d1"}, {"d1"}, "reader"), Manifest(trades, {}, {"bad"}, {"bad"}, "trader"),
     Manifest(<<"network_http">>, {"host"}, {}, {}, "reader"), Manifest(trades, {}, {}, {"d1"}, "trader"),
     Manifest(reads \o reads, {}, {}, {}, "reader"), Manifest(reads, {}, {}, {}, "trader")}
PluginModules ==
  [reader |-> [calls |-> <<"read_markets">>, traps |-> FALSE],
   trader |-> [calls |-> <<"read_markets", "execute_paper">>, traps |-> FALSE],
   socket |-> [calls |-> <<"network_http">>, traps |-> FALSE]]

\* Within the limits, above the daily one, and not permitted.
Transfers ==
  {[value |-> 0, permitted |-> TRUE, simulates |-> TRUE, fee |-> 1, tip |-> 1],
   [value |-> 3, permitted |-> TRUE, simulates |-> TRUE, fee |-> 1, tip |-> 0],
   [value |-> 0, permitted |-> FALSE, simulates |-> TRUE, fee |-> 1, tip |-> 2]}

\* A human's two grants, one of them without scopes, and an agent's.
AccessGrants ==
  <<[actor |-> "u", kind |-> "human", tier |-> 5, scopes |-> {"guardian.approve", "guardian.transfer"}],
    [actor |-> "u", kind |-> "human", tier |-> 5, scopes |-> {}],
    [actor |-> "bot", kind |-> "agent", tier |-> 4, scopes |-> {"guardian.transfer"}]>>
AccessSession == [s \in {c1} |-> [user |-> "u", tier |-> 4, origin |-> "human"]]
AccessTransfer(data, amount, asset) ==
  [ok |-> TRUE, tip |-> 1, fee |-> 1, data |-> data, amount |-> amount, decimals |-> 2,
   to |-> "d", asset |-> asset, chain |-> 1, wei |-> IF data = "none" THEN amount ELSE 0]
AccessTransfers == {AccessTransfer("none", 0, "native"), AccessTransfer("transfer", 1, "token")}
AccessListings == {[to |-> "d", data |-> "transfer"], [to |-> "d", data |-> "none"]}

\* A part of an order, all of it at once, and all of it in two fills.
LedgerFill(price, size, fee) == [price |-> price, size |-> size, fee |-> fee]
LedgerWalks == {<<LedgerFill(3600, 1, 7)>>, <<LedgerFill(7200, 2, 5)>>,
                <<LedgerFill(3600, 1, 1), LedgerFill(7200, 1, 1)>>}
LedgerIntents == {[side |-> side, size |-> 2] : side \in {"buy", "sell"}}

-----------------------------------------------------------------------------
(* The instances.                                                          *)

(* The venue packs: streams, REST clients, listings, recordings.           *)

Kalshi == INSTANCE KalshiStream WITH
       role <- v1, conn <- v2, attempt <- v3, failures <- v4, last <- v5, book <- v6,
       published <- v7, blind <- v8, changes <- v9, wire <- v10, sent <- v11, lost <- v12,
       faulty <- v13, sessions <- v14,
       MaxChanges <- 3, MaxLost <- 1, MaxFaulty <- 1, MaxSessions <- 2, Threshold <- 2

Polymarket == INSTANCE PolymarketStream WITH
       role <- v1, conn <- v2, breaker <- v3, attempt <- v4, book <- v5, todo <- v6,
       seen <- v7, published <- v8, missed <- v9, venueBook <- v10, wire <- v11,
       messages <- v12, faulty <- v13,
       Levels <- {1, 2}, MaxMessages <- 3, MaxFaulty <- 1

Alpaca == INSTANCE AlpacaStream WITH
       conn <- v1, attempt <- v2, failures <- v3, inbox <- v4, todo <- v5, frame <- v6,
       items <- v7, published <- v8, preserved <- v9, refused <- v10,
       Symbols <- {a1, a2}, MaxItems <- 3, MaxBatch <- 2, Threshold <- 2, Welcomes <- TRUE

Hyperliquid == INSTANCE HyperliquidStream WITH
       role <- v1, pc <- v2, breaker <- v3, attempt <- v4, now <- v5, todo <- v6, anyOk <- v7,
       rounds <- v8,
       Tickers <- {a1, a2}, MaxTime <- 7, Threshold <- 3, ErrorWindow <- 4, ResetTimeout <- 2

Normalization == INSTANCE VenueNormalization WITH
       message <- v1, result <- v2,
       Numbers <- {0, 1, 3}, One <- 2, MaxLevels <- 2

Listing == INSTANCE VenueListing WITH
       venue <- v1, catalogue <- v2, removed <- v3, phase <- v4, offset <- v5, todo <- v6,
       sent <- v7, quarantined <- v8, missed <- v9, told <- v10, listening <- v11,
       payouts <- v12, asked <- v13, degraded <- v14, market <- v15, reply <- v16,
       answer <- v17,
       MaxMarkets <- 3, PageSize <- 2, MaxPayout <- 2

Feed == INSTANCE VenueFeed WITH
       feed <- v1, value <- v2, answers <- v3, got <- v4, made <- v5, lastTick <- v6,
       now <- v7, tickAt <- v8, probe <- v9, health <- v10,
       Feeds <- {a1, a2}, Books <- {a2}, Capacity <- 1, MaxMessages <- 2, MaxTime <- 3

Client == INSTANCE VenueOrders WITH
       venue <- v1, breaker <- v2, failures <- v3, bucket <- v4, now <- v5, req <- v6,
       taken <- v7, sends <- v8,
       Requests <- {a1, a2}, Threshold <- 2, ErrorWindow <- 2, ResetTimeout <- 1, Capacity <- 2,
       Rate <- 1, MaxRetries <- 1, MaxTime <- 1, MaxSends <- 3

Replay == INSTANCE VenueReplay WITH
       venue <- v1, author <- v2, changes <- v3, number <- v4, run <- v5, recording <- v6,
       faults <- v7, joined <- v8, bus <- v9, sends <- v10,
       MaxChanges <- 2, MaxItems <- 3, MaxRuns <- 2, MaxLost <- 1, MaxSends <- 1

(* Authority, the gateway, the bus, the operators.                         *)

Stores == INSTANCE AuthorityStores WITH
       store <- v1, now <- v2, grant <- v3, versions <- v4, active <- v5, challenges <- v6,
       lockout <- v7, session <- v8,
       Users <- {"alice", "bob"}, Holder <- "alice", ChallengeActions <- {"ActivateCaps", "SubmitLiveOrder"},
       Amounts <- 1 .. 2, StepUpValidity <- 1, IdleExpiry <- 2, MaxLockout <- 3,
       MaxTime <- 3, MaxVersions <- 3, MaxChallenges <- 2, MaxFailures <- 2

Gateway == INSTANCE GatewaySession WITH
       now <- v1, session <- v2, grants <- v3, conns <- v4, connectionCount <- v5,
       subscriptionCount <- v6, issued <- v7, authorized <- v8,
       Conns <- {a1, a2}, MaxTime <- 2, Validity <- 1, IdleExpiry <- 2, FeedCapacity <- 1, MaxIssued <- 1

Bus == INSTANCE BusDelivery WITH
       log <- v1, sends <- v2, sending <- v3, breaker <- v4, pc <- v5, position <- v6,
       pending <- v7, stored <- v8, committed <- v9, raw <- v10, meta <- v11,
       processed <- v12, crashes <- v13, refused <- v14,
       MaxSends <- 2, MaxAttempts <- 2, MaxCrashes <- 2, RefusedSets <- {{}, {2}}

Approvals == INSTANCE ApprovalReferences WITH
       store <- v1, now <- v2, row <- v3, call <- v4, prompted <- v5, attempts <- v6,
       answers <- v7, effects <- v8,
       Refs <- {a1, a2}, Callers <- {b1, b2}, Targets <- {c1}, Limit <- 1, Hour <- 1, Ttl <- 1, MaxTime <- 1

Alerts == INSTANCE AlertDelivery WITH
       now <- v1, crashes <- v2, committed <- v3, task <- v4, seen <- v5, passes <- v6,
       row <- v7, sent <- v8, evaluated <- v9, unclaimed <- v10,
       Opportunities <- 2, RateLimit <- 1, RateWindow <- 1, DedupTtl <- 3, ClaimTimeout <- 1,
       MaxTime <- 2, MaxCrashes <- 1

Callback == INSTANCE OperatorCallback WITH
       grants <- v1, state <- v2, press <- v3, changes <- v4,
       Presses <- {a1, a2}, Grants <- {b1}, Tiers <- {3, 5}, MaxChanges <- 1

(* Edges: the simulator, the paper risk check, the scanner, the back-test. *)

Simulation == INSTANCE EdgeSimulation WITH
       stage <- v1, ask <- v2, told <- v3,
       Prices <- {4000, 6000}, Sizes <- {0, 2, 3}, Ages <- {0, 3, 6}, Books <- BookSet

Risk == INSTANCE PaperRisk WITH
       grant <- v1, approval <- v2, caps <- v3, held <- v4, spent <- v5, call <- v6,
       Calls <- {a1, a2}, LegShapes <- Legs, Quotes <- LegQuotes, CapsSet <- Caps

Scan == INSTANCE ScanCycle WITH
       known <- v1, quotes <- v2, books <- v3, dirty <- v4, shed <- v5, cyclesShed <- v6,
       now <- v7, arrivals <- v8, emitted <- v9, cut <- v10,
       N <- 3, Venue <- ScanVenue, Event <- ScanEvent, Quotes <- ScanQuotes, Books <- ScanBooks,
       MaxPairs <- 2, ShedLevels <- {0, 4}, MaxArrivals <- 4, MaxTime <- 1

Test == INSTANCE Backtest WITH
       strategy <- v1, ticks <- v2, entry <- v3, book <- v4, report <- v5,
       Prices <- {100, 150, 250}, MaxTicks <- 5, Thresholds <- {100, 250}, Rates <- {0, 60}

(* The second brain: pipeline, inbox, recall, tiers, ingestion, screenshots.*)

Brain == INSTANCE BrainPipeline WITH
       row <- v1, chunks <- v2, draft <- v3, run <- v4, job <- v5, edition <- v6,
       faults <- v7, nights <- v8, orderly <- v9,
       Drafts <- {a1, a2}, Runs <- {b1}, MaxEditions <- 2, MaxFaults <- 2, MaxNights <- 1

Inbox == INSTANCE InboxQueue WITH
       mailbox <- v1, queue <- v2, cursor <- v3, seen <- v4, filed <- v5, worker <- v6,
       faults <- v7, poison <- v8, skipped <- v9,
       MaxMail <- 2, Graph <- {g1}, Parts <- MailParts, Hash <- MailHash, Poisons <- MailPoisons,
       PageSize <- 2, Workers <- InboxWorkers, MaxFaults <- 1

Recall == INSTANCE RecallFusion WITH
       call <- v1, admitted <- v2, ever <- v3, changes <- v4,
       MaxObject <- 3, Ks <- {1, 2}, Weights <- {50, 150}, MaxChanges <- 1

Tiers == INSTANCE BrainTiering WITH
       objects <- v1, resolved <- v2, days <- v3, nights <- v4, dropFailed <- v5,
       Markets <- {m1, m2}, Kinds <- {"news"}, StaleAfter <- [k \in {"news", "report"} |-> 2],
       HotDays <- 1, WarmDays <- 3, MaxObjects <- 2, MaxDays <- 4, MaxNights <- 1

Ingest == INSTANCE IngestFleet WITH
       kind <- v1, now <- v2, published <- v3, approved <- v4, enabled <- v5, stored <- v6,
       state <- v7, queue <- v8, inflight <- v9, worker <- v10, faults <- v11, passed <- v12,
       Sources <- {a1, a2}, Fleets <- SourceKinds, Workers <- {b1, b2}, Capacity <- 1, BatchSize <- 1,
       Interval <- 1, MaxDelay <- 2, MaxItems <- 2, MaxTime <- 1, MaxFaults <- 1, Refused <- {1}

Ocr == INSTANCE ScreenshotOcr WITH
       taken <- v1, clean <- v2, stage <- v3, batch <- v4, pc <- v5, faults <- v6,
       MaxShots <- 4, Limit <- 2, MaxFaults <- 1, Readable <- {1, 2, 4}

(* Agents: swarm, model routing, automations, plugins.                     *)

Swarm == INSTANCE SwarmBudget WITH
       worker <- v1, reserved <- v2, used <- v3, spent <- v4, overcharged <- v5,
       truncated <- v6, denied <- v7, findings <- v8, packet <- v9,
       MaxWorkers <- 4, Limits <- [calls |-> 2, tokens |-> 8, cost |-> 8], Price <- 1, Inputs <- {1, 5},
       Charges <- {[tokens |-> 3, cost |-> 3], [tokens |-> 4, cost |-> 2], [tokens |-> 5, cost |-> 5]}

Routing == INSTANCE LlmRouting WITH
       request <- v1, cache <- v2, redis <- v3, client <- v4, rows <- v5, faults <- v6,
       Requests <- {a1, a2}, Policies <- {"default", "cheap", "local"}, Chain <- Fallbacks,
       Configured <- {"default", "local"}, MaxFaults <- 1

Automation == INSTANCE Automations WITH
       now <- v1, grant <- v2, task <- v3, worker <- v4, dispatched <- v5, proposal <- v6,
       receipts <- v7,
       Workers <- {a1, a2}, MaxSlot <- 2, MaxRuns <- 2, MaxCost <- 4, CostPerRun <- 2

Plugin == INSTANCE PluginLifecycle WITH
       row <- v1, approval <- v2, loader <- v3, effects <- v4, runs <- v5, audit <- v6,
       Loaders <- {a1, a2}, Manifests <- PluginManifests, Modules <- PluginModules,
       TrustedSigners <- {"op"}, DeniedDeps <- {"bad"}, MaxLoads <- 2

(* Custody and records.                                                    *)

Guardian == INSTANCE GuardianService WITH
       now <- v1, available <- v2, proposal <- v3, pending <- v4, call <- v5, sends <- v6,
       pool <- v7, mined <- v8, client <- v9, wallet <- v10, requests <- v11,
       Proposals <- {a1, a2}, Transactions <- Transfers, Topics <- {c1}, MaxTime <- 1, ProposalTtl <- 1,
       ApprovalTtl <- 1, Ether <- 2, MaxSends <- 2

Access == INSTANCE GuardianAccess WITH
       now <- v1, serving <- v2, entries <- v3, allowed <- v4, ended <- v5, price <- v6,
       proposal <- v7, ref <- v8, wrong <- v9, call <- v10, log <- v11, changes <- v12,
       Calls <- {a1}, Grants <- {1, 3}, Grant <- AccessGrants, Sessions <- {c1}, Session <- AccessSession,
       ServiceActors <- {[actor |-> "bot", kind |-> "agent"]}, Transactions <- AccessTransfers,
       Proposals <- {b1}, References <- {b2}, Listings <- AccessListings, Decimals <- 2, Usd <- {0},
       Installed <- {[to |-> "d", data |-> "transfer"]}, Cooldown <- 1, PriceMaxAge <- 1, ReferenceTtl <- 1, ProposalTtl <- 1,
       ApprovalTtl <- 1, MaxReferences <- 3, Chains <- {1}, MaxFee <- 1, MaxAutoApprove <- 0,
       MaxWrongCodes <- 2, MaxTime <- 1, MaxChanges <- 2

Audit == INSTANCE AuditChain WITH
       events <- v1, nextSeq <- v2, anchors <- v3, damaged <- v4,
       Actions <- {"a", "b"}, Payloads <- {"p"}, MaxEvents <- 3, MaxAnchors <- 2

Accounts == INSTANCE PaperAccounts WITH
       orders <- v1, fills <- v2, position <- v3, mark <- v4, totalFees <- v5, outbox <- v6,
       published <- v7, failures <- v8, row <- v9, latest <- v10, opportunity <- v11,
       attributed <- v12,
       Orders <- {1, 2}, Intents <- LedgerIntents, Walks <- LedgerWalks, Mids <- {4800}, MaxFailures <- 1

(***************************************************************************)
(* What the theorems about these components ask of their constants.        *)
(***************************************************************************)
ASSUME StoresConstants   == Stores!StoresAssumption
ASSUME GatewayConstants  == Gateway!GatewayAssumption
ASSUME ApprovalConstants == Approvals!ApprovalAssumption
ASSUME AlertConstants    == Alerts!AlertAssumption
ASSUME CallbackConstants == Callback!CallbackAssumption
ASSUME ServiceConstants  == Guardian!ServiceAssumption
ASSUME AccessConstants   == Access!AccessAssumption
ASSUME OrderConstants    == Client!OrdersAssumption
ASSUME AutomationConstants == Automation!AutomationAssumption

-----------------------------------------------------------------------------
Init ==
  /\ focus \in Focus
  /\ \/ focus = "KalshiStream" /\ Kalshi!Init /\ Unused14
     \/ focus = "PolymarketStream" /\ Polymarket!Init /\ Unused13
     \/ focus = "AlpacaStream" /\ Alpaca!Init /\ Unused10
     \/ focus = "HyperliquidStream" /\ Hyperliquid!Init /\ Unused8
     \/ focus = "VenueNormalization" /\ Normalization!Init /\ Unused2
     \/ focus = "VenueListing" /\ Listing!Init
     \/ focus = "VenueFeed" /\ Feed!Init /\ Unused10
     \/ focus = "VenueOrders" /\ Client!Init /\ Unused8
     \/ focus = "VenueReplay" /\ Replay!Init /\ Unused10
     \/ focus = "AuthorityStores" /\ Stores!Init /\ Unused8
     \/ focus = "GatewaySession" /\ Gateway!Init /\ Unused8
     \/ focus = "BusDelivery" /\ Bus!Init /\ Unused14
     \/ focus = "ApprovalReferences" /\ Approvals!Init /\ Unused8
     \/ focus = "AlertDelivery" /\ Alerts!Init /\ Unused10
     \/ focus = "OperatorCallback" /\ Callback!Init /\ Unused4
     \/ focus = "EdgeSimulation" /\ Simulation!Init /\ Unused3
     \/ focus = "PaperRisk" /\ Risk!Init /\ Unused6
     \/ focus = "ScanCycle" /\ Scan!Init /\ Unused10
     \/ focus = "Backtest" /\ Test!Init /\ Unused5
     \/ focus = "BrainPipeline" /\ Brain!Init /\ Unused9
     \/ focus = "InboxQueue" /\ Inbox!Init /\ Unused9
     \/ focus = "RecallFusion" /\ Recall!Init /\ Unused4
     \/ focus = "BrainTiering" /\ Tiers!Init /\ Unused5
     \/ focus = "IngestFleet" /\ Ingest!Init /\ Unused12
     \/ focus = "ScreenshotOcr" /\ Ocr!Init /\ Unused6
     \/ focus = "SwarmBudget" /\ Swarm!Init /\ Unused9
     \/ focus = "LlmRouting" /\ Routing!Init /\ Unused6
     \/ focus = "Automations" /\ Automation!Init /\ Unused7
     \/ focus = "PluginLifecycle" /\ Plugin!Init /\ Unused6
     \/ focus = "GuardianService" /\ Guardian!Init /\ Unused11
     \/ focus = "GuardianAccess" /\ Access!Init /\ Unused12
     \/ focus = "AuditChain" /\ Audit!Init /\ Unused4
     \/ focus = "PaperAccounts" /\ Accounts!Init /\ Unused12

On(component) == focus = component /\ UNCHANGED focus

KalshiStep == On("KalshiStream") /\ Kalshi!Next /\ UNCHANGED Spare14
PolymarketStep == On("PolymarketStream") /\ Polymarket!Next /\ UNCHANGED Spare13
AlpacaStep == On("AlpacaStream") /\ Alpaca!Next /\ UNCHANGED Spare10
HyperliquidStep == On("HyperliquidStream") /\ Hyperliquid!Next /\ UNCHANGED Spare8
NormalizationStep == On("VenueNormalization") /\ Normalization!Next /\ UNCHANGED Spare2
ListingStep == On("VenueListing") /\ Listing!Next
FeedStep == On("VenueFeed") /\ Feed!Next /\ UNCHANGED Spare10
ClientStep == On("VenueOrders") /\ Client!Next /\ UNCHANGED Spare8
ReplayStep == On("VenueReplay") /\ Replay!Next /\ UNCHANGED Spare10
StoresStep == On("AuthorityStores") /\ Stores!Next /\ UNCHANGED Spare8
GatewayStep == On("GatewaySession") /\ Gateway!Next /\ UNCHANGED Spare8
BusStep == On("BusDelivery") /\ Bus!Next /\ UNCHANGED Spare14
ApprovalsStep == On("ApprovalReferences") /\ Approvals!Next /\ UNCHANGED Spare8
AlertsStep == On("AlertDelivery") /\ Alerts!Next /\ UNCHANGED Spare10
CallbackStep == On("OperatorCallback") /\ Callback!Next /\ UNCHANGED Spare4
SimulationStep == On("EdgeSimulation") /\ Simulation!Next /\ UNCHANGED Spare3
RiskStep == On("PaperRisk") /\ Risk!Next /\ UNCHANGED Spare6
ScanStep == On("ScanCycle") /\ Scan!Next /\ UNCHANGED Spare10
TestStep == On("Backtest") /\ Test!Next /\ UNCHANGED Spare5
BrainStep == On("BrainPipeline") /\ Brain!Next /\ UNCHANGED Spare9
InboxStep == On("InboxQueue") /\ Inbox!Next /\ UNCHANGED Spare9
RecallStep == On("RecallFusion") /\ Recall!Next /\ UNCHANGED Spare4
TiersStep == On("BrainTiering") /\ Tiers!Next /\ UNCHANGED Spare5
IngestStep == On("IngestFleet") /\ Ingest!Next /\ UNCHANGED Spare12
OcrStep == On("ScreenshotOcr") /\ Ocr!Next /\ UNCHANGED Spare6
SwarmStep == On("SwarmBudget") /\ Swarm!Next /\ UNCHANGED Spare9
RoutingStep == On("LlmRouting") /\ Routing!Next /\ UNCHANGED Spare6
AutomationStep == On("Automations") /\ Automation!Next /\ UNCHANGED Spare7
PluginStep == On("PluginLifecycle") /\ Plugin!Next /\ UNCHANGED Spare6
GuardianStep == On("GuardianService") /\ Guardian!Next /\ UNCHANGED Spare11
AccessStep == On("GuardianAccess") /\ Access!Next /\ UNCHANGED Spare12
AuditStep == On("AuditChain") /\ Audit!Next /\ UNCHANGED Spare4
AccountsStep == On("PaperAccounts") /\ Accounts!Next /\ UNCHANGED Spare12

Next ==
  \/ KalshiStep \/ PolymarketStep \/ AlpacaStep \/ HyperliquidStep \/ NormalizationStep \/ ListingStep
  \/ FeedStep \/ ClientStep \/ ReplayStep \/ StoresStep \/ GatewayStep \/ BusStep
  \/ ApprovalsStep \/ AlertsStep \/ CallbackStep \/ SimulationStep \/ RiskStep \/ ScanStep
  \/ TestStep \/ BrainStep \/ InboxStep \/ RecallStep \/ TiersStep \/ IngestStep
  \/ OcrStep \/ SwarmStep \/ RoutingStep \/ AutomationStep \/ PluginStep \/ GuardianStep
  \/ AccessStep \/ AuditStep \/ AccountsStep

Spec == Init /\ [][Next]_shared

-----------------------------------------------------------------------------
(* Safety.                                                                 *)

In(component, P) == focus = component => P

(***************************************************************************)
(* The streams of the venues: the book a Polymarket task holds catches up  *)
(* with the venue's when all messages are read; every item of an Alpaca    *)
(* frame is published, coalesced into a later one or preserved; a feed is  *)
(* given up only when it was bad (crates/aether-bus/src/retry.rs); and a   *)
(* recording replays into the books the venue had.                         *)
(***************************************************************************)
StreamsSound ==
  /\ In("KalshiStream", Kalshi!TypeOK)
  /\ In("PolymarketStream", Polymarket!TypeOK /\ Polymarket!BookCatchesUp)
  /\ In("AlpacaStream", Alpaca!ItemsAccountedFor)
  /\ In("HyperliquidStream", Hyperliquid!StopsOnlyWhenBad)
  /\ In("VenueReplay", Replay!ReplaySound)

(***************************************************************************)
(* The rest of a venue pack: a message is normalized exactly or refused, a *)
(* listing names every market once and quarantines what it cannot use,     *)
(* what a feed made reaches its caller in order, and each of a pack's REST *)
(* clients keeps its budget and repeats a request only when the venue      *)
(* cannot have taken it (normalize.rs, main.rs and client.rs of the        *)
(* packs).                                                                 *)
(***************************************************************************)
VenuesSound ==
  /\ In("VenueNormalization", Normalization!NormalizedExactly)
  /\ In("VenueListing", Listing!ListingsSound)
  /\ In("VenueFeed", Feed!TypeOK /\ Feed!NothingLostOnTheWay)
  /\ In("VenueOrders", Client!BudgetHeld /\ Client!SentOnce)

(***************************************************************************)
(* Authority: what evaluate() allows, which limits an order executes       *)
(* under, which challenges and confirmations are accepted, and how many    *)
(* connections and subscriptions the gateway counts (aether-authz,         *)
(* aether-gateway).                                                        *)
(***************************************************************************)
AuthoritySound ==
  /\ In("AuthorityStores", Stores!PolicySound /\ Stores!CapsOnlyTighten /\ Stores!ChallengesUsedOnce)
  /\ In("GatewaySession", Gateway!CountersExact /\ Gateway!ConfirmationsSound)

(***************************************************************************)
(* The operators' side: approval references are consumed once and for what *)
(* they were asked, an alert is sent at most once per claim and within the *)
(* rate limit, and a pressed button acts at most once and with the         *)
(* authority of its grant (server/alerts, server/actions).                 *)
(***************************************************************************)
OperatorsSound ==
  /\ In("ApprovalReferences", Approvals!ApprovalsSound)
  /\ In("AlertDelivery", Alerts!AlertsSound)
  /\ In("OperatorCallback", Callback!CallbacksSound)

(***************************************************************************)
(* Edges: a simulation fills both legs alike, its edge never improves with *)
(* depth or age and agrees with its table; a scan of what changed misses   *)
(* nothing a full scan would emit; the report of a back-test accounts for  *)
(* every purchase and sale (simulator, scanner, aether-agents).            *)
(***************************************************************************)
EdgesSound ==
  /\ In("EdgeSimulation", Simulation!SimulationSound)
  /\ In("ScanCycle", Scan!NothingMissed)
  /\ In("Backtest", Test!ReportExact)

(***************************************************************************)
(* The second brain: an indexed object has all its chunks and vectors,     *)
(* unless its run resumed without the text; mail that is marked as seen is *)
(* filed; recall returns only what its caller may see in the order of the  *)
(* fused scores; tiers follow age and links; and no cursor passes what is  *)
(* not stored, but for a further page of mail and what a batch leaves out  *)
(* (server/brain, inbox, ingest).                                          *)
(***************************************************************************)
BrainSound ==
  /\ In("BrainPipeline", Brain!IndexedIsComplete)
  /\ In("InboxQueue", Inbox!InboxSound)
  /\ In("RecallFusion", Recall!RecallSound)
  /\ In("BrainTiering", Tiers!TiersSound)
  /\ In("IngestFleet", Ingest!IngestSound)

(***************************************************************************)
(* Agents: a swarm stays within its budget, a request falls back along its *)
(* chain and its answer is cached under everything it depends on, an       *)
(* automation's slots and runs are counted once, a plugin runs as it was   *)
(* approved (server/swarm, server/llm_router, aether-agents,               *)
(* aether-plugin).                                                         *)
(***************************************************************************)
AgentsSound ==
  /\ In("SwarmBudget", Swarm!BudgetSound)
  /\ In("LlmRouting", Routing!RoutingSound)
  /\ In("Automations", Automation!AutomationsSound)
  /\ In("PluginLifecycle", Plugin!PluginSound)

(***************************************************************************)
(* Custody: the guardian's proposals, their approval and the nonce they    *)
(* are signed with, and who may propose, approve and commit (service.rs,   *)
(* grpc.rs of wallet-guardian).                                            *)
(***************************************************************************)
CustodySound ==
  /\ In("GuardianService", Guardian!GuardianServiceSound)
  /\ In("GuardianAccess", Access!GuardianAccessSound)

(***************************************************************************)
(* Records: a full verification of the audit chain finds every change after *)
(* the genesis to what an event's hash covers, the paper ledger's position, *)
(* profit and row agree with its fills, and the offset a consumer commits   *)
(* is behind what it has handled (aether-audit, paper-ledger, aether-bus).  *)
(***************************************************************************)
RecordsSound ==
  /\ In("AuditChain", Audit!AuditSound)
  /\ In("PaperAccounts", Accounts!AccountsSound)
  /\ In("BusDelivery", Bus!CommittedIsHandled)

(***************************************************************************)
(* What no step does: publish a Kalshi book the venue never had, report a  *)
(* feed healthy without a recent tick, spend more on a paper leg on YES at *)
(* a limit than it was valued at, move an ingestion cursor back, dispatch  *)
(* a stopped automation, run a revoked plugin.                             *)
(***************************************************************************)
StepsSound ==
  [][/\ In("KalshiStream", Kalshi!FaithfulStep)
     /\ In("VenueFeed", Feed!TruthfulStep)
     /\ In("PaperRisk", Risk!RiskHeldStep)
     /\ In("IngestFleet", Ingest!ForwardStep)
     /\ In("Automations", Automation!StoppedStep)
     /\ In("PluginLifecycle", Plugin!RevokedStep)]_shared

-----------------------------------------------------------------------------
(* Liveness, under the fairness each of the three modules states.          *)

Messages == 1 .. 2 \cup {g1}

InboxFairness ==
  /\ \A about \in Messages : WF_shared(On("InboxQueue") /\ Inbox!Push(about) /\ UNCHANGED Spare9)
  /\ \A id \in 1 .. 3 :
       WF_shared(On("InboxQueue") /\ Inbox!TimePasses(id) /\ UNCHANGED Spare9)
  /\ \A w \in InboxWorkers : WF_shared(On("InboxQueue") /\ Inbox!Process(w) /\ UNCHANGED Spare9)
  /\ \A w \in InboxWorkers, id \in 1 .. 3 :
       SF_shared(On("InboxQueue") /\ Inbox!ClaimOf(w, id) /\ UNCHANGED Spare9)

OcrFairness ==
  /\ WF_shared(On("ScreenshotOcr") /\ Ocr!List /\ UNCHANGED Spare6)
  /\ WF_shared(On("ScreenshotOcr") /\ (Ocr!Unreadable \/ Ocr!Rewrite) /\ UNCHANGED Spare6)
  /\ WF_shared(On("ScreenshotOcr") /\ Ocr!RunPipeline /\ UNCHANGED Spare6)

BusFairness ==
  /\ WF_shared(On("BusDelivery") /\ Bus!ReceiveValid /\ UNCHANGED Spare14)
  /\ WF_shared(On("BusDelivery") /\ Bus!ReceiveMalformed /\ UNCHANGED Spare14)
  /\ WF_shared(On("BusDelivery") /\ Bus!Process /\ UNCHANGED Spare14)
  /\ WF_shared(On("BusDelivery") /\ Bus!Ack /\ UNCHANGED Spare14)
  /\ WF_shared(On("BusDelivery") /\ Bus!CommitSync /\ UNCHANGED Spare14)
  /\ WF_shared(On("BusDelivery") /\ Bus!PublishMetadata /\ UNCHANGED Spare14)
  /\ WF_shared(On("BusDelivery") /\ Bus!Elapse("quarantine") /\ UNCHANGED Spare14)

FairSpec == Spec /\ InboxFairness /\ OcrFairness /\ BusFairness

\* Every message that arrives is filed, however its notifications are delayed,
\* repeated or fail on the way, unless it, or a message before it in its
\* mailbox, cannot be parsed, or the cursor passed it on a further page of the
\* history; provided the notifications that fail for ever are now and then all
\* in their backoff (server/inbox, processing and queue).
MailFiled ==
  []<>(focus = "InboxQueue" /\ Inbox!Rested) =>
    \A m \in Messages :
      (focus = "InboxQueue" /\ Inbox!HasArrived(m) /\ ~Inbox!Blocked(m))
        ~> (focus = "InboxQueue" /\ (Inbox!IsFiled(m) \/ Inbox!IsSkipped(m)))

\* A screenshot that can be read gets its text, unless unreadable ones fill every
\* batch (server/ingest/ocr/pipeline.py).
ScreenshotsRead ==
  \A o \in {1, 2, 4} :
    (focus = "ScreenshotOcr" /\ Ocr!IsTaken(o)) ~> (focus = "ScreenshotOcr" /\ Ocr!IsRead(o))

\* A consumer that is started again after each stop commits every message of the
\* partition in the end, malformed ones and duplicates too, up to the first one
\* its caller refuses (crates/aether-bus, consumer.rs and quarantine.rs).
EverythingCommitted ==
  []<>(focus = "BusDelivery" /\ Bus!IsRunning) =>
    \A o \in 1 .. 4 :
      (focus = "BusDelivery" /\ Bus!IsLogged(o) /\ ~Bus!IsBlocked(o))
        ~> (focus = "BusDelivery" /\ Bus!IsCommitted(o))
=============================================================================
