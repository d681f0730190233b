CONSTANTS
  Focus = {"KalshiStream", "PolymarketStream", "AlpacaStream", "HyperliquidStream", "VenueNormalization",
           "VenueListing", "VenueFeed", "VenueOrders", "VenueReplay", "AuthorityStores", "GatewaySession",
           "BusDelivery", "ApprovalReferences", "AlertDelivery", "OperatorCallback", "EdgeSimulation",
           "PaperRisk", "ScanCycle", "Backtest", "BrainPipeline", "InboxQueue", "RecallFusion",
           "BrainTiering", "IngestFleet", "ScreenshotOcr", "SwarmBudget", "LlmRouting", "Automations",
           "PluginLifecycle", "GuardianService", "GuardianAccess", "AuditChain", "PaperAccounts"}
  InboxWorkers = {b1, b2}
  a1 = a1
  a2 = a2
  b1 = b1
  b2 = b2
  c1 = c1
  g1 = g1
  m1 = m1
  m2 = m2
SPECIFICATION Spec
INVARIANT StreamsSound
INVARIANT VenuesSound
INVARIANT AuthoritySound
INVARIANT OperatorsSound
INVARIANT EdgesSound
INVARIANT BrainSound
INVARIANT AgentsSound
INVARIANT CustodySound
INVARIANT RecordsSound
PROPERTY StepsSound
CHECK_DEADLOCK FALSE
