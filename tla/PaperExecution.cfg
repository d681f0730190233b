\* Two services and execute-paper on two intents of one market without a
\* position, with a rebalance while the owner is busy.
SPECIFICATION Spec
CONSTANTS
  Services = {s1, s2}
  Shots = {shot}
  Intents = {i1, i2}
  Markets = {m1}
  Seeded = {}
  MarketOf <- SameMarket
  Topic <- TwoIntents
  Tradable <- GoodBooks
  MaxFills = 2
  MaxCrashes = 0
  MaxRebalances = 1
SYMMETRY Instances
INVARIANTS
  LedgerAgrees
  NoDoubleCount
PROPERTY ImplementsDurableExecution
