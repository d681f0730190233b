\* One service and execute-paper on a market without a position.
SPECIFICATION Spec
CONSTANTS
  Services = {s1}
  Shots = {shot}
  Intents = {i1, i2}
  Markets = {m1}
  Seeded = {}
  MarketOf <- SameMarket
  Topic <- TwoIntents
  Tradable <- GoodBooks
  MaxFills = 2
  MaxCrashes = 0
  MaxRebalances = 0
INVARIANT PositionsMatchFills
