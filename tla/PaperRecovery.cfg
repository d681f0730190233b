\* One service and execute-paper on a market with a position; processes fail.
SPECIFICATION FairSpec
CONSTANTS
  Services = {s1}
  Shots = {shot}
  Intents = {i1, i2}
  Markets = {m1}
  Seeded = {m1}
  MarketOf <- SameMarket
  Topic <- TwoIntents
  Tradable <- StrictFirst
  MaxFills = 2
  MaxCrashes = 2
  MaxRebalances = 0
INVARIANTS
  OutboxSound
  OffsetCoversFills
  SeededPositionsExact
PROPERTY IntentsPublished
