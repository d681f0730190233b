\* One worker, a daily limit two proposals exceed, evictions and crashes.
SPECIFICATION FairSpec
CONSTANTS
  Workers = {w1}
  Proposals = {p1, p2}
  Custodied = {p1, p2}
  Automatic = {p2}
  Value <- EqualValues
  DailyMax = 3
  MaxWrongCodes = 2
  MaxLost = 0
  MaxEvictions = 1
  MaxCrashes = 1
INVARIANTS
  DailyLimitHeld
PROPERTIES
  ProposalsSettle
CHECK_DEADLOCK FALSE
