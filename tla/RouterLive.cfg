SPECIFICATION FairSpec
CONSTANTS
  Threads = {t1}
  Reconcilers = {r1}
  Intents = {i1, i2}
  Paper = {}
  Venues = {kalshi}
  VenueOf <- OneVenue
  Adapters = {kalshi}
  ReadOnly = {}
  MaxConcurrent = 2
  MaxReconAttempts = 1
  MaxTime = 0
  MaxQueryErrors = 0
  Threshold = 2
  ErrorWindow = 2
  ResetTimeout = 1
PROPERTIES
  SubmissionsSettle
