SPECIFICATION RestartSpec
CONSTANTS
  Threads = {t1, t2}
  Reconcilers = {r1}
  Intents = {i1}
  Paper = {}
  Venues = {kalshi}
  VenueOf <- OneVenue
  Adapters = {kalshi}
  ReadOnly = {}
  MaxConcurrent = 2
  MaxReconAttempts = 2
  MaxTime = 1
  MaxQueryErrors = 1
  Threshold = 2
  ErrorWindow = 2
  ResetTimeout = 1
INVARIANTS
  UnknownsSurviveRestart
