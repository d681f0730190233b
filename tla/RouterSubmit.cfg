SPECIFICATION Spec
CONSTANTS
  Threads = {t1, t2}
  Reconcilers = {}
  Intents = {i1, i2, i3}
  Paper = {}
  Venues = {kalshi}
  VenueOf <- OneVenue
  Adapters = {kalshi}
  ReadOnly = {}
  MaxConcurrent = 2
  MaxReconAttempts = 2
  MaxTime = 2
  MaxQueryErrors = 1
  Threshold = 1
  ErrorWindow = 2
  ResetTimeout = 1
SYMMETRY CallersAndOrders
INVARIANTS
  AtMostOneEffect
  SingleAnswer
  ProbeOwned
