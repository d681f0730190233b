SPECIFICATION Spec
CONSTANTS
  Threads = {t1, t2}
  Reconcilers = {r1, r2}
  Intents = {i1, i2, i3}
  Paper = {i3}
  Venues = {kalshi, openbb}
  VenueOf <- TwoVenues
  Adapters = {kalshi}
  ReadOnly = {openbb}
  MaxConcurrent = 1
  MaxReconAttempts = 2
  MaxTime = 0
  MaxQueryErrors = 1
  Threshold = 2
  ErrorWindow = 2
  ResetTimeout = 1
SYMMETRY Callers
INVARIANTS
  ExposureReported
  AuditBeforeEffect
  NotFoundAfterBudget
  ReconcilerAgreesWithVenue
PROPERTIES
  ResolvedForGood
