\* Two workers, one human-approved and one automatic proposal, both live.
SPECIFICATION Spec
CONSTANTS
  Workers = {w1, w2}
  Proposals = {p1, p2}
  Custodied = {p1, p2}
  Automatic = {p2}
  Value <- EqualValues
  DailyMax = 4
  MaxWrongCodes = 1
  MaxLost = 1
  MaxEvictions = 0
  MaxCrashes = 0
SYMMETRY WorkerSymmetry
INVARIANTS
  NoncesDistinct
  ApprovedBeforeChain
  RecordsMatchChain
  NoNonceGap
CHECK_DEADLOCK FALSE
