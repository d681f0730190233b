\* One scanner, an approval and a direct call on two chains of one key.
SPECIFICATION FairSpec
CONSTANTS
  Scanners = {s1}
  Chains = {c1, c2}
  Keys = {k1}
  KeyOf <- SameKey
  NumLegs = 2
  Approvals = {a1}
  Direct = {d1}
  MaxContents = 2
  MaxFailures = 1
INVARIANTS
  OneOpenChain
  OutcomesAgree
  ExecutionExact
PROPERTIES
  ApprovalsFinal
  DetectionsSettle
CHECK_DEADLOCK FALSE
