SPECIFICATION FairSpec
CONSTANTS
  Ids = {c1, c2}
  Obligations = {o1, o2}
  Surfaces = {code, manual}
  Clauses = {k1, k2}
  c1 = c1
  c2 = c2
  o1 = o1
  o2 = o2
  code = code
  manual = manual
  k1 = k1
  k2 = k2
  ManualEvidence = manual
  PlaceholderId <- OwnPlaceholders
  DerivedId <- OwnObligations
  Title <- OwnTitles
  NoClause = NoClause
  NoPolicy = NoPolicy
  NoControl = NoControl
  NoJob = NoJob
  MaxDelivery = 2
  Proposals <- Answers
  Taken = {c2}
  Jobs = {j1}
  Operations = {"paste", "url", "retry", "clarify", "activate", "retire_control", "remove_control", "retire_policy", "remove_policy"}
  Faults = {"gateway_crash", "worker_kill", "lock_expiry", "unsent", "source", "model"}
INVARIANTS TypeOK ReadyIsCovered
PROPERTIES   JobsEnd
CHECK_DEADLOCK FALSE
