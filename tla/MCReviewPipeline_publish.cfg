SPECIFICATION Spec
CONSTANTS
  Requests = {q1, q2}
  Events = {e1}
  UpdatedEvents = {}
  ThePR = pr
  PRs <- OnePR
  PrOf <- AlwaysThePR
  Findings = {f1}
  Summary = summary
  Workers = {w1}
  NoRun = NoRun
  NoMsg = NoMsg
  NoWorker = NoWorker
  SerialGateway = TRUE
  ReviewOnUpdated = TRUE
  MaxDelivery = 2
  MaxIteration = 2
  MaxRetries = 1
  Faults = {"worker_crash", "lock_expiry"}
SYMMETRY Symmetry
INVARIANTS
  NoDuplicateThreads
  AttemptsAreDeliveries
  ReportedBeforeComplete
  EvidenceIsPublished
PROPERTIES
  AcknowledgedIsFinal
  FollowsReview
