SPECIFICATION Spec
CONSTANTS
  Requests = {q1}
  Events = {e1}
  UpdatedEvents = {}
  ThePR = pr
  PRs <- OnePR
  PrOf <- AlwaysThePR
  Findings = {f1}
  Summary = summary
  Workers = {w1}
  NoRun = NoRun
  NoMsg = NoMsg
  NoWorker = NoWorker
  SerialGateway = TRUE
  ReviewOnUpdated = TRUE
  MaxDelivery = 2
  MaxIteration = 1
  MaxRetries = 1
  Faults = {"lost_ack"}
INVARIANT NoDuplicateThreads
