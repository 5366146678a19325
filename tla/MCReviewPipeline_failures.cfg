SPECIFICATION FairSpec
CONSTANTS
  Requests = {q1, q2}
  Events = {e1, e2}
  UpdatedEvents = {e2}
  ThePR = pr
  PRs <- OnePR
  PrOf <- AlwaysThePR
  Findings = {}
  Summary = summary
  Workers = {w1}
  NoRun = NoRun
  NoMsg = NoMsg
  NoWorker = NoWorker
  SerialGateway = TRUE
  ReviewOnUpdated = FALSE
  MaxDelivery = 2
  MaxIteration = 1
  MaxRetries = 1
  Faults = {"gateway_crash", "lock_expiry", "ambiguous_send"}
INVARIANTS TypeOK RunsAreVisible OneMessagePerRun
PROPERTY DeadLettersAreFailures
