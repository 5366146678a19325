SPECIFICATION Spec
CONSTANTS
  Versions = {v1, v2}
  FirstVersion = v1
  AdminVersions = {v2}
  Obligations = {o1}
  Admins = {a1}
  Workers = {w1}
  NoControl = NoControl
  NoApproval = NoApproval
  Operations = {"propose", "author", "clarify", "revise", "approve", "activate", "suspend", "retire", "remove"}
  Overlap = "worker"
  Crashes = TRUE
INVARIANTS TypeOK AtMostOneActive LiveIsApproved
PROPERTY FollowsLifecycle
