SPECIFICATION Spec
CONSTANTS
  Versions = {v1, v2}
  FirstVersion = v1
  AdminVersions = {v1, v2}
  Obligations = {o1, o2}
  Admins = {a1}
  Workers = {w1}
  NoControl = NoControl
  NoApproval = NoApproval
  Operations = {"propose", "author", "approve", "activate"}
  Overlap = "none"
  Crashes = FALSE
INVARIANT CoverageIsTrue
