SPECIFICATION Spec
CONSTANTS
  Versions = {v1, v2}
  FirstVersion = v1
  AdminVersions = {v1, v2}
  Obligations = {o1}
  Admins = {a1, a2}
  Workers = {w1}
  NoControl = NoControl
  NoApproval = NoApproval
  Operations = {"propose", "revise", "approve", "activate"}
  Overlap = "all"
  Crashes = FALSE
INVARIANT AtMostOneActive
SYMMETRY Symmetry
