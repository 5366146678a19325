SPECIFICATION Spec
CONSTANTS
  d = d
  s = s
  m = m
  p = p
  scan = scan
  llm = llm
  x = x
  y = y
  k1 = k1
  k2 = k2
  v1 = v1
  v2 = v2
  Controls = {d, s, m}
  Policies = {p}
  PolicyOf <- OnePolicy
  Flags = {scan, llm}
  FlagOf <- OwnFlags
  Reviewed = {s}
  Asking = {m}
  Hits <- MCHits
  Semantic <- MCSemantic
  Grants <- MCGrants
  PackVersions = {v1, v2}
  Chunks = {k1, k2}
  Texts <- MCTexts
  AnyValue = AnyValue
  NoControl = NoControl
  Catalogs <- MCCatalogs
  MaxChanges = 3
  Crashes = TRUE
INVARIANTS TypeOK OnePackVersion ChunksFollow ActiveIsAccounted OnlyInForce SuppressionIsGranted IncompleteIsDeclared
CHECK_DEADLOCK FALSE
