SPECIFICATION FairSpec
CONSTANTS
  a = a
  b = b
  m = m
  Paths = {a, b, m}
  ChangeLists <- Lists
  Sizes = {0, 1, 2, 3}
  Absent = Absent
  Binary = Binary
  Relevant = {b, m}
  MaxFiles = 3
  MaxFileBytes = 2
  MaxTotalBytes = 3
  MaxExtra = 1
  MaxRetries = 1
  Pushes = 1
INVARIANTS TypeOK WithinBudget  
PROPERTY FetchEnds
CHECK_DEADLOCK FALSE
