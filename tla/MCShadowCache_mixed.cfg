SPECIFICATION FairSpec
CONSTANTS
  a = a
  b = b
  None = None
  Workers = {a, b}
  DPs = {1, 2}
  Values = {0, 1}
  Settings <- Mixed
CHECK_DEADLOCK FALSE
INVARIANTS
  NoTornReport
  Settled
PROPERTIES
  HandlersEnd
