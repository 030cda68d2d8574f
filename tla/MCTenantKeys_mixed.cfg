SPECIFICATION Spec
CONSTANTS
  a = a
  b = b
  s1 = s1
  s2 = s2
  k1 = k1
  k2 = k2
  k3 = k3
  legacy = legacy
  None = None
  Workers = {a, b}
  Procs = {s1, s2}
  Keys = {k1, k2, k3}
  Legacy = legacy
  TTL = 2
  Settings <- Mixed
CHECK_DEADLOCK FALSE
INVARIANTS
  UsedKeyIsRecent
  KeyOutlivesFailures
PROPERTY
  KeyLine
