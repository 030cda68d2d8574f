SPECIFICATION FairSpec
CONSTANTS
  a = a
  b = b
  u = u
  v = v
  d1 = d1
  d2 = d2
  None = None
  Workers = {a, b}
  Users = {u, v}
  Dids = {d1, d2}
  Settings <- Mixed
CHECK_DEADLOCK FALSE
INVARIANTS
  ProvisionedHasRow
  SignedForOwners
  CleanWhenPending
PROPERTIES
  DeviceLife
  RequestsEnd
