SPECIFICATION FairSpec
CONSTANTS
  a = a
  b = b
  setu = setu
  k1 = k1
  k2 = k2
  None = None
  Callers = {a, b}
  Keys = {k1, k2}
  ConsumerTid = setu
  Tenants = {setu}
  HomeTid = setu
  Settings <- Mixed
CHECK_DEADLOCK FALSE
INVARIANTS
  CallersAgree
  DeviceHasStoredKey
  AppHasDeviceKey
PROPERTIES
  WrittenOnce
  AdoptedGetsKey
