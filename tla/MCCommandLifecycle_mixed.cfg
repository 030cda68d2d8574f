SPECIFICATION FairSpec
CONSTANTS
  c1 = c1
  c2 = c2
  setu = setu
  acme = acme
  plug = plug
  None = None
  Cmds = {c1, c2}
  Tenants = {setu, acme}
  Devices = {plug}
  HomeTid <- MCHomeTid
  ConsumerTid = setu
  Owned = {plug}
  Settings <- Mixed
CHECK_DEADLOCK FALSE
INVARIANTS
  StatusIsVerdict
  ToldAfterWritten
PROPERTIES
  ChangesNeedContradiction
  AnsweredEventually
