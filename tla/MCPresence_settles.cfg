SPECIFICATION FairSpec
CONSTANTS
  s1 = s1
  s2 = s2
  Servers = {s1, s2}
  Settings <- Prompts
  MaxSessions = 2
  MaxCrashes = 1
CHECK_DEADLOCK FALSE
INVARIANTS
  SettledCache
  Settled
PROPERTIES
  DropIsNoticed
