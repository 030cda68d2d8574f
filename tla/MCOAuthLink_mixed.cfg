SPECIFICATION Spec
CONSTANTS
  a = a
  b = b
  u = u
  v = v
  alexa = alexa
  google = google
  None = None
  Workers = {a, b}
  Users = {u, v}
  Clients = {alexa, google}
  MaxCodes = 2
  MaxPairs = 3
  Settings <- Mixed
SYMMETRY Symmetry
CHECK_DEADLOCK FALSE
INVARIANTS
  CodeSpentOnce
  OneLivePair
  LastPairWorks
  RevokedEnds
