SPECIFICATION VoiceSpec
CONSTANTS
  r1 = r1
  r2 = r2
  d1 = d1
  d2 = d2
  Requests = {r1, r2}
  Devices = {d1, d2}
  MaxTouches = 1
  MaxVersions = 2
  MaxMoves = 3
  VoiceSettings <- Mixed
SYMMETRY Symmetry
CHECK_DEADLOCK FALSE
INVARIANTS
  AnswerComesTrue
  ShownIsSettable
  DiscoveredWorks
