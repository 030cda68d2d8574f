SPECIFICATION FanSpec
CONSTANTS
  c = c
  d = d
  g = g
  h = h
  u = u
  v = v
  alexa = alexa
  google = google
  None = None
  Clients = {c, d}
  Pushers = {g, h}
  Users = {u, v}
  Platforms = {alexa, google}
  Capacity = 1
  MaxReports = 3
  MaxMoves = 3
  FanSettings <- Mixed
CHECK_DEADLOCK FALSE
INVARIANTS
  FramesInOrder
  NoSendOnClosed
  PushedToOwner
  SettledShown
PROPERTIES
  NobodyHoldsUp
  GoneIsForgotten
