SPECIFICATION AccountSpec
CONSTANTS
  w1 = w1
  w2 = w2
  w3 = w3
  t1 = t1
  t2 = t2
  t3 = t3
  t4 = t4
  None = None
  u = u
  v = v
  Visitors = {u, v}
  MaxAttempts = 2
  MaxMails = 2
  MaxProofs = 2
  Workers = {w1, w2, w3}
  Tokens = {t1, t2, t3, t4}
  MaxFailures = 3
  MaxCodes = 1
  Settings <- Mixed
SYMMETRY Symmetry
CHECK_DEADLOCK FALSE
INVARIANTS
  ClosedIsClosed
  SpentOnce
  StrikesLock
  GuessesLimited
