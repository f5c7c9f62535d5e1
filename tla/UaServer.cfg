CONSTANTS
  Conns = {c1, c2}
  Sessions = {s1, s2}
  maxSecureChannels = 1
  maxSessions = 1
  W = 5
  Interval = 1
  Lifetime = 0
  Timeout = 0
  MaxFails = 1
  NONE = NONE
SPECIFICATION Spec
SYMMETRY Symmetry
CHECK_DEADLOCK FALSE
INVARIANTS
  NoDangling
  Capacity
  StaleGo
PROPERTIES
  SessionsKeepChannel
  OrphanIsLost
