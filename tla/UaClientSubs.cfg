CONSTANTS
  MaxSubs = 2
  Monitored = {1}
  MaxNotes = 2
  MaxFails = 1
  OutStanding = 2
  Limits = {0, 1}
SPECIFICATION Spec
CHECK_DEADLOCK FALSE
INVARIANTS
  NoSilentGap
  EndsOnce
  AcksKept
PROPERTIES
  Served
