CONSTANTS
  MaxId = 3
  MaxCalls = 3
  ClockValues = 6
  Intervals = {1, 3}
  Second = 2
SPECIFICATION TimerSpec
INVARIANTS
  Punctual
  NotTooEarly
  WakesInTime
  RemovedIsGone

  
