CONSTANTS
  MaxSubs = 2
  Monitored = {1}
  MaxPublish = 3
  MaxNotes = 2
  MaxFails = 1
  PerPublish = 1
  MaxKeepAlive = 2
  LifeTime = 6
  QueueSize = 2
  MaxRequests = 2
  MaxRetransmit = 1
SPECIFICATION Spec
INVARIANTS
  TimerFollowsList
  Recoverable
  NotStarved
PROPERTIES
  OldestFirst
  HeldByRequests
  LifetimeRuns
CHECK_DEADLOCK FALSE
