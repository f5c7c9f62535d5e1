CONSTANTS
  Async = TRUE
  MaxRequests = 9
SPECIFICATION Spec
CHECK_DEADLOCK FALSE
INVARIANTS
  CallbackOnce
  SyncRenewalKeepsAnswers
PROPERTIES
  StateIsTruth
  EveryCallReturns
