CONSTANTS
  N = 2
  HeapSize = 11
  Values = {0, 1}
  NONE = NONE
SPECIFICATION Spec
INVARIANTS
  PublishBudget
  StaleFlagBound
PROPERTIES
  LostSessionEndsInReboot
