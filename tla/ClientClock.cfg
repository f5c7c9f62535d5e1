CONSTANTS
  W = 16
  K = 2
  T = 4
  Lifetimes = {12, 24}
  Retry = 1
  Pause = 2
SPECIFICATION Spec
PROPERTIES
  NeverEarly
  NeverRenews
