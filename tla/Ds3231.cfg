SPECIFICATION Spec
CONSTANTS
  Times <- MCTimes
  Temps <- MCTemps
  Cuts = {0, 3, 6}
  MaxTicks = 2
  MaxFails = 1
PROPERTY ImplementsClock
