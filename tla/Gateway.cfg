CONSTANTS
  Contracts = {{"spi_bus"}, {"event_loop", "spi_bus"}}
  MayFail = {}
  MAX_RETRY = 0
  QueueSize = 1
  MaxDrops = 1
  N = 1
  HeapSize = 4
  Values = {0}
  NONE = NONE
SPECIFICATION Spec
PROPERTIES
  ImplementsConnectivity
  ImplementsPollTask
  EveryBootEnds
