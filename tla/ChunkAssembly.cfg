SPECIFICATION ChunkSpec
CONSTANTS
  Modulus = 8
  RollFrom = 5
  RollTo = 2
  First = {3}
  maxChunkCount = 2
  MaxIds = 2
  MaxSends = 4
  MaxFails = 1
  MaxConnects = 2
CHECK_DEADLOCK FALSE
PROPERTIES
  ImplementsFifo
  Arrives
