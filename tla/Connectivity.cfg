CONSTANTS
  Contracts = {{"spi_bus"}, {"event_loop", "spi_bus"}}
  MayFail = {"driver"}
  MAX_RETRY = 1
  QueueSize = 3
  MaxDrops = 3
SPECIFICATION Spec
INVARIANTS
  OneEthStarter
  FlagFollowsLink
  EthernetNeverStarts
PROPERTIES
  LinkLossReboots
  WifiNotAbandoned
