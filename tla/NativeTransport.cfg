CONSTANTS
  MaxCalls = 6
  MaxPorts = 3
  Hosts = {"modern", "legacy"}
  EarlyCalls = FALSE
  None = None
  Failed = Failed
SPECIFICATION NTFairSpec
INVARIANTS TransportInv BackoffOncePerConnection
PROPERTIES EveryCallSettles ImplementsRequestReply
CHECK_DEADLOCK FALSE
