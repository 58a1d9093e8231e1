CONSTANTS
  Groups = {g1}
  SharedProbe = FALSE
  MaxAge = 0
  MaxCheckpoints = 2
  MaxChanges = 0
  MaxFaults = 4
  Actors = {"watchdog", "crash"}
  MaxFails = 2
  MaxPortals = 1
SPECIFICATION FairAgentSpec
PROPERTY DnsmasqComesBack
