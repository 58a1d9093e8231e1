CONSTANTS
  Groups = {g1}
  SharedProbe = FALSE
  MaxAge = 0
  MaxCheckpoints = 1
  MaxChanges = 1
  MaxFaults = 2
  Actors = {"portal", "cli"}
  MaxFails = 1
  MaxPortals = 1
SPECIFICATION FairAgentSpec
INVARIANT PortalInv
 
