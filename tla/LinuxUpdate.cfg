CONSTANTS
  Groups = {g1, g2}
  SharedProbe = FALSE
  MaxAge = 1
  MaxCheckpoints = 2
  MaxChanges = 2
  MaxFaults = 3
SPECIFICATION FairSpec
INVARIANT HashMatchesLoaded
INVARIANT PassthroughIsPermissive
INVARIANT UnchangedMeansCurrent
PROPERTY Convergence
