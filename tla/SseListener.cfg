CONSTANTS
  Deferred = {d1, d2, d3}
  Cooldown = 2
  ReconnectMin = 1
  ReconnectMax = 4
  RestartSec = 2
  MaxTime = 7
  MaxEvents = 4
SPECIFICATION Spec
INVARIANT NoLostTrigger
INVARIANT DeferralBounded
INVARIANT StaleMarkerHarmless
SYMMETRY Symmetry
CHECK_DEADLOCK FALSE
