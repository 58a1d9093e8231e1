SPECIFICATION TickerSpec
CONSTANTS
  p1 = p1
  p2 = p2
  Procs = {p1, p2}
  PoolMax = 2
  MaxStarts = 2
  MaxTimers = 2
  None = None
  MaxFaults <- MCFaults
INVARIANTS
  TickerInv
PROPERTIES
  SomebodyTicks
