SPECIFICATION Spec
CONSTANTS
  Groups = {g1, g2}
  Classrooms = {c1, c2}
  Times = {1, 2}
  MaxPublished = 4
INVARIANTS
  DispatchInv
  EveryEventCovered
CHECK_DEADLOCK FALSE
