SPECIFICATION Spec
CONSTANTS
  g1 = g1
  g2 = g2
  c1 = c1
  m1 = m1
  k1 = k1
  k2 = k2
  Groups = {g1, g2}
  Classrooms = {c1}
  Machines = {m1}
  Clients = {k1, k2}
  RoomOf <- OneMachine
  HostOf <- TwoStreams
  MaxChanges = 2
INVARIANTS
  CalmPushReachesAgent
  IndexConsistent
  RulesReachIndexedClients
SYMMETRY StreamSymmetry
