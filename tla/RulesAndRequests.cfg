SPECIFICATION RRSpec
CONSTANTS
  g1 = g1
  g2 = g2
  d1 = d1
  d2 = d2
  admin = admin
  teacher = teacher
  Groups = {g1, g2}
  Domains = {d1, d2}
  RuleIds = {1, 2}
  RequestIds = {1}
  Users = {admin, teacher}
  Admins = {admin}
  Approves <- MCApproves
  None = None
  Gone = Gone
SYMMETRY MCSymmetry
CONSTANTS
  MaxCommands = 4
INVARIANTS
  RRTypeOK
  ChangesAreAnnounced
PROPERTIES
  RejectionIsFinal
  ApprovalIsAtomic
CHECK_DEADLOCK FALSE
