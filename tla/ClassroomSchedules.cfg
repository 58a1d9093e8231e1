SPECIFICATION CSSpec
CONSTANTS
  gA = gA
  admin = admin
  teacher = teacher
  Groups = {gA}
  Users = {admin, teacher}
  Admins = {admin}
  Approves <- MCApproves
  Lessons <- MCLessons
  RowIds = {r1, r2}
  None = None
  Gone = Gone
  Quarter = 2
  Horizon = 4
  Durations = {3}
  MaxCommands = 2
  MaxExempt = 1
  MaxFaults = 1
SYMMETRY MCSymmetry
INVARIANTS
  TimetableInv
  PolicyIsAnnounced
  ExemptionEndsWithLesson
CHECK_DEADLOCK FALSE
