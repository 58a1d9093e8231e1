CONSTANTS
  r1 = r1
  r2 = r2
  r3 = r3
  i1 = i1
  i2 = i2
  i3 = i3
  t1 = t1
  t2 = t2
  Runs = {r1, r2, r3}
  Pids = {i1, i2, i3}
  MaxTries = 2
  MaxMishaps = 1
  MaxDamage = 1
  MaxDays = 1
  Artifacts = {a1}
  Classrooms = {c1}
  Transfers = {t1, t2}
  MaxAttempts = 2
  TTL = 1
  LeaseTime = 2
  Retention = 2
  Horizon = 1
  MaxFaults = 1
SPECIFICATION MCSpec
INVARIANT GenerationInv
INVARIANT SuccessIsServable
INVARIANT LeaseInv
INVARIANT ProtectedTransferKeepsFile
INVARIANT UsableReferenceHasFile
PROPERTY ServableStaysServable
PROPERTY LiveLeaseIsKept
PROPERTY CompleteTransferIsLast
PROPERTY FilesAreReclaimed
CHECK_DEADLOCK FALSE
