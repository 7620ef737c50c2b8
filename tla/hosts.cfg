SPECIFICATION FairSpec
CONSTANTS
  p1 = p1
  r1 = r1
  r2 = r2
  Procs = {p1}
  Slots = {r1, r2}
  None = None
  MaxChanges = 1
  MaxOps = 1
  MaxFaults = 1
  MaxCrashes = 1
INVARIANTS
  TypeOK
  BuriedStaysOut
PROPERTIES
  PinnedUntilCaptured
  JobsSettle
  DriftConverges
CHECK_DEADLOCK FALSE
