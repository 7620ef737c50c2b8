SPECIFICATION Spec
CONSTANTS
  w1 = w1
  w2 = w2
  k1 = k1
  k2 = k2
  s1 = s1
  s2 = s2
  s3 = s3
  Boxes = {s1, s2, s3}
  Webs = {w1}
  Slots = {k1}
  NoBox = NoBox
  Requests = {"post", "kick", "delete"}
  Showcase = TRUE
  Seeding = FALSE
  ProvisionAttempts = 1
  SeedAttempts = 1
  CleanupAttempts = 2
  Attempts <- MCAttempts
  Unreliable = {"redis"}
  MaxRequests = 2
  MaxFaults = 1
  MaxCrashes = 1
INVARIANT TypeOK
PROPERTY OthersUntouched
PROPERTY KeyFitsAlone
CHECK_DEADLOCK FALSE
