SPECIFICATION FairSpec
CONSTANTS
  w1 = w1
  w2 = w2
  k1 = k1
  k2 = k2
  s1 = s1
  s2 = s2
  s3 = s3
  Boxes = {s1}
  Webs = {w1, w2}
  Slots = {k1, k2}
  NoBox = NoBox
  Requests = {"post", "delete"}
  Showcase = FALSE
  Seeding = TRUE
  ProvisionAttempts = 2
  SeedAttempts = 2
  CleanupAttempts = 2
  Attempts <- MCAttempts
  Unreliable = {"cloud"}
  MaxRequests = 2
  MaxFaults = 1
  MaxCrashes = 0
PROPERTY DropletsReclaimed
CHECK_DEADLOCK FALSE
