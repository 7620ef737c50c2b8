SPECIFICATION FairSpec
CONSTANTS
  w1 = w1
  w2 = w2
  e1 = e1
  e2 = e2
  j1 = j1
  j2 = j2
  Webs = {w1}
  Workers = {k1}
  Jobs = {j1}
  Execs = {e1, e2}
  NoOne = NoOne
  MaxJobs = 2
  MaxAttempts = 3
  MaxStalled = 1
  Modes = {"queue", "inline", "error"}
  Collector = {TRUE}
  WarmStart = TRUE
  LiveStalls = TRUE
  MaxCrashes = 0
  MaxDrops = 0
  MaxProgress = 0
INVARIANT CompletedIsRecorded
PROPERTY ScanReported
CHECK_DEADLOCK FALSE
