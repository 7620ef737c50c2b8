SPECIFICATION Spec
SYMMETRY Symmetry
CONSTANTS
  w1 = w1
  w2 = w2
  e1 = e1
  e2 = e2
  j1 = j1
  j2 = j2
  Webs = {w1, w2}
  Workers = {}
  Jobs = {j1, j2}
  Execs = {e1, e2}
  NoOne = NoOne
  MaxJobs = 2
  MaxAttempts = 2
  MaxStalled = 1
  Modes = {"inline", "error"}
  Collector = {TRUE, FALSE}
  WarmStart = FALSE
  LiveStalls = TRUE
  MaxCrashes = 1
  MaxDrops = 0
  MaxProgress = 1
INVARIANTS ShownAgree DrainKnowsInlineScans
PROPERTY TerminalKept
CHECK_DEADLOCK FALSE
