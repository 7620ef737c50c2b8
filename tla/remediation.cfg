SPECIFICATION Spec
CONSTANTS
  r1 = r1
  q1 = q1
  q2 = q2
  Recs = {r1}
  Reqs = {q1, q2}
  NoOne = NoOne
  Tiers <- MCTiers
  Sandboxed = TRUE
  MaxFaults = 1
  MaxCrashes = 1
  MaxReplays = 1
INVARIANTS
  TypeOK
  ApprovedAsSeen
  FailedNotOffered
  DropletsDestroyed
PROPERTIES
  ApprovalKept
SYMMETRY Operators
CHECK_DEADLOCK FALSE
