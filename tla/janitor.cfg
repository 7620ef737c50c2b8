SPECIFICATION Spec
CONSTANTS
  r1 = r1
  q1 = q1
  o1 = o1
  o2 = o2
  n1 = n1
  Res = {r1}
  Reqs = {q1}
  Ops = {o1, o2}
  Scanners = {n1}
  ListLimit = 1
  MaxEdits = 2
  MaxFaults = 1
INVARIANT TypeOK
PROPERTIES
  ProtectedSpared
  ApprovedIsGone
  SuppressedStaysHidden
SYMMETRY Callers
CHECK_DEADLOCK FALSE
