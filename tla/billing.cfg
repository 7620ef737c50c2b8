SPECIFICATION Spec
CONSTANTS
  s1 = s1
  s2 = s2
  h1 = h1
  h2 = h2
  Subs = {s1, s2}
  Handlers = {h1, h2}
  None = None
  Plans <- MCPlans
  Turns <- MCTurns
  MaxEvents = 3
  MaxFaults = 1
  MaxCrashes = 1
INVARIANTS
  TypeOK
  AppliedOnce
  LostOnlyInFlight
  PaidByName
  RowIsHistory
PROPERTIES
  NoRevival
SYMMETRY Deliveries
CHECK_DEADLOCK FALSE
