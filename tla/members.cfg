SPECIFICATION FairSpec
CONSTANTS
  u1 = u1
  u2 = u2
  Users = {u1, u2}
  Founder = u1
  SeatLimit = 1
  MaxChanges = 3
  MaxCrashes = 1
INVARIANTS
  TypeOK
  RoleFromClerk
PROPERTIES
  GuardsHoldAlone
  RoleHeals
CHECK_DEADLOCK FALSE
