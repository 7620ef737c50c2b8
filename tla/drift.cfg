SPECIFICATION FairSpec
CONSTANTS
  h1 = h1
  h2 = h2
  t1 = t1
  t2 = t2
  n1 = n1
  v1 = v1
  None = None
  Absent = Absent
  Names = {n1}
  Values = {v1}
  Marked = {n1}
  Hosts = {h1, h2}
  Tenants = {t1, t2}
  Owner <- TwoTenants
  Stem <- OneStem
  Pipes <- OneScanned
  Clean <- Bare
  Later <- Listening
  Exposed <- Settings
  MuteRules <- OneMute
  PolicyRules <- Real
  MaxChanges = 1
  MaxOps = 1
  MaxFaults = 1
  MaxIds = 1
  MaxWrites = 2
INVARIANTS TypeOK NothingSilent
PROPERTIES OwnHostsOnly RowConverges
CHECK_DEADLOCK FALSE
