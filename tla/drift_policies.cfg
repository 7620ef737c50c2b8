SPECIFICATION FairSpec
CONSTANTS
  h1 = h1
  h2 = h2
  t1 = t1
  t2 = t2
  n1 = n1
  v1 = v1
  None = None
  Absent = Absent
  Names = {n1}
  Values = {v1}
  Marked = {n1}
  Hosts = {h1}
  Tenants = {t1}
  Owner <- OneTenant
  Stem <- OneStem
  Pipes <- OnePipe
  Clean <- Bare
  Later <- Listening
  Exposed <- Settings
  MuteRules <- NoMute
  PolicyRules <- Templates
  MaxChanges = 1
  MaxOps = 0
  MaxFaults = 0
  MaxIds = 1
  MaxWrites = 2
PROPERTY PoliciesHold
CHECK_DEADLOCK FALSE
