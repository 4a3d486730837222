SPECIFICATION FairSpec
CONSTANTS
  d1 = d1
  d2 = d2
  Devices = {d1, d2}
  None = None
  MaxStarts = 3
  MaxBus = 3
  Env <- Orderly
INVARIANTS
  TypeOK
  ProvisionsChosen
  SessionOnConnection
  QuietAgrees
PROPERTIES
  ProvisionedJoins
CHECK_DEADLOCK FALSE
