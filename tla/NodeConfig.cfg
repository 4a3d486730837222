SPECIFICATION Spec
CONSTANTS
  n1 = n1
  m1 = m1
  None = None
  Nodes = {n1}
  NetIdx = {0, 1}
  AppIdx = {1}
  Bound <- OneEach
  Models = {m1}
  Groups = {3}
  Ttls = {5}
  MaxReqs = 2
  MaxDoubt = 2
  Env <- Orderly
INVARIANTS
  TypeOK
  StartPossible
  RestartSame
  Agreed
