SPECIFICATION FairSpec
CONSTANTS
  v1 = v1
  v2 = v2
  None = None
  Dev <- TwoDev
  MaxEvents = 5
  MaxScans = 2
  Env <- Orderly
CHECK_DEADLOCK FALSE
INVARIANTS TypeOK NothingLost
PROPERTIES GuiReturns Ends
