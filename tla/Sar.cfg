SPECIFICATION FairSpec
CONSTANTS
  None = None
  SegN <- TwoTwo
  MaxWin = 1
  Env <- Orderly
INVARIANTS TypeOK AckSound AckedDelivered
PROPERTIES Progress ImplementsMessageService
CHECK_DEADLOCK FALSE
