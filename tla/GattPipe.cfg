SPECIFICATION FairSpec
CONSTANTS
  None = None
  Mixed = Mixed
  Mtus <- TwoMtus
  NetForms <- NetTwo
  ProvForms <- PublicKey
  Burst = 2
  PipeSize = 3
  MaxPkts = 4
  MaxLinks = 2
INVARIANTS TypeOK WrittenArrives QueueInOrder
PROPERTIES Drains Resends
CHECK_DEADLOCK FALSE
