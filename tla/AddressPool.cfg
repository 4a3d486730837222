SPECIFICATION Spec
CONSTANTS
  None = None
  Ranges <- TwoRanges
  MaxEle = 3
  MaxDb = 3
  Env <- Resetting
CHECK_DEADLOCK FALSE
INVARIANTS TypeOK Partition
PROPERTY ImplementsAddressSpace
