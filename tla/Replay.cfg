SPECIFICATION ReplaySpec
CONSTANTS
  s1 = s1
  s2 = s2
  None = None
  Crash = FALSE
  Src <- TwoSrc
  FirstIv = 1
  MaxIv = 2
  MaxSeq = 1
  MaxDelivered = 3
  IV_MOD = 4
INVARIANTS ReplayTypeOK IvNeverBack NoFalseAlarm
CHECK_DEADLOCK FALSE
