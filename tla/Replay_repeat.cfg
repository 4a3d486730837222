SPECIFICATION ReplaySpec
CONSTANTS
  s1 = s1
  s2 = s2
  None = None
  Crash = FALSE
  Src <- OneSrc
  FirstIv = 1
  MaxIv = 2
  MaxSeq = 2
  MaxDelivered = 3
  IV_MOD = 4
INVARIANT NoReplay
CHECK_DEADLOCK FALSE
