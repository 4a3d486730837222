SPECIFICATION Spec
CONSTANTS
  d1 = d1
  None = None
  Dst <- OneDst
  RESERVE = 3
  MARGIN = 1
  SEQ_LIMIT = 10
  IV_IDX_DIFF_RANGE = 1
  Env <- Stale
  MaxIv = 2
  MaxSeq = 5
  MaxBurst = 2
CHECK_DEADLOCK FALSE
INVARIANT NonceUnique
