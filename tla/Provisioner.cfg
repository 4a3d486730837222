SPECIFICATION Spec
CONSTANTS
  v1 = v1
  v2 = v2
  None = None
  Dev <- TwoDev
  Caps <- OnePrompt
  SecLevel = "MED"
  Shell = TRUE
  MaxAddr = 2
  Env <- Disorderly
CHECK_DEADLOCK FALSE
INVARIANTS TypeOK CompletedAgree AddressesAccounted
