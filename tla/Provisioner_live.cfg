SPECIFICATION FairSpec
CONSTANTS
  v1 = v1
  v2 = v2
  None = None
  Dev <- TwoDev
  Caps <- OnePrompt
  SecLevel = "LOW"
  Shell = TRUE
  MaxAddr = 2
  Env <- Orderly
CHECK_DEADLOCK FALSE
INVARIANT PromptLive
PROPERTY AttemptEnds
