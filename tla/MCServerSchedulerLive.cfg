SPECIFICATION FairSpec
CONSTANTS
  NSlots = 2
  Clients = {c1, c2}
  MaxQuanta = 2
  MaxTokens = 1
  MayFail = TRUE
  MayStop = FALSE
  None = None
  Decoder = decoder
PROPERTIES
  EveryJobAnswered
CHECK_DEADLOCK FALSE
