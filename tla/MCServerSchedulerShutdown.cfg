SPECIFICATION FairSpec
CONSTANTS
  NSlots = 2
  Clients = {c1, c2}
  MaxQuanta = 1
  MaxTokens = 1
  MayFail = FALSE
  MayStop = TRUE
  None = None
  Decoder = decoder
PROPERTIES
  ShutdownEnds
CHECK_DEADLOCK FALSE
