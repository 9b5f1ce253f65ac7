SPECIFICATION FairSpec
CONSTANTS
  Window = 2
  PerToken = 2
  BulkSlots = 2
  BulkSizes = {1, 3}
  Modes <- DivergeModes
  MayDiverge = TRUE
  MayFail = TRUE
  MaxOps = 2
INVARIANTS
  
  NoReceiverNotReady
PROPERTIES
  ImplementsLockstep
  
CHECK_DEADLOCK FALSE
