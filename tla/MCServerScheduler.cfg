SPECIFICATION Spec
CONSTANTS
  NSlots = 2
  Clients = {c1, c2, c3}
  MaxQuanta = 2
  MaxTokens = 1
  MayFail = FALSE
  MayStop = TRUE
  None = None
  Decoder = decoder
SYMMETRY Interchangeable
INVARIANTS
  TypeOK
  ExecutorExclusive
  CountersAgree
  NobodyPassesTwice
  SessionOwned
  JobsPlaced
  WorkConserving
  DrainedWhenStopped
CHECK_DEADLOCK FALSE
