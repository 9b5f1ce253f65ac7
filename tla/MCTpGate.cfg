SPECIFICATION Spec
CONSTANTS
  Window = 2
  PerToken = 2
  BulkSlots = 2
  BulkSizes = {3}
  Modes <- SafetyModes
  MayDiverge = FALSE
  MayFail = FALSE
  MaxOps = 4
INVARIANTS
  TypeOK
  ReceivesInStep
  GateResultIntact
  PayloadSent
CHECK_DEADLOCK FALSE
