SPECIFICATION FairSpec
CONSTANTS
  Ring = 2
  MaxGates = 3
  Width = 16
INVARIANTS
  TypeOK
  NoUnexchangedGatePasses
  AcceptedGatesExchanged
  ParkedDuringExchange
  RequestNotOverwritten
PROPERTIES
  NoCallbackAfterFailure
  NothingStaysParked
CHECK_DEADLOCK FALSE
