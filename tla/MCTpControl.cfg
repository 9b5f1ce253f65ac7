CONSTANTS
  Sessions = {1, 2}
  Prompts <- SomePrompts
  MaxLen = 3
  MaxBlock = 2
  PrefixSlots = 2
  Modes <- BothFamilies
  LocalFaults <- Alone
  MayCrash = TRUE
  MaxCalls = 5
SPECIFICATION FairSpec
INVARIANTS TypeOK  StreamFramed
PROPERTIES PublishedCommitted CallReturns
