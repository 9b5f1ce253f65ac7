CONSTANTS
  Sessions = {1}
  Prompts <- SomePrompts
  MaxLen = 5
  MaxBlock = 3
  PrefixSlots = 2
  Modes <- BothFamilies
  LocalFaults = {}
  MayCrash = FALSE
  MaxCalls = 3
SPECIFICATION Spec
INVARIANT MirrorsAgree
