SPECIFICATION FairSpec
CONSTANTS
  Queue = 2
  Ring = 4
  Width = 16
  WaveCounts = {1, 2}
  Callers = {TRUE, FALSE}
  MayFail = TRUE
  MaxSeq = 3
INVARIANTS
  TypeOK
  
  WaitingNeverOvertakes
  OneExchangeAtATime
  KickSeesRelease
  ShutdownDrains
PROPERTIES
  CallsEnd
CHECK_DEADLOCK FALSE
