SPECIFICATION FairSpec
CONSTANTS
  Event <- MCEvent
  FlushEvery = 3
  MaxEvents = 5
INVARIANTS
  TypeOK
  FileIsPrefix
  ClosedIsComplete
  VerifierIsExact
PROPERTIES
  CloseReturns
CHECK_DEADLOCK FALSE
