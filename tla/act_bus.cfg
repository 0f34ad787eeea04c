SPECIFICATION FairSpec
CONSTANTS
  Actor <- MCActor
  Route <- MCRoute
  Fallback <- MCFallback
  SimFallback <- MCSimFallback
  Limit <- MCLimit
  SimLimit <- MCSimLimit
  Program <- MCProgram
  Capacity = 2
  QueueTimeout = 1
  Commands = 3
INVARIANTS
  TypeOK
  QueueKeepsBooks
  AcksAreHonest
  WithinLimits
PROPERTIES
  QueueDrains
CHECK_DEADLOCK FALSE
