SPECIFICATION FairSpec
CONSTANTS
  Name <- MCName
  Conj <- MCConj
  Horizon <- KeepHorizon
  Deadline <- KeepDeadline
  Rules <- KeepRules
  Blocks <- KeepBlocks
  TickSeconds = 2
  Total = 7
  LoadUntil = 1
INVARIANTS
  KeptFormsSurvive
PROPERTIES
  Finitude
CHECK_DEADLOCK FALSE
