SPECIFICATION SpecRestart
CONSTANTS
  Name <- RestartName
  Conj <- RestartConj
  Horizon <- RestartHorizon
  Deadline <- RestartDeadline
  Rules <- RestartRules
  Blocks <- RestartBlocks
  TickSeconds = 2
  Total = 3
  LoadUntil = 0
  Runs = 3
INVARIANTS
  BooksAgree
  NoLostDeadline
CHECK_DEADLOCK FALSE
