SPECIFICATION Spec
CONSTANTS
  Name <- MCName
  Conj <- MCConj
  Horizon <- MCHorizon
  Deadline <- MCDeadline
  Rules <- CoreRules
  Blocks <- CoreBlocks
  TickSeconds = 2
  Total = 4
  LoadUntil = 1
INVARIANTS
  TypeOK
  NoLostDeadline
  HorizonPrompt
  CollapsePrompt
  EveryFormOncePerTick
  SubvertAsWritten
PROPERTIES
  ImplementsLife
CHECK_DEADLOCK FALSE
