SPECIFICATION Spec
CONSTANTS
  MaxTurns = 2
  MaxSteps = 2
  MaxCalls = 2
  MaxLives = 3
CHECK_DEADLOCK FALSE
INVARIANTS
  LogIsAccepted
  EveryCutIsRepaired
  EveryCallIsAnswered
  RestingIsWhole
