CONSTANTS
  N = 5
  MaxParallel = 3
SPECIFICATION Spec
CHECK_DEADLOCK FALSE
INVARIANTS
  ExclusiveRunsAlone
  NothingOutlivesTheStep
PROPERTIES
  StepEnds
  ImplementsOrderedAnswers
