CONSTANTS
  Calls = {1, 2, 3}
  MaxParallel = 2
SPECIFICATION Spec
CHECK_DEADLOCK FALSE
INVARIANTS
  OutcomeTellsTheBody
  OnlyGrantedRuns
  ExclusiveRunsAlone
  NothingOutlivesTheRun
PROPERTY
  AbortedRunEnds
