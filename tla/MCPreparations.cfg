CONSTANTS
  Callers = {c1, c2}
  Lives = {s1}
  Entries = {1, 2, 3}
  None = None
  CallerOps = {"prepare", "load", "inspect", "append"}
  Loaders = {TRUE}
  MaxEvents = 3
  Mishaps = {"fault", "outside"}
  MaxMishaps = 1
SPECIFICATION Spec
SYMMETRY Symmetry
CHECK_DEADLOCK FALSE
INVARIANTS
  ReservationHoldsTheLog
  EveryWaitEnds
  LoadedIsDurable
