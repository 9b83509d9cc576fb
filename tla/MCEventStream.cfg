CONSTANTS
  Conns = {1, 2, 3}
  MaxEvents = 4
  MaxCrashes = 1
  MaxCloses = 1
  MaxFaults = 1
SPECIFICATION Spec
CHECK_DEADLOCK FALSE
INVARIANT
  DeliveredExactlyOnce
PROPERTY
  CatchesUp
