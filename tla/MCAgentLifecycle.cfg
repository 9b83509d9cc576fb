CONSTANTS
  Attempts = {1, 2}
  None = None
  MaxSends = 2
SPECIFICATION Spec
CHECK_DEADLOCK FALSE
INVARIANTS
  EdgesArePaired
  NothingDrivesADetachedSession
  NothingOutlivesTheFactory
PROPERTY
  TeardownCompletes
