CONSTANTS
  Callers = {c1}
  Lives = {s1, s2}
  Entries = {1, 2}
  None = None
  CallerOps = {"prepare", "resume", "append", "create"}
  Loaders = {TRUE, FALSE}
  MaxEvents = 3
  Mishaps = {"fault", "reload"}
  MaxMishaps = 2
SPECIFICATION Spec
SYMMETRY Symmetry
CHECK_DEADLOCK FALSE
INVARIANTS
  OwnerMatchesLog
  RetiredIsDurable
PROPERTY
  RepairsAreCold
