CONSTANTS
  Callers = {c1}
  Lives = {s1}
  Entries = {1, 2}
  None = None
  CallerOps = {"resume"}
  Loaders = {FALSE}
  MaxEvents = 3
  Mishaps = {}
  MaxMishaps = 0
SPECIFICATION Spec
CHECK_DEADLOCK FALSE
INVARIANT
  ResumedIsBound
