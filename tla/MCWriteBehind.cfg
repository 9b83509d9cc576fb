CONSTANTS
  c1 = c1
  c2 = c2
  Callers = {c1, c2}
  MaxEvents = 4
  MaxSeed = 2
  MaxFailures = 2
SPECIFICATION Spec
INVARIANT
  NothingIsLost
PROPERTIES
  ImplementsDurableLog
  EventsLand
  FlushSettles
