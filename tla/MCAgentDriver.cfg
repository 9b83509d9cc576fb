CONSTANTS
  Messages = {m1, m2, m3}
  Nobody = Nobody
SPECIFICATION Spec
INVARIANT
  LatchedWakesRun
PROPERTIES
  CancelStopsTheTurn
  ImplementsTurnLog
