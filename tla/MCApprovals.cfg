CONSTANTS
  w1 = w1
  r1 = r1
  write = write
  read = read
  h1 = h1
  h2 = h2
  None = None
  Executions = {w1, r1}
  Names = {write, read}
  ActionOf <- MCActionOf
  Writes = {write}
  Hooks = {h1}
  MaxCrashes = 1
SPECIFICATION Spec
INVARIANTS
  ExecutorEnteredAtMostOnce
  EnteredOnlyWhenAuthorized
  CallersAgree
PROPERTY
  ImplementsGuardedWrite
