CONSTANTS
  e1 = e1
  e2 = e2
  Executions = {e1, e2}
  Contents = {a, b, x}
  Rejected = {x}
  Missing = Missing
  Readers = {r1}
  MaxVersion = 2
  MaxEdits = 1
  MaxCrashes = 2
SPECIFICATION Spec
SYMMETRY ExecutionSymmetry
INVARIANTS
  WriteIsAccounted
  OneWritePerVersion
  VersionNamesOneContent
  ProjectionLagsByOneWrite
