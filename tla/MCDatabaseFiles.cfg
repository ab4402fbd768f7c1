SPECIFICATION Spec
CONSTANTS
  Latest = 3
  MaxRows = 4
  MaxFailures = 2
  MaxFaults = 3
INVARIANTS
  TypeOK
  RunsOnWhole
  RowsSurvive
