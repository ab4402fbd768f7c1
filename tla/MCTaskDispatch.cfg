SPECIFICATION LiveSpec
CONSTANTS
  Tasks = {"gathering", "unknown"}
  Work <- MCWork
  Priority <- MCPriority
  Delaying = {"gathering"}
  Unregistered = {"unknown"}
  Workers = {a, b, c}
  MaxWorkers = 2
  MaxAttempts = 1
  RecentLimit = 1
  MaxFaults = 1
  MaxStops = 1
INVARIANTS
  TypeOK
  TasksRunAlone
  MarkedTasksAreHeld
PROPERTIES
  TasksSettle
