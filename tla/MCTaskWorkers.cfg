SPECIFICATION Spec
CONSTANTS
  Tasks = {"help", "gathering"}
  Work <- MCWork
  Priority <- MCPriority
  Delaying = {"gathering"}
  Unregistered = {}
  Workers = {a, b}
  MaxWorkers = 1
  MaxAttempts = 1
  RecentLimit = 1
  MaxFaults = 0
  MaxStops = 1
INVARIANTS
  WorkersBounded
