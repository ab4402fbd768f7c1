SPECIFICATION LiveSpec
CONSTANTS
  j1 = j1
  j2 = j2
  Jobs <- MCJobs
  Service = service
  Callers = {legacy}
  Rank <- MCRank
  DueAt <- MCDueAt
  BatchSize = 2
  StaleAfter = 1
  MaxTime = 3
  NoJob = NoJob
  Damaged <- MCDamaged
INVARIANTS
  TypeOK
  StartedAtMostOnce
  SingleSubmission
  StartedIsVisible
  PendingIsUnowned
PROPERTIES
  QueuedResolves
  ImplementsLifecycle
CHECK_DEADLOCK FALSE
