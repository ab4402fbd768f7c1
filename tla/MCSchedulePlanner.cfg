SPECIFICATION MCSpec
CONSTANTS
  plain = plain
  asking = asking
  garbled = garbled
  service = service
  legacy = legacy
  Schedules = {"farm"}
  Evaluators = {service, legacy}
  Editions = {plain, asking, garbled}
  Broken = {garbled}
  StartAt <- MCStartAt
  AskedAt <- MCAskedAt
  Intervals = {3, 6}
  Unit = 3
  MaxTime = 4
  MaxEdits = 1
INVARIANTS
  TypeOK
  OccurrencesAreReal
  DealtWithIsPast
PROPERTIES
  BacklogCollapses
  SchedulesMoveOn
