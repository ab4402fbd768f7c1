SPECIFICATION Spec
CONSTANTS
  Instances = {"MEmu0"}
  Pictures = {"city", "map"}
  Sightings = 3
  MaxCalls = 3
  MaxReboots = 1
  MaxFaults = 2
INVARIANTS
  TypeOK
  BreakersAreEarned
  IncidentsCutOff
  StuckMustChange
  TasksAreHeld
