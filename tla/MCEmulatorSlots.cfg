SPECIFICATION Spec
CONSTANTS
  Instances = {1, 2, 3}
  Threads = {a, b, c}
  MaxActive = 2
  MaxFaults = 2
INVARIANTS
  PlacesAreReleased
  LaunchesKeepLimit
