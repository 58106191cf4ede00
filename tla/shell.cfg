SPECIFICATION SpecIn
CONSTANTS
  Imports = TRUE
  Unreadable = TRUE
  MaxSaves = 2
  MaxStarts = 2
  MaxFailures = 2
  MaxCrashes = 1
  MaxDeaths = 2
  MaxLaunchFailures = 2
  MaxApplications = 4
CHECK_DEADLOCK FALSE
INVARIANTS
  
  AppHasItsPlane
PROPERTIES
  KeysAreKept
  PlanesComeBack
