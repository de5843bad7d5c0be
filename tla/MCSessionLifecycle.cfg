SPECIFICATION Spec
CONSTANTS
  Stops = {s1}
  Deletes = {d1}
  HasSSH = TRUE
  MaxCrashes = 1
  NoRow = NoRow
INVARIANTS
  StopSticks
  RunningWasLaunched
PROPERTIES
  OnlyLaunchRevives
CHECK_DEADLOCK FALSE
