SPECIFICATION UpdateFairSpec
CONSTANTS
  Text <- Names
  Slots = {j1, j2}
  Depth = 2
INVARIANTS
  UpdateTypeOK
  BinaryKept
  OnlyUpwards
PROPERTIES
  NoDowngrade
  UpdateTakesEffect
CHECK_DEADLOCK FALSE
