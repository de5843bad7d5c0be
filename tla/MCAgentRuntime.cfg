SPECIFICATION Spec
CONSTANTS
  Launches = {l1, l2}
  Stops = {j1, j2}
  Inputs = {i1}
  Sessions = {s1, s2, s3}
  shared = shared
  UsesWorktree = {s1, s2}
  TmuxName <- AllTheSame
  WorktreePath <- AllTheSame
  ToolsFail = TRUE
  MaxRestarts = 1
  NoJob = NoJob
  NoSession = NoSession
SYMMETRY Symmetry
INVARIANTS
  TypeOK
  FailedLaunchCleansUp
  StopEndsSession
  PollersStoppedOnce
CHECK_DEADLOCK FALSE
