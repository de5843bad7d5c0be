SPECIFICATION Spec
CONSTANTS
  Launches = {l1}
  Stops = {j1}
  Inputs = {}
  Sessions = {s1}
  shared = shared
  UsesWorktree = {s1}
  TmuxName <- AllTheSame
  WorktreePath <- AllTheSame
  ToolsFail = FALSE
  MaxRestarts = 0
  NoJob = NoJob
  NoSession = NoSession
INVARIANTS
  StoppedMeansGone
CHECK_DEADLOCK FALSE
