SPECIFICATION FairSpec
CONSTANTS
  Clients = {c1}
  Posts = {p1, p2}
  Writers = {w1}
  Capacity = 1
  MaxScreen = 2
  MaxCrashes = 1
INVARIANTS
  ChannelsClosedOnce
  DrainedIsCurrent
PROPERTIES
  StreamReachesViewer
CHECK_DEADLOCK FALSE
