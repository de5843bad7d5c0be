SPECIFICATION HookFairSpec
CONSTANTS
  Sockets = {s1, s2, s3, s4, s5}
  NoSocket = NoSocket
PROPERTIES
  OpensOnlyWhenWanted
  Retried
CHECK_DEADLOCK FALSE
