SPECIFICATION FairSpec
CONSTANTS
  Commands = {c1, c2}
  Conns = {k1}
  NoConn = NoConn
  FaultKinds = {"break", "poll", "clash", "server", "agent"}
  MaxFaults = 2
PROPERTIES
  DeliversLikeMailbox
  FallbackPollFetches
  NotifiedCommandFetched
CHECK_DEADLOCK FALSE
