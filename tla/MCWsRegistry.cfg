SPECIFICATION RegistryFairSpec
CONSTANTS
  Conns = {k1, k2}
  Commands = {n1, n2}
  NoConn = NoConn
INVARIANTS
  NoZombieConnection
PROPERTIES
  DeadAndReplacedGo
CHECK_DEADLOCK FALSE
