SPECIFICATION Spec
CONSTANTS
  IPs = {i1}
  Burst = 2
  Interval = 2
  CleanupAge = 2
  Horizon = 4
  Users = {u1, u2}
  Passwords = {p1, p2}
  Tokens = {t1, t2}
  ApiKey = ApiKey
  None = None
  Calls = {c1, c2}
  Settings <- Three
SYMMETRY Symmetric
INVARIANTS
  AdmitsLikeBucket
  EndIsFinal
PROPERTIES
  Proven
  AdminOnly
