SPECIFICATION Spec
CONSTANTS
  Sessions = {s1, s2}
  Calls = {c1, c2}
  Ranks = {0, 1}
  MaxItems = 2
  Progress = {"pending", "completed"}
  Verdicts = {"approved"}
  None = None
SYMMETRY Symmetric
INVARIANTS
  AckedIsStored
  BestFirst
PROPERTIES
  HandedOnce
