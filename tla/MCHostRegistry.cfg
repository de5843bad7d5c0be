SPECIFICATION FairSpec
CONSTANTS
  Requests = {r1, r2}
  Sessions = {s1}
  Fields = {name}
  Values = {v1, v2}
  Beats = {b1}
  MaxVersion = 2
  NoRow = NoRow
  None = None
INVARIANTS
  TypeOK
  UnopposedEditsKept
  DeletesWholly
PROPERTIES
  LateWritesHarmless
  RegistryConverges
