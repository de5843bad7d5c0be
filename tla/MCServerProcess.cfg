SPECIFICATION FairSpec
CONSTANTS
  Rows = {s1}
  MaxRenewals = 2
  MaxKills = 1
  WritesBusy = TRUE
  Torn = Torn
INVARIANTS
  TypeOK
  OpenIsMigrated
  RowsKept
  NothingMissed
PROPERTIES
  StartsUp
  RenewalShown
CHECK_DEADLOCK FALSE
