CONSTANTS
  Sub = {s1, s2}
  Proc = {p1, p2}
  Item = {i1, i2, i3}
  None = None
  MaxAttempts = 2
  Bounds <- OneThingMore
SPECIFICATION FairSpec
INVARIANTS
  TypeOK
  MismatchIsOnRecord
  PurgeLeavesNothingBilling
PROPERTIES
  TeardownOnlyWhileDue
  FlagConverges
CHECK_DEADLOCK FALSE
