CONSTANTS
  Req = {r1, r2, r3, r4}
  Post = {p1, p2}
  Worker = {w1, w2}
  None = None
  Faults = 2
SPECIFICATION FairSpec
INVARIANTS
  TypeOK
  StorageMatchesRows
PROPERTIES
  BundleArrives
CHECK_DEADLOCK FALSE
