CONSTANTS
  Sub = {s1, s2}
  Flow = {f1, f2}
  None = None
  Store = Store
  Worlds <- TrialWorlds
SPECIFICATION Spec
SYMMETRY Interchangeable
INVARIANTS
  LosersAreRefunded
CHECK_DEADLOCK FALSE
