CONSTANTS
  Sub = {s1, s2}
  Flow = {f1, f2}
  None = None
  Store = Store
  Worlds <- SlotWorlds
SPECIFICATION Spec
SYMMETRY Interchangeable
INVARIANTS
  TypeOK
  SettledRow
  OneTrial
  TrialsAreStamped
PROPERTIES
  WinnersAreNotCancelled
  GrantsSurvive
  NoticesAreTrue
CHECK_DEADLOCK FALSE
