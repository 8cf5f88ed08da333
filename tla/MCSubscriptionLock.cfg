CONSTANTS
  Flow = {f1, f2}
  NoFlow = NoFlow
  TTL = 2
  OpMax = 2
  Attempts = 2
  Faults = {"crash", "redisLoss", "ioError", "lapse", "riderDeleted"}
SPECIFICATION Spec
SYMMETRY FlowSymmetry
INVARIANTS
  TypeOK
  NoFalseStale
PROPERTIES
  OnlyTheNewestWrites
