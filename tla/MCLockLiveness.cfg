CONSTANTS
  Flow = {f1, f2}
  NoFlow = NoFlow
  TTL = 2
  OpMax = 2
  Attempts = 2
  Faults = {"crash", "ioError"}
SPECIFICATION FairSpec
INVARIANTS
  ExternalExclusion
  HandoffClean
PROPERTIES
  HoldsHeal
  EveryFlowEnds
