CONSTANTS
  Rider = {a, b}
  Ride = {r1, r2}
  Call = {c1}
  Drain = {d1}
  Nobody = Nobody
  NoRide = NoRide
  MaxSessions = 2
  MaxFaults = 1
  Killable = TRUE
  Expires = TRUE
SPECIFICATION Spec
SYMMETRY Interchangeable
INVARIANTS
  TypeOK
  NoOrphan
PROPERTIES
  OnlyTheRiderStopsARecordedRide
