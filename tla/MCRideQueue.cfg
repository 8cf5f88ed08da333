CONSTANTS
  Rider = {a, b}
  Ride = {r1, r2}
  Call = {c1, c2}
  Drain = {d1}
  Nobody = Nobody
  NoRide = NoRide
  MaxSessions = 1
  MaxFaults = 1
  Killable = TRUE
  Expires = TRUE
SPECIFICATION FairSpec
PROPERTIES
  QueueDrains
