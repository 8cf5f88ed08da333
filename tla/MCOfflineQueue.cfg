CONSTANTS
  Rides = 3
  MaxAttempts = 2
  Bounds <- TwoOrOne
SPECIFICATION FairSpec
INVARIANTS
  TypeOK
  NoRideLost
  DuplicatesNeedALostReply
  RidesLandInOrder
PROPERTIES
  SentOnlyWithConsent
  BacklogDrains
