CONSTANTS
  u1 = u1
  u2 = u2
  k1 = k1
  k2 = k2
  Stripe = Stripe
  Nobody = Nobody
  Flow = {f1, f2, f3}
  Rider = {u1, u2}
  Key = {k1, k2}
  Jobs <- FencingJobs
  Granted = {}
  Window = 2
  Grace = 0
  StripeStates = {"live"}
  StripeEnds = {0}
  MaxNow = 3
  MaxMoves = 2
  LeasesLapse = TRUE
SPECIFICATION Spec
SYMMETRY FlowSymmetry
INVARIANTS
  TypeOK
  RollupFaithful
  StaleMeansNewer
  ConflictMeansForeign
PROPERTIES
  ChainsNeverGoBack
