CONSTANTS
  u1 = u1
  u2 = u2
  k1 = k1
  k2 = k2
  Stripe = Stripe
  Nobody = Nobody
  Flow = {f1, f2, f3}
  Rider = {u1}
  Key = {k1}
  Jobs <- OverlapJobs
  Granted = {u1}
  Window = 2
  Grace = 0
  StripeStates = {"unpaid", "dormant"}
  StripeEnds = {2, 3}
  MaxNow = 2
  MaxMoves = 3
  LeasesLapse = TRUE
SPECIFICATION Spec
SYMMETRY FlowSymmetry
INVARIANTS
  OverlapTracked
PROPERTIES
  RetiredOnlyIfStopped
