CONSTANTS
  u1 = u1
  u2 = u2
  k1 = k1
  k2 = k2
  Stripe = Stripe
  Nobody = Nobody
  Flow = {f1, f2, f3, f4}
  Rider = {u1}
  Key = {k1}
  Jobs <- SweepJobs
  Granted = {}
  Window = 2
  Grace = 0
  StripeStates = {"live"}
  StripeEnds = {2, 4}
  MaxNow = 3
  MaxMoves = 3
  LeasesLapse = FALSE
SPECIFICATION Spec
SYMMETRY FlowSymmetry
PROPERTIES
  SweptRowsYield
