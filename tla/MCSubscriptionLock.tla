------------------------ MODULE MCSubscriptionLock ------------------------
(* SubscriptionLock with small sets of flows and short leases, for TLC.     *)
EXTENDS SubscriptionLock, TLC

\* Flows are interchangeable: each starts in the same state and no action
\* singles one out.  Not used by the liveness run.
FlowSymmetry == Permutations(Flow)
============================================================================
