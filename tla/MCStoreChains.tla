--------------------------- MODULE MCStoreChains ---------------------------
(* StoreChains with a handful of store events, for TLC.                      *)
EXTENDS StoreChains, TLC

CONSTANTS u1, u2, k1, k2

FlowSymmetry == Permutations(Flow)

Event(r, k, tier, seen, end, renew) ==
  [kind |-> "chain", rider |-> r, key |-> k, tier |-> tier, seen |-> seen,
   end |-> end, renew |-> renew]
Task(kind, r) == [kind |-> kind, rider |-> r]

\* A Premium chain that is cancelled and renewed, a Pro chain of unknown end, and
\* another rider who reports the first purchase as theirs.
FencingJobs == {Event(u1, k1, 2, 1, 2, TRUE), Event(u1, k1, 2, 2, 3, TRUE),
                Event(u1, k1, 2, 2, 2, FALSE), Event(u1, k2, 1, 1, NoEnd, TRUE),
                Event(u2, k1, 2, 1, 2, TRUE), Task("recompute", u1)}

\* A chain that stops, a Stripe subscription that stops and comes back, and the sweep.
OverlapJobs == {Event(u1, k1, 1, 1, NoEnd, TRUE), Event(u1, k1, 1, 2, 2, FALSE),
                Task("stripe", u1), Task("sweep", u1)}

\* A chain, a Stripe subscription that renews, and the sweep.
SweepJobs == {Event(u1, k1, 1, 1, 3, TRUE), Task("stripe", u1), Task("sweep", u1)}
============================================================================
