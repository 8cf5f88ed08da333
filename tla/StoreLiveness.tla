--------------------------- MODULE StoreLiveness ---------------------------
(***************************************************************************)
(* The pure rules of store subscription chains                             *)
(* (apps/backend/src/modules/account/store-chain-liveness.ts,              *)
(* store-rollup.ts, store-overlap.ts): when a source entitles, when it     *)
(* will charge again, what the rider's roll-up is, when a pair escalates.  *)
(* A source is a record with at least end, seen and renew; times are       *)
(* positive naturals and NoEnd stands for a null period end.               *)
(***************************************************************************)
EXTENDS Integers, FiniteSetsExt

CONSTANTS
  Window,   \* TARMOTO_BILLING_OVERLAP_FALLBACK_DAYS, in ticks
  Grace     \* TARMOTO_BILLING_OVERLAP_GRACE_HOURS, in ticks

ASSUME WindowAssumption == Window \in Nat \ {0} /\ Grace \in Nat

NoEnd == 0

\* effectivePeriodEnd: the known end, or a window from the last observation.
EffectiveEnd(p) == IF p.end = NoEnd THEN p.seen + Window ELSE p.end

\* isSourceLive, LIVE_CHAIN_SQL: does the source still entitle?
SourceLive(p, t) == EffectiveEnd(p) > t

\* isFutureBilling, FUTURE_BILLING_CHAIN_SQL: will it charge again?  renew is
\* "neither terminal nor cancelling at the period end".
FutureBilling(p, t) == p.renew /\ SourceLive(p, t)

\* Store tiers are ranked as higherTier ranks them; 0 is "no store side".
StoreTier == {1, 2}
NoStore   == [tier |-> 0, until |-> 0]

\* Mutant: the latest end among all live chains.
RollupOverAll(S) ==
  IF S = {} THEN NoStore
  ELSE [tier |-> Max({p.tier : p \in S}), until |-> Max({EffectiveEnd(p) : p \in S})]

\* Mutant: a null end bounds nothing.
RollupUnbounded(S) ==
  IF S = {} THEN NoStore
  ELSE [tier |-> Max({p.tier : p \in S}), until |-> Max({p.end : p \in S})]

\* computeStoreRollup: the highest tier of the live chains S, trusted until the
\* latest end among the chains of that tier.
StoreRollup(S) ==
  IF S = {} THEN NoStore
  ELSE LET top == Max({p.tier : p \in S})
       IN  [tier  |-> top,
            until |-> Max({EffectiveEnd(p) : p \in {q \in S : q.tier = top}})]

\* computeEscalateAfter: the earlier of two effective ends, and the grace.
EscalateAfter(e1, e2) == (IF e1 < e2 THEN e1 ELSE e2) + Grace
============================================================================
