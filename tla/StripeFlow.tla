----------------------------- MODULE StripeFlow -----------------------------
(***************************************************************************)
(* Stripe's webhook events and one rider's billing row: the activation,    *)
(* past-due, exclusivity and terminal paths of                             *)
(* AccountService.applyStripeSubscriptionEvent                             *)
(* (apps/backend/src/modules/account/account.service.ts), the guarded      *)
(* UPDATEs of provider-claim.service.ts and the delivery of the notices    *)
(* they enqueue (subscription-notification.service.ts).                    *)
(*                                                                         *)
(* A flow is one critical section under the rider's subscription lock.  Of *)
(* the lock only what SubscriptionLock shows is kept: an acquisition makes *)
(* its flow the newest, a write passes its fence only for the newest flow, *)
(* and assertHeld passes only for the flow that holds the lease, which may *)
(* lapse under it.  One action is one SQL statement or Stripe call, with   *)
(* the assertion right before it.  Every price names the one paid tier.    *)
(***************************************************************************)
EXTENDS Naturals, FiniteSets

CONSTANTS
  Sub,        \* Stripe subscriptions of the rider
  Flow,
  None,       \* no subscription, no flow
  Store,      \* the store side, as the first to use the trial
  Worlds      \* what the rider starts with and the environment may do, see WorldsAssumption

StripeStatus == {"none", "incomplete", "incomplete_expired", "trialing", "active",
                 "past_due", "unpaid", "paused", "canceled"}
Status == {"active", "trialing", "past_due", "canceled"}
Row    == [provider : {"none", "stripe", "store"}, sub : Sub \cup {None},
           status : Status, tier : {"free", "paid"},
           source : {"none", "subscription", "grant"},
           trialOf : Sub \cup {None, Store}]   \* whose trial set billing_trial_used_at

ASSUME NoneAssumption == None \notin Sub \cup Flow /\ Store \notin Sub \cup {None}
Kinds  == {"confirmed", "cancelled", "billing_failed"}
\* moves: steps Stripe may take; subs, faults: bounds on what exists and happens;
\* mailed: kinds of notice that are followed to their delivery.
ASSUME WorldsAssumption == \A w \in Worlds :
  /\ DOMAIN w = {"row", "moves", "subs", "mailed", "may", "faults"}
  /\ w.row \in Row /\ w.subs \in Nat /\ w.mailed \subseteq Kinds /\ w.faults \in Nat
  /\ w.moves \subseteq StripeStatus \X StripeStatus
  /\ \A m \in w.moves : m[1] \notin {"canceled", "incomplete_expired"} /\ m[2] # "none"

VARIABLES
  world,      \* the member of Worlds this behaviour takes place in
  row,        \* the Stripe columns of the users row
  stripe,     \* the subscriptions as Stripe knows them
  owed,       \* has s an event that is not acknowledged yet?
  open,       \* open work items of the reconciliation table
  mail,       \* queued notices; fresh: still of the newest generation
  holder,     \* who holds the lease
  newest,     \* whose token is the row's fence
  pc, on,     \* on: the subscription or the notice a flow is about
  heard,      \* does Stripe still wait for its answer?
  snap, rec, stored,  \* what the flow read: the row, Stripe's record, the stored id
  ours, refunded,    \* subscriptions we cancelled as losers; those refunded
  faults,     \* faults that have happened
  slips       \* events the code acknowledged although it did not do what they ask

lockVars == <<holder, newest>>
locals   == <<snap, rec, stored>>
stripeVars == <<stripe, owed, ours, refunded, slips>>
frame    == <<world, faults>>
vars == <<frame, row, stripeVars, open, mail, lockVars, pc, on, heard, locals>>

Notice  == [kind : Kinds, sub : Sub, fresh : BOOLEAN]
Record  == [st : StripeStatus, tried : BOOLEAN, ending : BOOLEAN]
NoRec   == [st |-> "none", tried |-> FALSE, ending |-> FALSE]
NoRow   == [provider |-> "none", sub |-> None, status |-> "canceled",
            tier |-> "free", source |-> "none", trialOf |-> None]
PCs     == {"idle", "read", "fetch", "stamp", "clear", "activate", "recheck",
            "pastDue", "claim", "retire", "flush", "flushWon", "dedup", "stale",
            "stored", "ask", "reclaim", "reread", "cancel", "refund", "conflict",
            "reject", "ending", "rejected", "notice", "match", "send"}

TypeOK ==
  /\ world \in Worlds /\ faults \in 0..world.faults
  /\ row \in Row
  /\ stripe \in [Sub -> Record]
  /\ owed \in [Sub -> BOOLEAN]
  /\ open \subseteq {"exclusivity_conflict", "ineligible_trial_rejected"} \X Sub
  /\ mail \subseteq Notice
  /\ holder \in Flow \cup {None} /\ newest \in Flow \cup {None}
  /\ pc \in [Flow -> PCs]
  /\ on \in [Flow -> Sub \cup Notice \cup {None}]
  /\ heard \in [Flow -> BOOLEAN]
  /\ snap \in [Flow -> Row]
  /\ rec \in [Flow -> Record]
  /\ stored \in [Flow -> Sub \cup {None}]
  /\ ours \subseteq Sub /\ refunded \subseteq Sub
  /\ slips \subseteq {"stamp", "reclaim"} \X Sub

Init ==
  /\ world \in Worlds /\ row = world.row
  /\ stripe = [s \in Sub |-> NoRec]
  /\ owed = [s \in Sub |-> FALSE]
  /\ open = {} /\ mail = {}
  /\ holder = None /\ newest = None
  /\ pc = [f \in Flow |-> "idle"]
  /\ on = [f \in Flow |-> None]
  /\ heard = [f \in Flow |-> FALSE]
  /\ snap = [f \in Flow |-> NoRow]
  /\ rec = [f \in Flow |-> NoRec]
  /\ stored = [f \in Flow |-> None]
  /\ ours = {} /\ refunded = {} /\ slips = {}
  /\ faults = 0

Goto(f, to) == pc' = [pc EXCEPT ![f] = to]
Current(f) == newest = f
Held(f) == holder = f

----------------------------------------------------------------------------
(* What a Stripe status means to the row.                                   *)

Live         == {"active", "trialing"}
Entitling    == {"active", "trialing", "past_due"}
Terminal     == {"canceled", "incomplete_expired"}
NeverEntitled == {"incomplete", "incomplete_expired"}

\* A world begins without a Stripe subscription: beside a store's, a grant, or nothing.
ASSUME RowsAssumption == \A w \in Worlds :
  /\ w.row.provider # "stripe" /\ w.row.sub = None
  /\ w.row.status \in Entitling => w.row.provider = "store"

\* NEVER_ENTITLED_STRIPE_STATUSES, "statuses that mean the subscription has NEVER
\* entitled the rider": Stripe sends nothing there but what never got further.
ASSUME LifecycleAssumption == \A w \in Worlds : \A m \in w.moves :
  m[2] \in NeverEntitled => m[1] \in {"none", "incomplete"}

\* Mutant: the raw status goes into the row.
RawStatus(st) == st

statusFromSubscription(st) ==
  CASE st = "trialing"                -> "trialing"
    [] st \in {"past_due", "unpaid"}  -> "past_due"
    [] st = "active"                  -> "active"
    [] OTHER                          -> "canceled"

NewStatus(f) == statusFromSubscription(rec[f].st)
Trialing(f) == rec[f].st = "trialing"

\* Mutant: the stamp asks the status only, and misses a trial that has converted.
ConsumedByStatus(f) == Trialing(f)

\* consumedIntroTrial: did this subscription use the rider's one trial up?
Consumed(f) == rec[f].st \notin NeverEntitled /\ (Trialing(f) \/ rec[f].tried)

\* Mutant: whoever does not pay drops to free.
KeepsNothing(f) == FALSE

\* preservesGrant: a subscription that does not entitle leaves a grant alone.
Keeps(f) ==
  rec[f].st \notin Entitling /\ snap[f].source = "grant" /\ snap[f].tier # "free"

NewTier(f) ==
  IF rec[f].st \in Entitling THEN "paid" ELSE IF Keeps(f) THEN snap[f].tier ELSE "free"

NewSource(f) ==
  IF rec[f].st \in Entitling \/ (snap[f].tier # "free" /\ ~Keeps(f))
  THEN "subscription" ELSE snap[f].source

\* The slot guard of every claim: no other provider, no other subscription.
Claimable(r, s) == r.provider # "store" /\ r.sub \in {None, s}

\* trialMarkerStamp: COALESCE keeps the first stamp.
Stamped(r, f) ==
  IF Consumed(f) /\ r.trialOf = None THEN [r EXCEPT !.trialOf = on[f]] ELSE r

\* Tier, provenance and, unless a grant is kept, the slot.
Claimed(r, f) ==
  [r EXCEPT !.tier = NewTier(f), !.source = NewSource(f),
            !.provider = IF Keeps(f) THEN @ ELSE "stripe",
            !.sub = IF Keeps(f) THEN @ ELSE on[f]]

\* Mutant: a trial is granted whatever the marker says.
EligibleAlways(f) == TRUE

\* TRIAL_ELIGIBLE_PREDICATE, on the grants of a trialing subscription only.
Eligible(f) == Trialing(f) => row.trialOf = None

----------------------------------------------------------------------------
(* A flow begins and ends.                                                   *)

\* An unacknowledged event is delivered; its handler waits for the lock and stamps
\* its token.  Stripe delivers again what it gave up waiting for, so that only the
\* answer of the last delivery counts.
Deliver(f, s) ==
  /\ pc[f] = "idle" /\ owed[s] /\ holder = None
  /\ holder' = f /\ newest' = f
  /\ on' = [on EXCEPT ![f] = s]
  /\ heard' = [g \in Flow |-> IF g = f THEN TRUE ELSE heard[g] /\ on[g] # s]
  /\ Goto(f, "read")
  /\ UNCHANGED <<frame, row, stripeVars, open, mail, locals>>

Leave(f) ==
  /\ Goto(f, "idle")
  /\ holder' = IF holder = f THEN None ELSE holder
  /\ on' = [on EXCEPT ![f] = None]
  /\ heard' = [heard EXCEPT ![f] = FALSE]
  /\ snap' = [snap EXCEPT ![f] = NoRow]
  /\ rec' = [rec EXCEPT ![f] = NoRec]
  /\ stored' = [stored EXCEPT ![f] = None]
  /\ UNCHANGED newest

\* The webhook answers 200.
Ack(f) == Leave(f) /\ owed' = [owed EXCEPT ![on[f]] = @ /\ ~heard[f]]

\* 503, an exception or a dead process: Stripe delivers the event again.
Abort(f) == Leave(f) /\ UNCHANGED owed

\* assertFenceCurrent, then the row as of lock acquisition.
Read(f) ==
  /\ pc[f] = "read"
  /\ IF Current(f)
     THEN /\ Goto(f, "fetch")
          /\ snap' = [snap EXCEPT ![f] = row]
          /\ UNCHANGED <<owed, holder, newest, on, heard, rec, stored>>
     ELSE Abort(f)
  /\ UNCHANGED <<frame, row, stripe, ours, refunded, slips, open, mail>>

\* stripe.getSubscription: the live record decides, never the event's snapshot.
Fetch(f) ==
  /\ pc[f] = "fetch"
  /\ LET r  == stripe[on[f]]
     IN  /\ rec' = [rec EXCEPT ![f] = r]
         /\ Goto(f, CASE r.st \in Terminal  -> "stamp"
                      [] r.st \in Live      -> "activate"
                      [] statusFromSubscription(r.st) = "past_due" -> "pastDue"
                      [] OTHER              -> "claim")
  /\ UNCHANGED <<frame, row, stripeVars, open, mail, lockVars, on, heard, snap, stored>>

----------------------------------------------------------------------------
(* The subscription is over.                                                 *)

\* Trial history is recorded whether or not the slot is this subscription's; a
\* lost fence shows at the clear.
StampEnded(f) ==
  /\ pc[f] = "stamp"
  /\ row' = IF Current(f) THEN Stamped(row, f) ELSE row
  /\ Goto(f, "clear")
  /\ UNCHANGED <<frame, stripeVars, open, mail, lockVars, on, heard, locals>>

\* Mutant: a terminal event clears whatever subscription the slot holds.
OwnsAny(f) == row.provider = "stripe"

\* The identity guard of clearStripeTerminal.
Owns(f) == row.provider = "stripe" /\ row.sub = on[f]

\* A grant outlives the subscription beside it.
KeepsGrant(f) == snap[f].source = "grant"

\* clearStripeTerminal and the gate of the cancellation notice.
Clear(f) ==
  /\ pc[f] = "clear"
  /\ IF Current(f) /\ Owns(f)
     THEN /\ row' = [row EXCEPT !.provider = "none", !.sub = None, !.status = "canceled",
                       !.tier = IF KeepsGrant(f) THEN @ ELSE "free",
                       !.source = IF KeepsGrant(f) THEN @ ELSE "none"]
          /\ IF ~KeepsGrant(f) /\ (snap[f].tier # "free" \/ snap[f].source = "subscription")
             THEN Goto(f, "notice") /\ UNCHANGED <<owed, lockVars, on, heard, locals>>
             ELSE Ack(f)
     ELSE /\ UNCHANGED row
          /\ IF Current(f) THEN Ack(f) ELSE Abort(f)
  /\ UNCHANGED <<frame, stripe, ours, refunded, slips, open, mail>>

----------------------------------------------------------------------------
(* The subscription is alive: transition claims and the exclusivity claim.   *)

\* The activation UPDATE: only from a row that is not live, so that one handler
\* wins and sends the confirmation.  A trial that lost is looked at again if it
\* might be the marker that refused it.
ClaimActive(f) ==
  /\ pc[f] = "activate"
  /\ IF Current(f) /\ row.status \notin Live /\ Claimable(row, on[f]) /\ Eligible(f)
     THEN /\ row' = [Stamped(Claimed(row, f), f) EXCEPT !.status = NewStatus(f)]
          /\ Goto(f, "retire")
     ELSE /\ UNCHANGED row
          /\ Goto(f, IF Trialing(f) /\ Claimable(snap[f], on[f]) /\ snap[f].status \notin Live
                     THEN "recheck" ELSE "claim")
  /\ UNCHANGED <<frame, stripeVars, open, mail, lockVars, on, heard, locals>>

\* isIneligibleTrialRejection on a fresh read.
Recheck(f) ==
  /\ pc[f] = "recheck"
  /\ Goto(f, IF row.trialOf # None /\ row.status \notin Live /\ Claimable(row, on[f])
             THEN "reject" ELSE "claim")
  /\ UNCHANGED <<frame, row, stripeVars, open, mail, lockVars, on, heard, locals>>

ClaimPastDue(f) ==
  /\ pc[f] = "pastDue"
  /\ IF Current(f) /\ row.status # "past_due" /\ Claimable(row, on[f])
     THEN row' = [Claimed(row, f) EXCEPT !.status = "past_due"] /\ Goto(f, "retire")
     ELSE UNCHANGED row /\ Goto(f, "claim")
  /\ UNCHANGED <<frame, stripeVars, open, mail, lockVars, on, heard, locals>>

Retired(f) == IF Keeps(f) THEN open ELSE open \ {<<"exclusivity_conflict", on[f]>>}

\* retireSupersededConflicts after a transition that is already committed.
Retire(f) ==
  /\ pc[f] = "retire"
  /\ open' = Retired(f)
  /\ Goto(f, "flushWon")
  /\ UNCHANGED <<frame, row, stripeVars, mail, lockVars, on, heard, locals>>

\* claimForStripe and the retirement in one transaction.  It writes the status
\* only where no transition claim owns it; no row is a conflict only behind our fence.
Claim(f) ==
  /\ pc[f] = "claim"
  /\ IF Current(f) /\ Claimable(row, on[f])
     THEN /\ row' = [Claimed(row, f) EXCEPT
                       !.status = IF NewStatus(f) = "canceled" THEN "canceled" ELSE @]
          /\ open' = Retired(f)
          /\ Goto(f, "flush")
          /\ UNCHANGED <<owed, lockVars, on, heard, locals>>
     ELSE /\ UNCHANGED <<row, open>>
          /\ IF Current(f)
             THEN Goto(f, "dedup") /\ UNCHANGED <<owed, lockVars, on, heard, locals>>
             ELSE Abort(f)
  /\ UNCHANGED <<frame, stripe, ours, refunded, slips, mail>>

\* The orthogonal fields with the fallback stamp; no row is a benign skip.
Flush(f) ==
  /\ pc[f] \in {"flush", "flushWon"}
  /\ row' = IF Current(f) THEN Stamped(row, f) ELSE row
  /\ IF pc[f] = "flushWon"
     THEN Goto(f, "notice") /\ UNCHANGED <<owed, lockVars, on, heard, locals>>
     ELSE Ack(f)
  /\ slips' = IF pc[f] = "flush" /\ ~Current(f) /\ Consumed(f)
              THEN slips \cup {<<"stamp", on[f]>>} ELSE slips
  /\ UNCHANGED <<frame, stripe, ours, refunded, open, mail>>

----------------------------------------------------------------------------
(* The slot is another's.                                                    *)

\* An open row means a redelivery already handled.  A subscription that is not live
\* is left alone; one that is may be the rider's real new one.
Dedup(f) ==
  /\ pc[f] = "dedup"
  /\ IF <<"exclusivity_conflict", on[f]>> \in open THEN Ack(f)
     ELSE /\ Goto(f, IF NewStatus(f) = "canceled" THEN "stale" ELSE "stored")
          /\ UNCHANGED <<owed, lockVars, on, heard, locals>>
  /\ UNCHANGED <<frame, row, stripe, ours, refunded, slips, open, mail>>

\* Its trial counts all the same, and the stamp fails closed.
StampStale(f) ==
  /\ pc[f] = "stale"
  /\ row' = IF Current(f) THEN Stamped(row, f) ELSE row
  /\ IF Consumed(f) /\ ~Current(f) THEN Abort(f) ELSE Ack(f)
  /\ UNCHANGED <<frame, stripe, ours, refunded, slips, open, mail>>

ReadStored(f) ==
  /\ pc[f] = "stored"
  /\ stored' = [stored EXCEPT ![f] = row.sub]
  /\ Goto(f, "ask")
  /\ UNCHANGED <<frame, row, stripeVars, open, mail, lockVars, on, heard, snap, rec>>

\* getSubscriptionStatus of the stored id; none stored means another provider's slot.
StoredLive(f) == stored[f] # None => stripe[stored[f]].st \in Entitling

AskStored(f) ==
  /\ pc[f] = "ask"
  /\ IF Current(f)
     THEN /\ Goto(f, IF StoredLive(f) THEN "cancel" ELSE "reclaim")
          /\ UNCHANGED <<owed, lockVars, on, heard, locals>>
     ELSE Abort(f)
  /\ UNCHANGED <<frame, row, stripe, ours, refunded, slips, open, mail>>

\* A resubscription takes the slot from the dead one, if that is still there.
Reclaim(f) ==
  /\ pc[f] = "reclaim"
  /\ IF Current(f) /\ row.sub = stored[f] /\ row.provider # "store" /\ Eligible(f)
     THEN /\ row' = [Stamped(Claimed(row, f), f) EXCEPT !.status = NewStatus(f)]
          /\ IF NewStatus(f) \in Live
             THEN Goto(f, "notice") /\ UNCHANGED <<owed, lockVars, on, heard, locals>>
             ELSE Ack(f)
     ELSE /\ Goto(f, "reread")
          /\ UNCHANGED <<row, owed, lockVars, on, heard, locals>>
  /\ UNCHANGED <<frame, stripe, ours, refunded, slips, open, mail>>

\* Why did the reclaim miss: the trial marker, a delivery of the same
\* subscription, or a stranger in the slot?
Reread(f) ==
  /\ pc[f] = "reread"
  /\ IF Trialing(f) /\ row.trialOf # None /\ row.provider # "store" /\ row.sub = stored[f]
     THEN Goto(f, "reject") /\ UNCHANGED <<owed, lockVars, on, heard, locals>>
     ELSE IF row.sub = on[f] THEN Ack(f)
     ELSE Goto(f, "cancel") /\ UNCHANGED <<owed, lockVars, on, heard, locals>>
  /\ slips' = IF row.sub = on[f] /\ ~Current(f) THEN slips \cup {<<"reclaim", on[f]>>} ELSE slips
  /\ UNCHANGED <<frame, row, stripe, ours, refunded, open, mail>>

\* Stripe changed s: there is a new event about it, and what it asks is open again.
Changed(s) ==
  /\ owed' = [owed EXCEPT ![s] = TRUE]
  /\ slips' = {x \in slips : x[2] # s}
  /\ heard' = [g \in Flow |-> heard[g] /\ on[g] # s]

\* Mutant: the lease is not asserted again before the Stripe call.
HeldOnce(f) == TRUE

\* lease.assertHeld before each Stripe call of the compensation.
AssertHeld(f) == Held(f)

\* assertHeld and cancelSubscription of the loser.
Cancel(f) ==
  /\ pc[f] = "cancel"
  /\ IF AssertHeld(f)
     THEN /\ stripe' = [stripe EXCEPT ![on[f]].st = IF @ \in Terminal THEN @ ELSE "canceled"]
          /\ Changed(on[f])
          /\ ours' = ours \cup {on[f]}
          /\ Goto(f, "refund")
          /\ UNCHANGED <<lockVars, on, locals>>
     ELSE Abort(f) /\ UNCHANGED <<stripe, ours, slips>>
  /\ UNCHANGED <<frame, row, refunded, open, mail>>

\* assertHeld and refundOrVoidLatestInvoice.
Refund(f) ==
  /\ pc[f] = "refund"
  /\ IF AssertHeld(f)
     THEN /\ refunded' = refunded \cup {on[f]}
          /\ Goto(f, "conflict")
          /\ UNCHANGED <<owed, lockVars, on, heard, locals>>
     ELSE Abort(f) /\ UNCHANGED refunded
  /\ UNCHANGED <<frame, row, stripe, ours, slips, open, mail>>

OpenConflict(f) ==
  /\ pc[f] = "conflict"
  /\ open' = open \cup {<<"exclusivity_conflict", on[f]>>}
  /\ Ack(f)
  /\ UNCHANGED <<frame, row, stripe, ours, refunded, slips, mail>>

\* rejectIneligibleTrial: only if the miss was no stale fence, and only once.
Reject(f) ==
  /\ pc[f] = "reject"
  /\ IF ~Current(f) THEN Abort(f)
     ELSE IF <<"ineligible_trial_rejected", on[f]>> \in open THEN Ack(f)
     ELSE Goto(f, "ending") /\ UNCHANGED <<owed, lockVars, on, heard, locals>>
  /\ UNCHANGED <<frame, row, stripe, ours, refunded, slips, open, mail>>

\* assertHeld and setCancelAtPeriodEnd: no charge, so no refund.
EndTrial(f) ==
  /\ pc[f] = "ending"
  /\ IF AssertHeld(f)
     THEN /\ stripe' = [stripe EXCEPT ![on[f]].ending = TRUE]
          /\ Changed(on[f])
          /\ Goto(f, "rejected")
          /\ UNCHANGED <<lockVars, on, locals>>
     ELSE Abort(f) /\ UNCHANGED <<stripe, slips>>
  /\ UNCHANGED <<frame, row, ours, refunded, open, mail>>

OpenRejection(f) ==
  /\ pc[f] = "rejected"
  /\ open' = open \cup {<<"ineligible_trial_rejected", on[f]>>}
  /\ Ack(f)
  /\ UNCHANGED <<frame, row, stripe, ours, refunded, slips, mail>>

----------------------------------------------------------------------------
(* Notices.                                                                  *)

NoticeKind(f) ==
  IF NewStatus(f) \in Live THEN "confirmed"
  ELSE IF rec[f].st \in Terminal THEN "cancelled" ELSE "billing_failed"

\* assertHeld, the fenced nextNotifyGeneration, and the job, which may get lost.
Enqueue(f) ==
  /\ pc[f] = "notice"
  /\ IF AssertHeld(f) /\ Current(f)
     THEN /\ \E job \in SUBSET {[kind |-> NoticeKind(f), sub |-> on[f], fresh |-> TRUE]} :
               /\ \A m \in job : m.kind \in world.mailed
               /\ mail' = {[m EXCEPT !.fresh = FALSE] : m \in mail} \cup job
          /\ Ack(f)
     ELSE Abort(f) /\ UNCHANGED mail
  /\ UNCHANGED <<frame, row, stripe, ours, refunded, slips, open>>

\* The worker delivers a notice under the rider's lock.
Take(f, m) ==
  /\ pc[f] = "idle" /\ m \in mail /\ holder = None
  /\ holder' = f /\ newest' = f
  /\ on' = [on EXCEPT ![f] = m]
  /\ Goto(f, "match")
  /\ UNCHANGED <<frame, row, stripeVars, open, mail, heard, locals>>

\* stripeSourceStillMatches: the row, judged for the subscription the notice names.
Announces(m, r) ==
  CASE m.kind = "confirmed"      -> r.sub = m.sub /\ r.status \in Live /\ r.tier = "paid"
    [] m.kind = "cancelled"      -> ~(r.sub = m.sub /\ r.status \in Entitling)
    [] m.kind = "billing_failed" -> r.sub \in {m.sub, None} /\ r.status = "past_due"

\* Mutant: only the generation is compared.
MatchesGeneration(m) == m.fresh

\* The generation and the state, both as of the lock.
Matches(m) == m.fresh /\ Announces(m, row)

\* assertFenceCurrent, the read and both gates: a superseded notice is dropped.
Match(f) ==
  /\ pc[f] = "match"
  /\ IF Current(f) /\ on[f] \in mail /\ Matches(on[f])
     THEN Goto(f, "send") /\ UNCHANGED <<mail, owed, lockVars, on, heard, locals>>
     ELSE /\ mail' = IF Current(f) THEN mail \ {on[f]} ELSE mail
          /\ Abort(f)
  /\ UNCHANGED <<frame, row, stripe, ours, refunded, slips, open>>

\* assertHeld, and a dispatch that is bounded below the lease; BullMQ retries a
\* delivery that threw.
Send(f) ==
  /\ pc[f] = "send"
  /\ mail' = IF Held(f) THEN mail \ {on[f]} ELSE mail
  /\ Abort(f)
  /\ UNCHANGED <<frame, row, stripe, ours, refunded, slips, open>>

----------------------------------------------------------------------------
(* The environment.                                                          *)

\* Stripe moves a subscription on; one that ends with its period can only end.
StripeMoves(s) ==
  /\ \E m \in world.moves :
       /\ stripe[s].st = m[1]
       /\ m[1] = "none" => Cardinality({x \in Sub : stripe[x].st # "none"}) < world.subs
       /\ stripe[s].ending => m[2] \in Terminal
       /\ stripe' = [stripe EXCEPT ![s].st = m[2], ![s].tried = @ \/ m[2] = "trialing"]
  /\ Changed(s)
  /\ UNCHANGED <<frame, row, ours, refunded, open, mail, lockVars, pc, on, locals>>

\* handleCheckoutCompleted, at any time and under no lock: the id goes into a free
\* slot.
CheckoutCompleted(s) ==
  /\ stripe[s].st # "none" /\ Claimable(row, s)
  /\ row' = [row EXCEPT !.sub = s]
  /\ UNCHANGED <<frame, stripeVars, open, mail, lockVars, pc, on, heard, locals>>

Strikes(fault) == fault \in world.may /\ faults < world.faults /\ faults' = faults + 1

\* recomputeRollupInTx(markTrialUsed): a store flow has its turn with the lock and
\* reports that the rider used a store's trial.
StoreTrial ==
  /\ Strikes("storeTrial") /\ holder = None /\ row.trialOf = None
  /\ row' = [row EXCEPT !.trialOf = Store]
  /\ newest' = None
  /\ UNCHANGED <<world, stripeVars, open, mail, holder, pc, on, heard, locals>>

\* The lease runs out under its holder, who goes on.
Lapse ==
  /\ Strikes("lapse") /\ holder # None
  /\ holder' = None
  /\ UNCHANGED <<world, row, stripeVars, open, mail, newest, pc, on, heard, locals>>

\* The process dies, or a statement or a call fails.
Fail(f) ==
  /\ Strikes("fail") /\ pc[f] # "idle"
  /\ Abort(f)
  /\ UNCHANGED <<world, row, stripe, ours, refunded, slips, open, mail>>

EventStep(f) ==
  \/ Read(f) \/ Fetch(f) \/ StampEnded(f) \/ Clear(f)
  \/ ClaimActive(f) \/ Recheck(f) \/ ClaimPastDue(f) \/ Retire(f) \/ Claim(f) \/ Flush(f)
  \/ Dedup(f) \/ StampStale(f) \/ ReadStored(f) \/ AskStored(f) \/ Reclaim(f) \/ Reread(f)
  \/ Cancel(f) \/ Refund(f) \/ OpenConflict(f)
  \/ Reject(f) \/ EndTrial(f) \/ OpenRejection(f) \/ Enqueue(f)

Next ==
  \/ \E f \in Flow :
       \/ EventStep(f) \/ Match(f) \/ Send(f) \/ Fail(f)
       \/ \E s \in Sub : Deliver(f, s)
       \/ \E m \in mail : Take(f, m)
  \/ \E s \in Sub : StripeMoves(s) \/ CheckoutCompleted(s)
  \/ StoreTrial \/ Lapse

Spec == Init /\ [][Next]_vars
----------------------------------------------------------------------------
(* Properties.                                                               *)

AtRest == (\A f \in Flow : pc[f] = "idle") /\ \A s \in Sub : ~owed[s]

\* Do the row and Stripe agree about s?  A dead subscription does not own the slot,
\* one that entitles owns it and is paid for, or is being ended as a second trial,
\* and one that does not entitle gives no paid tier.
Agrees(s) ==
  LET st   == stripe[s].st
      owns == row.provider = "stripe" /\ row.sub = s
  IN  /\ owns => st \notin Terminal
      /\ st \in Entitling =>
           \/ owns /\ row.tier = "paid" /\ row.status \in Entitling
           \/ stripe[s].ending /\ <<"ineligible_trial_rejected", s>> \in open
      /\ owns /\ st \notin Entitling => row.tier = "free"

\* Once every event is acknowledged the row and Stripe agree, whatever was
\* redelivered, reordered, fenced out or cut short, but for a reclaim that took an
\* id in the slot for another delivery's claim (see EventsAreHonoured).
SettledRow == AtRest => \A s \in Sub : Agrees(s) \/ <<"reclaim", s>> \in slips

\* CAUSE 2 of a reclaim that matched no row: "ONE wins the guarded UPDATE (the slot
\* now holds THIS incoming id)".  Then every acknowledged event was honoured.
EventsAreHonoured == AtRest => \A s \in Sub : Agrees(s)

\* The comment above the activation claim: no rider has two trials.  A rider whom a
\* trial entitles is in the trial that the marker was set for.
OneTrial ==
  row.status = "trialing" /\ row.tier = "paid" /\ row.provider = "stripe" =>
    row.trialOf = row.sub

\* A trial that Stripe has let the rider begin is not forgotten: at rest, if a
\* subscription that had one owns the slot, the marker is set, but for a skipped
\* flush (see SkippedFlushIsBenign).
TrialsAreStamped ==
  AtRest => \A s \in Sub :
    stripe[s].tried /\ row.provider = "stripe" /\ row.sub = s /\ <<"stamp", s>> \notin slips
      => row.trialOf # None

\* "A 0-row result is a benign skip (the newer flow already wrote the correct
\* orthogonal fields)": at rest no skipped stamp is missing.
SkippedFlushIsBenign ==
  AtRest /\ (\E s \in Sub : <<"stamp", s>> \in slips) => row.trialOf # None

\* The compensation of a two-session conflict never cancels the subscription that
\* owns the slot at that moment.
WinnersAreNotCancelled ==
  [][\A s \in ours' \ ours : ~(row.provider = "stripe" /\ row.sub = s)]_vars

\* A founder's, promo or admin grant never drops to free: only an entitling
\* subscription takes its place.
GrantsSurvive ==
  [][row.source = "grant" /\ row.tier = "paid" =>
       row'.tier = "paid" /\ row'.source \in {"grant", "subscription"}]_vars

\* What a notice says is true of the row when it is sent, although the row was
\* read before the lease was asserted.  (A checkout takes no lock: between the match
\* and the mail about a failed payment it may fill the slot beside a grant.)
NoticesAreTrue ==
  [][\A f \in Flow : pc[f] = "send" /\ pc'[f] = "idle" /\ on[f] \in mail \ mail' =>
       \/ Announces(on[f], row)
       \/ on[f].kind = "billing_failed" /\ row.status = "past_due"]_vars

\* "A redelivered two-session-conflict webhook retries the refund": when all is
\* acknowledged, a subscription cancelled as the loser has its money back.
LosersAreRefunded == AtRest => ours \subseteq refunded
============================================================================
