---------------------------- MODULE StoreChains ----------------------------
(***************************************************************************)
(* Store subscription chains, the roll-up in the rider's row and the       *)
(* provisional overlap pairs                                               *)
(* (apps/backend/src/modules/account/store-chain-writer.service.ts), with  *)
(* the Stripe settle points that sync overlaps (account.service.ts).       *)
(*                                                                         *)
(* A flow is one critical section under the rider's subscription lock.  Of *)
(* the lock only what FencedRow promises is kept: an acquisition stamps a  *)
(* new fence, and a lease may lapse, so that an older flow goes on beside  *)
(* a newer one.  One action is one SQL statement; what a transaction wrote *)
(* stays with its flow until it commits, behind the row locks it holds.    *)
(* A rider has at most one Stripe subscription here.                       *)
(***************************************************************************)
EXTENDS StoreLiveness

CONSTANTS
  Rider, Flow, Key,   \* Key: a store chain's (provider, target_key)
  Stripe,             \* the Stripe member of an overlap pair
  Nobody,             \* no owner, no lock holder
  Jobs,               \* what flows may be asked to do
  Granted,            \* riders who start with a founder/promo/admin grant
  StripeStates,       \* states a subscription that has not ended may be in
  StripeEnds,         \* period ends Stripe may report, NoEnd for none
  MaxNow,             \* bound on the clock
  MaxMoves,           \* bound on how often Stripe moves a subscription
  LeasesLapse         \* may a lease lapse under a running flow?

Kinds == {"chain", "recompute", "sweep", "stripe"}

ASSUME NobodyAssumption == Nobody \notin Rider \cup Flow /\ Stripe \notin Key
ASSUME KeyAssumption == IsFiniteSet(Key)    \* a table has finitely many rows
ASSUME JobAssumption ==
  \A j \in Jobs :
    /\ j.kind \in Kinds /\ j.rider \in Rider
    /\ j.kind = "chain" => /\ j.key \in Key /\ j.tier \in StoreTier
                           /\ j.seen \in Nat \ {0} /\ j.end \in Nat
                           /\ j.renew \in BOOLEAN
ASSUME BoundAssumption ==
  /\ Granted \subseteq Rider /\ StripeStates \subseteq {"unpaid", "dormant", "live"}
  /\ StripeEnds \subseteq Nat /\ MaxNow \in Nat /\ MaxMoves \in Nat
  /\ LeasesLapse \in BOOLEAN

VARIABLES
  now,        \* the clock
  sub,        \* the Stripe subscription as Stripe knows it
  fence,      \* users.subscription_lock_fence
  seq,        \* subscription_lock_fence_seq
  rollup,     \* users.store_subscription_tier and _expires_at
  stripe,     \* the Stripe side of the users row
  chain,      \* store_subscriptions
  overlap,    \* deadline of each pair's provisional row, 0 if it has none
  rowLock,    \* who holds the users row
  chainLock,  \* who holds the chain row, or has inserted it uncommitted
  pc, job, token,
  draft,      \* roll-up a transaction has computed
  record,     \* what getSubscription answered
  due,        \* rows the deadline sweep selected, and when, before it took the lock
  acked       \* history: the newest version of the subscription whose event a flow
              \* has acknowledged

subVars  == <<sub, acked>>
rowVars  == <<fence, rollup, stripe>>
lockVars == <<rowLock, chainLock>>
flowVars == <<job, token, draft, record, due>>
vars     == <<now, subVars, rowVars, seq, chain, overlap, lockVars, pc, flowVars>>

Member   == Key \cup {Stripe}
Pairs    == {p \in SUBSET Member : Cardinality(p) = 2}
NoChain  == [owner |-> Nobody, tier |-> 0, seen |-> 0, end |-> NoEnd,
             renew |-> FALSE, fence |-> 0]
NoJob    == [kind |-> "none"]
\* "unpaid" is past_due or unpaid, "dormant" incomplete or paused; only "ended" is final.
SubStates == {"none", "unpaid", "dormant", "live", "ended"}
\* renew is the negated cancel_at_period_end; version counts Stripe's moves.
NoSub    == [state |-> "none", end |-> NoEnd, renew |-> FALSE, version |-> 0]
NotDue   == [rows |-> {}, at |-> 0]
\* "late" is "done" for a flow whose sync ran after a newer holder took over.
Outcomes == {"claimed", "stale", "conflict", "done", "late", "busy", "crashed"}
PCs      == Outcomes \cup {"idle", "acquire", "update", "classify", "insert",
                           "disambiguate", "rollup", "stamp", "sync", "sweep",
                           "fetch", "settle", "stripeSync"}

\* users_store_rollup_paired_check: both columns are set or neither is.
RollupPair == {NoStore} \cup [tier : StoreTier, until : Nat \ {0}]

TypeOK ==
  /\ now \in Nat \ {0} /\ seq \in Nat
  /\ sub \in [Rider -> [state : SubStates, end : Nat, renew : BOOLEAN, version : Nat]]
  /\ fence \in [Rider -> Nat]
  /\ rollup \in [Rider -> RollupPair]
  /\ stripe \in [Rider -> [owned : BOOLEAN, renew : BOOLEAN, end : Nat,
                           seen : Nat, touched : Nat, grant : BOOLEAN]]
  /\ chain \in [Key -> [owner : Rider \cup {Nobody}, tier : StoreTier \cup {0},
                        seen : Nat, end : Nat, renew : BOOLEAN, fence : Nat]]
  /\ overlap \in [Rider -> [Pairs -> Nat]]
  /\ rowLock \in [Rider -> Flow \cup {Nobody}]
  /\ chainLock \in [Key -> Flow \cup {Nobody}]
  /\ pc \in [Flow -> PCs]
  /\ job \in [Flow -> Jobs \cup {NoJob}]
  /\ token \in [Flow -> Nat]
  /\ draft \in [Flow -> RollupPair]
  /\ record \in [Flow -> [state : SubStates, end : Nat, renew : BOOLEAN, version : Nat]]
  /\ due \in [Flow -> [rows : SUBSET Pairs, at : Nat]]
  /\ acked \in [Rider -> Nat]

Init ==
  /\ now = 1 /\ seq = 0
  /\ sub = [r \in Rider |-> NoSub]
  /\ fence = [r \in Rider |-> 0]
  /\ rollup = [r \in Rider |-> NoStore]
  /\ stripe = [r \in Rider |-> [owned |-> FALSE, renew |-> FALSE, end |-> NoEnd,
                                seen |-> 0, touched |-> 0, grant |-> r \in Granted]]
  /\ chain = [k \in Key |-> NoChain]
  /\ overlap = [r \in Rider |-> [p \in Pairs |-> 0]]
  /\ rowLock = [r \in Rider |-> Nobody]
  /\ chainLock = [k \in Key |-> Nobody]
  /\ pc = [f \in Flow |-> "idle"]
  /\ job = [f \in Flow |-> NoJob]
  /\ token = [f \in Flow |-> 0]
  /\ draft = [f \in Flow |-> NoStore]
  /\ record = [f \in Flow |-> NoSub]
  /\ due = [f \in Flow |-> NotDue]
  /\ acked = [r \in Rider |-> 0]

Goto(f, to) == pc' = [pc EXCEPT ![f] = to]
rider(f)    == job[f].rider
Running(f)  == pc[f] \notin Outcomes \cup {"idle", "acquire"}

\* A transaction ends: its row locks go with it.
Unlock(f) ==
  /\ rowLock' = [r \in Rider |-> IF rowLock[r] = f THEN Nobody ELSE rowLock[r]]
  /\ chainLock' = [k \in Key |-> IF chainLock[k] = f THEN Nobody ELSE chainLock[k]]

\* assertSubscriptionFenceCurrent: has a newer holder passed this flow?
FencedOut(f) == fence[rider(f)] > token[f]

----------------------------------------------------------------------------
(* Taking the lock.                                                         *)

DuePairs(r) == {p \in Pairs : overlap[r][p] # 0 /\ overlap[r][p] <= now}

\* A flow is asked for a job.  Both sweeps select their due rows before they take
\* any lock.
Begin(f) ==
  /\ pc[f] = "idle"
  /\ \E j \in Jobs :
       /\ CASE j.kind = "chain"     -> j.seen <= now
            [] j.kind = "recompute" -> rollup[j.rider].tier # 0 /\ rollup[j.rider].until <= now
            [] j.kind = "sweep"     -> DuePairs(j.rider) # {}
            [] OTHER                -> sub[j.rider] # NoSub
       /\ job' = [job EXCEPT ![f] = j]
       /\ due' = [due EXCEPT ![f] = IF j.kind = "sweep"
                                    THEN [rows |-> DuePairs(j.rider), at |-> now] ELSE NotDue]
  /\ Goto(f, "acquire")
  /\ UNCHANGED <<now, subVars, rowVars, seq, chain, overlap, lockVars, token, draft, record>>

\* runExclusive: the UPDATE that takes the lease waits for the row and stamps the
\* new token.
Acquire(f) ==
  /\ pc[f] = "acquire" /\ rowLock[rider(f)] = Nobody
  /\ LeasesLapse \/ \A g \in Flow : Running(g) => rider(g) # rider(f)
  /\ seq' = seq + 1
  /\ token' = [token EXCEPT ![f] = seq + 1]
  /\ fence' = [fence EXCEPT ![rider(f)] = seq + 1]
  /\ Goto(f, CASE job[f].kind = "chain"     -> "update"
               [] job[f].kind = "recompute" -> "rollup"
               [] job[f].kind = "sweep"     -> "sweep"
               [] OTHER                     -> "fetch")
  /\ UNCHANGED <<now, subVars, rollup, stripe, chain, overlap, lockVars, job, draft, record, due>>

----------------------------------------------------------------------------
(* applyChainState: upsertChainRow.                                         *)

\* The row the upsert of f writes.
Written(f) == [owner |-> rider(f), tier |-> job[f].tier, seen |-> job[f].seen,
               end |-> job[f].end, renew |-> job[f].renew, fence |-> token[f]]

\* Mutant: the ordering guard compares nothing.
UpdatableUnordered(f) ==
  LET c == chain[job[f].key]
  IN  c.owner = rider(f) /\ c.fence <= token[f]

\* WHERE clause of the guarded UPDATE: ours, not newer, not fenced.
Updatable(f) ==
  LET c == chain[job[f].key]
  IN  c.owner = rider(f) /\ c.seen <= job[f].seen /\ c.fence <= token[f]

\* The transaction of f locks the chain row and leaves its version there.
WriteChain(f) ==
  /\ chainLock[job[f].key] = Nobody
  /\ chainLock' = [chainLock EXCEPT ![job[f].key] = f]
  /\ Goto(f, "rollup")
  /\ UNCHANGED <<now, subVars, rowVars, seq, chain, overlap, rowLock, flowVars>>

UpdateChain(f) == pc[f] = "update" /\ Updatable(f) /\ WriteChain(f)

UpdateMisses(f) ==
  /\ pc[f] = "update" /\ ~Updatable(f)
  /\ Goto(f, "classify")
  /\ UNCHANGED <<now, subVars, rowVars, seq, chain, overlap, lockVars, flowVars>>

\* Mutant: a miss on our own chain is taken for an older read, whatever the fence.
ClassifyUnfenced(f) ==
  /\ pc[f] = "classify"
  /\ Goto(f, IF chain[job[f].key].owner = rider(f) THEN "stale" ELSE "insert")
  /\ UNCHANGED <<now, subVars, rowVars, seq, chain, overlap, lockVars, flowVars>>

\* The zero-row result: a chain of ours is stale or we are fenced out; otherwise
\* it is to be inserted.
Classify(f) ==
  /\ pc[f] = "classify"
  /\ Goto(f, IF chain[job[f].key].owner # rider(f) THEN "insert"
             ELSE IF FencedOut(f) THEN "busy" ELSE "stale")
  /\ UNCHANGED <<now, subVars, rowVars, seq, chain, overlap, lockVars, flowVars>>

InsertChain(f) ==
  pc[f] = "insert" /\ chain[job[f].key].owner = Nobody /\ WriteChain(f)

\* The unique index rejects the INSERT (23505) and aborts the transaction.
InsertClashes(f) ==
  /\ pc[f] = "insert" /\ chain[job[f].key].owner # Nobody
  /\ Goto(f, "disambiguate")
  /\ UNCHANGED <<now, subVars, rowVars, seq, chain, overlap, lockVars, flowVars>>

\* Mutant: every 23505 is an ownership conflict.
ClashIsConflict(f) ==
  /\ pc[f] = "disambiguate"
  /\ Goto(f, "conflict")
  /\ UNCHANGED <<now, subVars, rowVars, seq, chain, overlap, lockVars, flowVars>>

\* The read after the abort: whose row was in the way?
Disambiguate(f) ==
  /\ pc[f] = "disambiguate"
  /\ Goto(f, IF chain[job[f].key].owner # rider(f) THEN "conflict"
             ELSE IF FencedOut(f) THEN "busy" ELSE "stale")
  /\ UNCHANGED <<now, subVars, rowVars, seq, chain, overlap, lockVars, flowVars>>

----------------------------------------------------------------------------
(* recomputeRollupInTx.                                                     *)

\* The chains a transaction of f sees: the committed ones and its own.
Visible(f) == [k \in Key |-> IF chainLock[k] = f THEN Written(f) ELSE chain[k]]

LiveChains(view, r) == {view[k] : k \in {j \in Key : view[j].owner = r /\ SourceLive(view[j], now)}}

ReadRollup(f) ==
  /\ pc[f] = "rollup"
  /\ draft' = [draft EXCEPT ![f] = StoreRollup(LiveChains(Visible(f), rider(f)))]
  /\ Goto(f, "stamp")
  /\ UNCHANGED <<now, subVars, rowVars, seq, chain, overlap, lockVars, job, token, record, due>>

\* Mutant: the UPDATE of the roll-up carries no fence.
StampUnfenced(f) ==
  /\ pc[f] = "stamp" /\ rowLock[rider(f)] = Nobody
  /\ rowLock' = [rowLock EXCEPT ![rider(f)] = f]
  /\ Goto(f, "sync")
  /\ UNCHANGED <<now, subVars, rowVars, seq, chain, overlap, chainLock, flowVars>>

\* The fence-guarded UPDATE of the users row: it keeps the row locked until the
\* transaction ends; no row means a newer holder, and everything rolls back.
StampRollup(f) ==
  /\ pc[f] = "stamp" /\ rowLock[rider(f)] = Nobody
  /\ IF FencedOut(f)
     THEN Unlock(f) /\ Goto(f, "busy")
     ELSE /\ rowLock' = [rowLock EXCEPT ![rider(f)] = f]
          /\ Goto(f, "sync")
          /\ UNCHANGED chainLock
  /\ UNCHANGED <<now, subVars, rowVars, seq, chain, overlap, flowVars>>

----------------------------------------------------------------------------
(* syncOverlapsInTx: one reading of the rider's sources, under the row lock. *)

\* The Stripe side as the row alone tells it: anchored on the last observation, or
\* on updated_at before there was one.
StripeSource(row) ==
  [renew |-> row.renew, end |-> row.end,
   seen |-> IF row.seen = 0 THEN row.touched ELSE row.seen]

\* statusFromSubscription: an incomplete or paused subscription reads as canceled too.
Terminal(rec) == rec.state \in {"dormant", "ended"}

\* Mutant: the identity is read off the event only, not off the row.
ReadingOfEvent(view, r, row, rec) ==
  LET matched == rec.state \in {"unpaid", "live"}
      source  == [renew |-> matched /\ rec.renew, end |-> rec.end, seen |-> now]
      keys    == {k \in Key : view[k].owner = r /\ FutureBilling(view[k], now)}
  IN  [sources       |-> IF FutureBilling(source, now) THEN keys \cup {Stripe} ELSE keys,
       stripeEnd     |-> EffectiveEnd(source),
       indeterminate |-> ~matched /\ FutureBilling(StripeSource(row), now),
       endedMember   |-> Terminal(rec),
       observed      |-> matched]

\* loadFutureBillingSources with the rider's row as the transaction sees it and the
\* Stripe record rec (NoSub if the caller has none).  A terminal record is never adopted as
\* the tracked identity, and a record that names it is believed over the row.
Reading(view, r, row, rec) ==
  LET known   == row.owned \/ rec.state \in {"unpaid", "live"}
      matched == rec # NoSub /\ known
      source  == IF matched
                 THEN [renew |-> ~Terminal(rec) /\ rec.renew, end |-> rec.end, seen |-> now]
                 ELSE StripeSource(row)
      bills   == FutureBilling(source, now)
      keys    == {k \in Key : view[k].owner = r /\ FutureBilling(view[k], now)}
  IN  [sources       |-> IF bills /\ known THEN keys \cup {Stripe} ELSE keys,
       stripeEnd     |-> EffectiveEnd(source),
       indeterminate |-> bills /\ ~known,
       endedMember   |-> Terminal(rec),
       observed      |-> matched /\ ~Terminal(rec)]

\* Mutant: a member that cannot be seen has stopped.
AbsentIsStopped(read, m) == m \notin read.sources

\* A member stopped affirmatively: absent, and not merely unseeable.
MemberStopped(read, m) ==
  /\ m \notin read.sources
  /\ m = Stripe => ~read.indeterminate \/ read.endedMember

\* When a member's effective period ends, for the deadline; one the reading could
\* not see counts as observed when the sweep began, at t.
MemberEnd(view, read, t, m) ==
  IF m \notin read.sources THEN t + Window
  ELSE IF m = Stripe THEN read.stripeEnd ELSE EffectiveEnd(view[m])

PairDeadline(view, read, t, p) ==
  LET a == CHOOSE m \in p : TRUE
      b == CHOOSE m \in p : m # a
  IN  EscalateAfter(MemberEnd(view, read, t, a), MemberEnd(view, read, t, b))

\* Retire, then create or refresh every pair of billing sources.
Synced(view, r, read) ==
  [p \in Pairs |->
     IF \E m \in p : MemberStopped(read, m) THEN 0
     ELSE IF p \subseteq read.sources THEN PairDeadline(view, read, now, p)
     ELSE overlap[r][p]]

\* A row that is retired is not the row a sweep selected, even if its pair comes
\* back: the new row has a new id.
Forget(r) ==
  due' = [g \in Flow |->
            IF job[g] # NoJob /\ rider(g) = r
            THEN [due[g] EXCEPT !.rows = {p \in @ : overlap'[r][p] # 0}]
            ELSE due[g]]

SyncOverlaps(view, r, row, rec) ==
  LET read == Reading(view, r, row, rec)
  IN  /\ overlap' = [overlap EXCEPT ![r] = Synced(view, r, read)]
      /\ stripe' = [stripe EXCEPT ![r] = [row EXCEPT !.seen = IF read.observed THEN now ELSE @]]
      /\ Forget(r)

\* The rider's row in a transaction that has stamped the roll-up: TypeORM moves
\* updated_at in the same UPDATE.
Touched(r) == [stripe[r] EXCEPT !.touched = now]

\* The end of applyChainState: sync, and commit of chain, roll-up and pairs.
CommitChain(f) ==
  /\ pc[f] = "sync" /\ job[f].kind = "chain"
  /\ chain' = Visible(f)
  /\ rollup' = [rollup EXCEPT ![rider(f)] = draft[f]]
  /\ SyncOverlaps(Visible(f), rider(f), Touched(rider(f)), NoSub)
  /\ Unlock(f)
  /\ Goto(f, "claimed")
  /\ UNCHANGED <<now, subVars, fence, seq, job, token, draft, record>>

\* recomputeExpiredRollups: the transaction is the recomputation alone.
CommitRecompute(f) ==
  /\ pc[f] = "sync" /\ job[f].kind = "recompute"
  /\ rollup' = [rollup EXCEPT ![rider(f)] = draft[f]]
  /\ stripe' = [stripe EXCEPT ![rider(f)] = Touched(rider(f))]
  /\ Unlock(f)
  /\ Goto(f, "done")
  /\ UNCHANGED <<now, subVars, fence, seq, chain, overlap, flowVars>>

----------------------------------------------------------------------------
(* sweepDueOverlaps.                                                        *)

\* Mutant: an undecidable row keeps its deadline.
SweptFrozen(f, read) ==
  LET r == rider(f)
  IN  [p \in Pairs |->
         IF p \in due[f].rows /\ \E m \in p : MemberStopped(read, m) THEN 0
         ELSE overlap[r][p]]

\* Each selected row is retired, or its deadline moves on.
Swept(f, read) ==
  LET r == rider(f)
  IN  [p \in Pairs |->
         IF p \notin due[f].rows THEN overlap[r][p]
         ELSE IF \E m \in p : MemberStopped(read, m) THEN 0
         ELSE PairDeadline(chain, read, due[f].at, p)]

\* SELECT ... FOR UPDATE of the users row, then everything under it.
Sweep(f) ==
  /\ pc[f] = "sweep" /\ rowLock[rider(f)] = Nobody
  /\ overlap' = [overlap EXCEPT ![rider(f)] = Swept(f, Reading(chain, rider(f), stripe[rider(f)], NoSub))]
  /\ Forget(rider(f))
  /\ Goto(f, "done")
  /\ UNCHANGED <<now, subVars, rowVars, seq, chain, lockVars, job, token, draft, record>>

----------------------------------------------------------------------------
(* applyStripeSubscriptionEvent, as far as overlaps go.                     *)

\* assertFenceCurrent, the re-read, and the live subscription from Stripe.
Fetch(f) ==
  /\ pc[f] = "fetch"
  /\ IF FencedOut(f)
     THEN Goto(f, "busy") /\ UNCHANGED record
     ELSE Goto(f, "settle") /\ record' = [record EXCEPT ![f] = sub[rider(f)]]
  /\ UNCHANGED <<now, subVars, rowVars, seq, chain, overlap, lockVars, job, token, draft, due>>

\* What the guarded write leaves in the row: the terminal clear needs ownership; a
\* subscription that does not entitle does not take the slot from a grant; the status and
\* the cancel flag are those of the record.
Settled(row, rec) ==
  CASE rec.state = "ended" ->
         IF row.owned THEN [row EXCEPT !.owned = FALSE, !.renew = FALSE, !.touched = now]
                      ELSE row
    [] rec.state = "live"  ->
         [row EXCEPT !.owned = TRUE, !.renew = rec.renew, !.end = rec.end, !.grant = FALSE,
                     !.touched = now]
    [] OTHER ->
         [row EXCEPT !.owned = @ \/ ~row.grant, !.renew = ~Terminal(rec) /\ rec.renew,
                     !.end = rec.end, !.touched = now]

\* clearStripeTerminal, or the transition UPDATE and claimForStripe: one fenced
\* write to the users row, 503 when a newer holder is ahead.
Settle(f) ==
  /\ pc[f] = "settle" /\ rowLock[rider(f)] = Nobody
  /\ IF FencedOut(f)
     THEN Goto(f, "busy") /\ UNCHANGED stripe
     ELSE /\ stripe' = [stripe EXCEPT ![rider(f)] = Settled(@, record[f])]
          /\ Goto(f, "stripeSync")
  /\ UNCHANGED <<now, subVars, fence, rollup, seq, chain, overlap, lockVars, flowVars>>

\* syncOverlapsAfterBillingChange: a transaction of its own, behind no fence.  The handler
\* returns after it, which acknowledges the event.
StripeSync(f) ==
  /\ pc[f] = "stripeSync" /\ rowLock[rider(f)] = Nobody
  /\ SyncOverlaps(chain, rider(f), stripe[rider(f)], record[f])
  /\ Goto(f, IF FencedOut(f) THEN "late" ELSE "done")
  /\ record' = [record EXCEPT ![f] = NoSub]
  /\ acked' = [acked EXCEPT ![rider(f)] = IF @ < record[f].version THEN record[f].version ELSE @]
  /\ UNCHANGED <<now, sub, fence, rollup, seq, chain, lockVars, job, token, draft>>

----------------------------------------------------------------------------
(* The environment.                                                         *)

\* The process dies or a statement fails: the open transaction rolls back.
Crash(f) ==
  /\ Running(f)
  /\ Unlock(f)
  /\ Goto(f, "crashed")
  /\ UNCHANGED <<now, subVars, rowVars, seq, chain, overlap, flowVars>>

\* Stripe moves the subscription on (only where some job will look at it): it is created, a
\* period is paid, a payment fails, it pauses or resumes, the rider cancels it at the period
\* end or takes that back, it ends for good.  Each sends an event.
SubscriptionMoves(r) ==
  /\ \E j \in Jobs : j.kind = "stripe" /\ j.rider = r
  /\ sub[r].state # "ended" /\ sub[r].version < MaxMoves
  /\ \E s \in StripeStates, e \in {x \in StripeEnds : x = NoEnd \/ x > now} :
       LET Becomes(state, end, renew) ==
             sub' = [sub EXCEPT ![r] = [state |-> state, end |-> end, renew |-> renew,
                                        version |-> @.version + 1]]
       IN  \/ sub[r].state = "none" /\ Becomes(s, e, TRUE)
           \/ /\ sub[r].state # "none"
              /\ \/ sub[r].renew /\ e # sub[r].end /\ Becomes("live", e, TRUE)
                 \/ s # sub[r].state /\ Becomes(s, sub[r].end, sub[r].renew)
                 \/ Becomes(sub[r].state, sub[r].end, ~sub[r].renew)
                 \/ Becomes("ended", NoEnd, FALSE)
  /\ UNCHANGED <<now, acked, rowVars, seq, chain, overlap, lockVars, pc, flowVars>>

Tick ==
  /\ now < MaxNow
  /\ now' = now + 1
  /\ UNCHANGED <<subVars, rowVars, seq, chain, overlap, lockVars, pc, flowVars>>

\* Every flow has ended or was never asked: the bounded system may stop.
AtRest == (\A f \in Flow : pc[f] \in Outcomes \cup {"idle"}) /\ UNCHANGED vars

ChainStep(f)  == \/ UpdateChain(f) \/ UpdateMisses(f) \/ Classify(f) \/ InsertChain(f)
                 \/ InsertClashes(f) \/ Disambiguate(f) \/ CommitChain(f)
RollupStep(f) == ReadRollup(f) \/ StampRollup(f) \/ CommitRecompute(f)
StripeStep(f) == Fetch(f) \/ Settle(f) \/ StripeSync(f)

Next ==
  \/ \E f \in Flow : \/ Begin(f) \/ Acquire(f) \/ ChainStep(f) \/ RollupStep(f)
                     \/ Sweep(f) \/ StripeStep(f) \/ Crash(f)
  \/ \E r \in Rider : SubscriptionMoves(r)
  \/ Tick
  \/ AtRest

Spec == Init /\ [][Next]_vars
----------------------------------------------------------------------------
(* Properties.                                                               *)

\* What a reader of the users row is told is what the committed chains say: an
\* unexpired roll-up is exactly the best live tier, and no roll-up at all means no
\* live chain, whichever lapsed flow computed what from an older reading.
RollupFaithful ==
  \A r \in Rider :
    LET live == LiveChains(chain, r)
    IN  /\ rollup[r].until > now => rollup[r].tier = StoreRollup(live).tier
        /\ rollup[r].tier = 0 => live = {}

\* "stale - the rider already holds a NEWER observation of this chain": a flow
\* that reports stale was really overtaken, so dropping its event loses nothing,
\* also on the path where its INSERT collided with another flow of the rider.
StaleMeansNewer ==
  \A f \in Flow : pc[f] = "stale" =>
    /\ chain[job[f].key].owner = rider(f)
    /\ chain[job[f].key].seen > job[f].seen

\* An ownership conflict sends a purchase to the refund workflow; it is reported
\* only when another rider really holds the chain.
ConflictMeansForeign ==
  \A f \in Flow : pc[f] = "conflict" =>
    chain[job[f].key].owner \in Rider \ {rider(f)}

\* A committed chain is never overwritten by an older reading, by an older holder
\* or by another rider.
ChainsNeverGoBack ==
  [][\A k \in Key : chain[k].owner # Nobody =>
       /\ chain'[k].owner = chain[k].owner
       /\ chain'[k].seen >= chain[k].seen
       /\ chain'[k].fence >= chain[k].fence]_vars

\* Will Stripe charge r again?  A subscription of unknown end counts for a window from the
\* last observation.
StripeBills(r) ==
  /\ sub[r].state \in {"unpaid", "live"} /\ sub[r].renew
  /\ IF sub[r].end = NoEnd THEN SourceLive(StripeSource(stripe[r]), now) ELSE sub[r].end > now

\* Does source m of rider r still charge, by what is committed and by Stripe?
StillBills(r, m) ==
  IF m = Stripe THEN StripeBills(r)
  ELSE chain[m].owner = r /\ FutureBilling(chain[m], now)

\* Does the committed state say that m will charge again?
RowBills(r, m) ==
  IF m = Stripe THEN stripe[r].owned /\ FutureBilling(StripeSource(stripe[r]), now)
  ELSE chain[m].owner = r /\ FutureBilling(chain[m], now)

\* Every double billing is tracked: two chains that both charge again have an
\* unresolved row, and so have a chain and the Stripe side unless a Stripe flow is,
\* or died, between its write and its sync, or synced late.
OverlapTracked ==
  \A r \in Rider : \A p \in Pairs :
    /\ \A m \in p : RowBills(r, m)
    /\ Stripe \in p => \A f \in Flow : job[f] # NoJob /\ rider(f) = r /\ job[f].kind = "stripe"
                                         => pc[f] \notin {"stripeSync", "crashed", "late"}
    => overlap[r][p] # 0

LateSync(f) == pc[f] # "late" /\ pc'[f] = "late"

\* Does the row say what Stripe says of a subscription that goes on?
RowAgrees(r) == stripe[r].renew /\ stripe[r].end = sub[r].end

\* No row is retired while both its members charge: neither by a sweep that read
\* its rows before it had the lock, nor by a reading that could not see Stripe, nor by one
\* that found a cancellation, a pause or the end of a period, unless that was taken back or
\* paid for since: then the row does not say yet what Stripe says, and Stripe still owes the
\* event that brings the pair back.  (Late syncs aside: see LateSyncIsRedundant.)
RetiredOnlyIfStopped ==
  [][\A r \in Rider : \A p \in Pairs :
       overlap[r][p] # 0 /\ overlap'[r][p] = 0 =>
         \/ \E m \in p : ~StillBills(r, m)'
         \/ Stripe \in p /\ (acked[r] < sub[r].version /\ ~RowAgrees(r))'
         \/ \E f \in Flow : LateSync(f)]_vars

\* A row the sweep has judged is retired or gives up its slot in the oldest-first
\* batch: it is no longer due.
SweptRowsYield ==
  [][\A f \in Flow : pc[f] = "sweep" /\ pc'[f] = "done" =>
       \A p \in due[f].rows : overlap'[rider(f)][p] = 0 \/ overlap'[rider(f)][p] > now]_vars

\* The comment in syncOverlapsInTx: "a late lost-lease sync becomes a redundant
\* correct write, never a stale one".  A Stripe flow that was fenced out before its
\* sync opens no row for a source the committed state knows to have ended, and
\* retires none whose members it knows to charge on.
LateSyncIsRedundant ==
  [][\A f \in Flow : LateSync(f) =>
       \A p \in Pairs :
         /\ overlap[rider(f)][p] = 0 /\ overlap'[rider(f)][p] # 0
              => \A m \in p : m = Stripe => stripe[rider(f)].renew
         /\ overlap[rider(f)][p] # 0 /\ overlap'[rider(f)][p] = 0
              => \E m \in p : ~RowBills(rider(f), m)]_vars
============================================================================
