------------------------- MODULE SubscriptionLock -------------------------
(***************************************************************************)
(* The per-rider subscription-mutation lock of the backend                 *)
(* (apps/backend/src/modules/account/subscription-mutation-lock.service.ts)*)
(* for ONE rider.  A critical section is protected twice:                  *)
(*                                                                         *)
(*   - by a Redis key (SET NX PX), which gates waiters, and                *)
(*   - by a lease in the rider's PostgreSQL row, taken by the same guarded *)
(*     UPDATE that allocates the fencing token from a sequence.            *)
(*                                                                         *)
(* A flow is one invocation of runExclusive, so its owner string (a fresh  *)
(* UUID) is the flow itself.  Clocks are countdowns: keyTtl, leaseTtl, the *)
(* expiry projected by a queued statement and the time an external call    *)
(* may still take all shrink together in Tick.                             *)
(***************************************************************************)
EXTENDS Integers, FiniteSets

CONSTANTS
  Flow,       \* invocations of runExclusive for this rider
  NoFlow,     \* "nobody": an absent key, a NULL owner column
  TTL,        \* LOCK_TTL_MS, in ticks
  OpMax,      \* longest one bounded external operation may run, in ticks
  Attempts,   \* LEASE_ACQUIRE_ATTEMPTS
  Faults      \* which faults the environment may inject

FaultKinds == {"crash", "redisLoss", "ioError", "lapse", "riderDeleted"}

ASSUME FlowAssumption    == NoFlow \notin Flow
ASSUME TimeAssumption    == TTL \in Nat \ {0} /\ OpMax \in 1..TTL
ASSUME AttemptAssumption == Attempts \in Nat \ {0}
ASSUME FaultAssumption   == Faults \subseteq FaultKinds

VARIABLES
  keyOwner,    \* value of the Redis key sub-mut:<user>
  keyTtl,      \* its remaining life
  exists,      \* does the users row still exist?
  leaseOwner,  \* users.subscription_lock_owner
  leaseTtl,    \* what is left of subscription_lock_lease_expires_at
  fence,       \* users.subscription_lock_fence
  seq,         \* last value of subscription_lock_fence_seq
  rowLocked,   \* another transaction holds the row lock (SELECT FOR UPDATE)
  stmt,        \* the acquisition UPDATE a flow has sent and PostgreSQL runs
  pc,          \* where each flow is in runExclusive
  tries,       \* acquisition attempts used
  token,       \* lease.fenceToken, 0 before it is minted
  op,          \* ticks an external call of the flow may still take, 0 if none
  lastWrite    \* token carried by the last guarded write (observation only)

keyVars  == <<keyOwner, keyTtl>>
rowVars  == <<exists, leaseOwner, leaseTtl, fence>>
flowVars == <<pc, tries, token>>
vars     == <<keyVars, rowVars, seq, rowLocked, stmt, flowVars, op, lastWrite>>

Owner == Flow \cup {NoFlow}

PCs == {"polling", "minting", "waiting", "probing", "confirming", "body",
        "external", "releaseLease", "releaseKey", "ended", "crashed"}

\* The heartbeat runs from the moment the key is held until finally{} clears it;
\* a renewal already sent by then may still arrive during the release.
\* Mutant: finally{} forgets clearInterval.
HeartbeatForever == PCs \ {"polling", "crashed"}
Heartbeating == PCs \ {"polling", "ended", "crashed"}

\* A statement in flight: the token and expiry it projected before it queued for
\* the row lock, and whether the row has been updated since (then PostgreSQL
\* re-evaluates the WHERE clause and projects the new tuple again).
Statement == [tok : Nat, ttl : 0..TTL, stale : BOOLEAN]
NoStmt    == [tok |-> 0, ttl |-> 0, stale |-> FALSE]
Pending(f) == stmt[f].tok # 0

TypeOK ==
  /\ keyOwner \in Owner
  /\ keyTtl \in 0..TTL
  /\ exists \in BOOLEAN
  /\ leaseOwner \in Owner
  /\ leaseTtl \in 0..TTL
  /\ fence \in Nat
  /\ seq \in Nat
  /\ rowLocked \in BOOLEAN
  /\ stmt \in [Flow -> Statement]
  /\ pc \in [Flow -> PCs]
  /\ tries \in [Flow -> 0..Attempts]
  /\ token \in [Flow -> Nat]
  /\ op \in [Flow -> 0..OpMax]
  /\ lastWrite \in Nat

Init ==
  /\ keyOwner = NoFlow /\ keyTtl = 0
  /\ exists = TRUE
  /\ leaseOwner = NoFlow /\ leaseTtl = 0
  /\ fence = 0 /\ seq = 0
  /\ rowLocked = FALSE
  /\ stmt = [f \in Flow |-> NoStmt]
  /\ pc = [f \in Flow |-> "polling"]
  /\ tries = [f \in Flow |-> 0]
  /\ token = [f \in Flow |-> 0]
  /\ op = [f \in Flow |-> 0]
  /\ lastWrite = 0

Goto(f, to) == pc' = [pc EXCEPT ![f] = to]

\* Every queued statement but those of flows in S must look at the row again.
RowUpdated(S) ==
  stmt' = [g \in Flow |->
             IF g \in S THEN NoStmt
             ELSE IF Pending(g) THEN [stmt[g] EXCEPT !.stale = TRUE]
             ELSE stmt[g]]

\* Mutant: WHERE id = $1 alone, the acquisition UPDATE stamps whatever it finds.
LeaseIgnored(f) == exists

\* WHERE clause of the acquisition UPDATE: unowned, already ours, or lapsed.
LeaseFree(f) == leaseOwner \in {NoFlow, f} \/ leaseTtl = 0

----------------------------------------------------------------------------
(* Acquisition of the Redis key.                                           *)

\* acquire: SET NX PX succeeds.
AcquireKey(f) ==
  /\ pc[f] = "polling"
  /\ keyOwner = NoFlow
  /\ keyOwner' = f /\ keyTtl' = TTL
  /\ Goto(f, "minting")
  /\ UNCHANGED <<rowVars, seq, rowLocked, stmt, tries, token, op, lastWrite>>

\* acquire: a Redis error fails closed; the SET may have been applied all the
\* same, and then nobody releases the key.
AcquireError(f) ==
  /\ "ioError" \in Faults
  /\ pc[f] = "polling"
  /\ Goto(f, "ended")
  /\ \/ UNCHANGED keyVars
     \/ keyOwner = NoFlow /\ keyOwner' = f /\ keyTtl' = TTL
  /\ UNCHANGED <<rowVars, seq, rowLocked, stmt, tries, token, op, lastWrite>>

\* acquire: still contended at the deadline, 503 before anything is held.
AcquireTimeout(f) ==
  /\ pc[f] = "polling"
  /\ keyOwner # NoFlow
  /\ Goto(f, "ended")
  /\ UNCHANGED <<keyVars, rowVars, seq, rowLocked, stmt, tries, token, op, lastWrite>>

----------------------------------------------------------------------------
(* Acquisition of the lease and the fencing token: mintFenceToken.         *)

\* The UPDATE finds the row and its WHERE holds: it projects token and expiry
\* now and queues for the row lock.
ScanMatches(f) ==
  /\ pc[f] = "minting"
  /\ ~Pending(f)
  /\ exists /\ LeaseFree(f)
  /\ seq' = seq + 1
  /\ stmt' = [stmt EXCEPT ![f] = [tok |-> seq + 1, ttl |-> TTL, stale |-> FALSE]]
  /\ Goto(f, "waiting")
  /\ UNCHANGED <<keyVars, rowVars, rowLocked, tries, token, op, lastWrite>>

\* The UPDATE matches no row: a live foreign lease, or a deleted rider.
ScanMisses(f) ==
  /\ pc[f] = "minting"
  /\ ~Pending(f)
  /\ ~(exists /\ LeaseFree(f))
  /\ Goto(f, "probing")
  /\ UNCHANGED <<keyVars, rowVars, seq, rowLocked, stmt, tries, token, op, lastWrite>>

\* One attempt is used up; the last one refuses with a 503.
AttemptFailed(f) ==
  /\ tries' = [tries EXCEPT ![f] = @ + 1]
  /\ Goto(f, IF tries[f] + 1 < Attempts THEN "minting" ELSE "releaseLease")

\* Mutant: the earlier design, a read that takes a lapsed lease for no lease and
\* hands out a bare, unstamped token.
ProbeLease(f) ==
  /\ pc[f] = "probing"
  /\ IF exists /\ ~LeaseFree(f)
     THEN AttemptFailed(f) /\ UNCHANGED <<seq, token>>
     ELSE /\ seq' = seq + 1
          /\ token' = [token EXCEPT ![f] = seq + 1]
          /\ Goto(f, "confirming")
          /\ UNCHANGED tries
  /\ UNCHANGED <<keyVars, rowVars, rowLocked, stmt, op, lastWrite>>

\* riderExists: retry while the rider exists; a deleted rider yields a bare
\* nextval that is stamped nowhere.
Probe(f) ==
  /\ pc[f] = "probing"
  /\ IF exists
     THEN AttemptFailed(f) /\ UNCHANGED <<seq, token>>
     ELSE /\ seq' = seq + 1
          /\ token' = [token EXCEPT ![f] = seq + 1]
          /\ Goto(f, "confirming")
          /\ UNCHANGED tries
  /\ UNCHANGED <<keyVars, rowVars, rowLocked, stmt, op, lastWrite>>

\* BEFORE UPDATE trigger of migration 1827: the stored fence never goes down.
RaiseFence(tok) == fence' = IF tok < fence THEN fence ELSE tok

\* Mutant: SET subscription_lock_owner = COALESCE(subscription_lock_owner, $2).
StampCoalesced(f, tok, ttl) ==
  /\ leaseOwner' = IF leaseOwner = NoFlow THEN f ELSE leaseOwner
  /\ leaseTtl' = ttl
  /\ RaiseFence(tok)

\* The row the queued UPDATE finally writes; RETURNING reports what was stored.
Stamp(f, tok, ttl) ==
  /\ leaseOwner' = f
  /\ leaseTtl' = ttl
  /\ RaiseFence(tok)

\* The queued UPDATE gets the row lock and takes the lease.  RETURNING tells the
\* flow whether the lease was born live; a flow that no longer waits (it crashed
\* or its query failed) never learns of it.
StatementLands(f) ==
  /\ Pending(f) /\ ~rowLocked /\ exists
  /\ stmt[f].stale => LeaseFree(f)
  /\ LET tok == IF stmt[f].stale THEN seq + 1 ELSE stmt[f].tok
         ttl == IF stmt[f].stale THEN TTL ELSE stmt[f].ttl
     IN  /\ Stamp(f, tok, ttl)
         /\ seq' = IF stmt[f].stale THEN seq + 1 ELSE seq
         /\ \/ /\ pc[f] = "waiting" /\ ttl > 0
               /\ token' = [token EXCEPT ![f] = fence']
               /\ Goto(f, "confirming")
               /\ UNCHANGED tries
            \/ /\ pc[f] = "waiting" /\ ttl = 0      \* born expired
               /\ AttemptFailed(f)
               /\ UNCHANGED token
            \/ /\ pc[f] # "waiting"
               /\ UNCHANGED flowVars
  /\ RowUpdated({f})
  /\ UNCHANGED <<keyVars, exists, rowLocked, op, lastWrite>>

\* Mutant: the empty result of a queued UPDATE is not taken for an answer.
MissUnnoticed(f) ==
  /\ Pending(f) /\ ~rowLocked
  /\ ~exists \/ (stmt[f].stale /\ ~LeaseFree(f))
  /\ stmt' = [stmt EXCEPT ![f] = NoStmt]
  /\ UNCHANGED <<keyVars, rowVars, seq, rowLocked, flowVars, op, lastWrite>>

\* The queued UPDATE matches nothing after all: re-evaluation found a live
\* successor, or the row is gone.
StatementMisses(f) ==
  /\ Pending(f) /\ ~rowLocked
  /\ ~exists \/ (stmt[f].stale /\ ~LeaseFree(f))
  /\ stmt' = [stmt EXCEPT ![f] = NoStmt]
  /\ IF pc[f] = "waiting" THEN Goto(f, "probing") ELSE UNCHANGED pc
  /\ UNCHANGED <<keyVars, rowVars, seq, rowLocked, tries, token, op, lastWrite>>

\* A database error while minting, or a Redis error while confirming, fails
\* closed; the statement may still be running in PostgreSQL.
MintError(f) ==
  /\ "ioError" \in Faults
  /\ pc[f] \in {"minting", "waiting", "probing", "confirming"}
  /\ Goto(f, "releaseLease")
  /\ UNCHANGED <<keyVars, rowVars, seq, rowLocked, stmt, tries, token, op, lastWrite>>

----------------------------------------------------------------------------
(* The heartbeat.  Both renewals are owner-guarded and best effort: one that *)
(* fails is simply a step not taken.                                         *)

RenewKey(f) ==
  /\ pc[f] \in Heartbeating
  /\ keyOwner = f
  /\ keyTtl' = TTL
  /\ UNCHANGED <<keyOwner, rowVars, seq, rowLocked, stmt, flowVars, op, lastWrite>>

\* Mutant: the new expiry is counted from the old one instead of from now.
RenewLeaseFromExpiry(f) ==
  /\ pc[f] \in Heartbeating
  /\ exists /\ ~rowLocked /\ leaseOwner = f
  /\ leaseTtl' = leaseTtl + TTL
  /\ RowUpdated({})
  /\ UNCHANGED <<keyVars, exists, leaseOwner, fence, seq, rowLocked, flowVars, op, lastWrite>>

\* renewLease.  The longer it queued for the row lock, the less is left of the
\* expiry it writes.
RenewLease(f) ==
  /\ pc[f] \in Heartbeating
  /\ exists /\ ~rowLocked /\ leaseOwner = f
  /\ leaseTtl' \in leaseTtl..TTL
  /\ RowUpdated({})
  /\ UNCHANGED <<keyVars, exists, leaseOwner, fence, seq, rowLocked, flowVars, op, lastWrite>>

----------------------------------------------------------------------------
(* The critical section fn(manager, lease), any sequence of the operations   *)
(* its callers make.                                                         *)

\* assertHeld: token-checked PEXPIRE, 503 when the key is no longer ours.  ok is
\* what the flow does next when it is.
AssertHeld(f, ok) ==
  IF keyOwner = f
  THEN keyTtl' = TTL /\ Goto(f, ok) /\ UNCHANGED keyOwner
  ELSE Goto(f, "releaseLease") /\ UNCHANGED keyVars

\* The backstop between minting and the callback.
Confirm(f) ==
  /\ pc[f] = "confirming"
  /\ AssertHeld(f, "body")
  /\ UNCHANGED <<rowVars, seq, rowLocked, stmt, tries, token, op, lastWrite>>

\* lease.assertFenceCurrent: the key, then the row.  A missing row passes.
AssertFenceCurrent(f) ==
  /\ pc[f] = "body"
  /\ AssertHeld(f, IF exists /\ fence > token[f] THEN "releaseLease" ELSE "body")
  /\ UNCHANGED <<rowVars, seq, rowLocked, stmt, tries, token, op, lastWrite>>

\* A guarded UPDATE of the rider's row: SET subscription_lock_fence = token
\* WHERE subscription_lock_fence <= token.  A newer fence matches no row and
\* assertSubscriptionFenceCurrent turns that into a 503; a missing row does not.
\* The statement of a flow that died after sending it is executed all the same.
GuardedWrite(f) ==
  /\ pc[f] = "body" \/ (pc[f] = "crashed" /\ token[f] # 0)
  /\ ~rowLocked
  /\ IF exists /\ fence <= token[f]
     THEN /\ RaiseFence(token[f])
          /\ lastWrite' = token[f]
          /\ RowUpdated({})
          /\ UNCHANGED pc
     ELSE /\ IF exists /\ pc[f] = "body" THEN Goto(f, "releaseLease") ELSE UNCHANGED pc
          /\ UNCHANGED <<fence, lastWrite, stmt>>
  /\ UNCHANGED <<keyVars, exists, leaseOwner, leaseTtl, seq, rowLocked, tries, token, op>>

\* Mutant: ownership is read (GET) but the key's life is not extended.
ExternalUnrenewed(f) ==
  /\ pc[f] = "body"
  /\ IF keyOwner = f
     THEN Goto(f, "external") /\ op' = [op EXCEPT ![f] = OpMax]
     ELSE Goto(f, "releaseLease") /\ UNCHANGED op
  /\ UNCHANGED <<keyVars, rowVars, seq, rowLocked, stmt, tries, token, lastWrite>>

\* lease.assertHeld() followed by one Stripe compensation write, which the
\* client's own timeouts bound by OpMax.
ExternalWrite(f) ==
  /\ pc[f] = "body"
  /\ AssertHeld(f, "external")
  /\ op' = [op EXCEPT ![f] = IF keyOwner = f THEN OpMax ELSE @]
  /\ UNCHANGED <<rowVars, seq, rowLocked, stmt, tries, token, lastWrite>>

ExternalDone(f) ==
  /\ pc[f] = "external"
  /\ op' = [op EXCEPT ![f] = 0]
  /\ Goto(f, "body")
  /\ UNCHANGED <<keyVars, rowVars, seq, rowLocked, stmt, tries, token, lastWrite>>

\* Mutant: finally{} releases the key before the lease.
FinishKeyFirst(f) ==
  /\ pc[f] = "body"
  /\ Goto(f, "releaseLease")
  /\ IF keyOwner = f THEN keyOwner' = NoFlow /\ keyTtl' = 0 ELSE UNCHANGED keyVars
  /\ UNCHANGED <<rowVars, seq, rowLocked, stmt, tries, token, op, lastWrite>>

\* fn returns or throws.
Finish(f) ==
  /\ pc[f] = "body"
  /\ Goto(f, "releaseLease")
  /\ UNCHANGED <<keyVars, rowVars, seq, rowLocked, stmt, tries, token, op, lastWrite>>

----------------------------------------------------------------------------
(* finally{}: the database half first, then the key; both owner-guarded.     *)

ReleaseLease(f) ==
  /\ pc[f] = "releaseLease" /\ ~rowLocked
  /\ Goto(f, "releaseKey")
  /\ IF exists /\ leaseOwner = f
     THEN leaseOwner' = NoFlow /\ leaseTtl' = 0 /\ RowUpdated({})
     ELSE UNCHANGED <<leaseOwner, leaseTtl, stmt>>
  /\ UNCHANGED <<keyVars, exists, fence, seq, rowLocked, tries, token, op, lastWrite>>

ReleaseKey(f) ==
  /\ pc[f] = "releaseKey"
  /\ Goto(f, "ended")
  /\ IF keyOwner = f
     THEN keyOwner' = NoFlow /\ keyTtl' = 0
     ELSE UNCHANGED keyVars
  /\ UNCHANGED <<rowVars, seq, rowLocked, stmt, tries, token, op, lastWrite>>

\* A statement or command of finally{} fails; its error is logged and swallowed.
ReleaseError(f) ==
  /\ "ioError" \in Faults
  /\ \/ pc[f] = "releaseLease" /\ Goto(f, "releaseKey")
     \/ pc[f] = "releaseKey" /\ Goto(f, "ended")
  /\ UNCHANGED <<keyVars, rowVars, seq, rowLocked, stmt, tries, token, op, lastWrite>>

----------------------------------------------------------------------------
(* The environment.                                                          *)

\* The process of a flow dies; what it has in flight goes on without it.
Crash(f) ==
  /\ "crash" \in Faults
  /\ pc[f] \notin {"polling", "ended", "crashed"}
  /\ Goto(f, "crashed")
  /\ UNCHANGED <<keyVars, rowVars, seq, rowLocked, stmt, tries, token, op, lastWrite>>

\* A Redis flush or failover forgets the key.
RedisLoss ==
  /\ "redisLoss" \in Faults
  /\ keyOwner # NoFlow
  /\ keyOwner' = NoFlow /\ keyTtl' = 0
  /\ UNCHANGED <<rowVars, seq, rowLocked, stmt, flowVars, op, lastWrite>>

\* Another transaction takes the rider's row lock (SELECT ... FOR UPDATE).
LockRow ==
  /\ exists /\ ~rowLocked
  /\ rowLocked' = TRUE
  /\ UNCHANGED <<keyVars, rowVars, seq, stmt, flowVars, op, lastWrite>>

\* It commits, having written columns this lock does not own, or nothing.
UnlockRow ==
  /\ rowLocked
  /\ rowLocked' = FALSE
  /\ RowUpdated({}) \/ UNCHANGED stmt
  /\ UNCHANGED <<keyVars, rowVars, seq, flowVars, op, lastWrite>>

RiderDeleted ==
  /\ "riderDeleted" \in Faults
  /\ exists /\ ~rowLocked
  /\ exists' = FALSE
  /\ leaseOwner' = NoFlow /\ leaseTtl' = 0
  /\ RowUpdated({})
  /\ UNCHANGED <<keyVars, fence, seq, rowLocked, flowVars, op, lastWrite>>

Down(n) == IF n = 0 THEN 0 ELSE n - 1

\* Without the "lapse" fault, heartbeats and statements are prompt: time does not
\* pass so far that a running flow loses the key or the lease to the clock.
Prompt ==
  \A f \in Flow : pc[f] \notin {"polling", "ended", "crashed"} =>
    /\ keyOwner = f => keyTtl > 1
    /\ leaseOwner = f => leaseTtl > 1
    /\ Pending(f) => stmt[f].ttl > 1

Tick ==
  /\ "lapse" \in Faults \/ Prompt
  /\ keyTtl' = Down(keyTtl)
  /\ keyOwner' = IF keyTtl <= 1 THEN NoFlow ELSE keyOwner
  /\ leaseTtl' = Down(leaseTtl)
  /\ stmt' = [f \in Flow |-> [stmt[f] EXCEPT !.ttl = Down(@)]]
  /\ op' = [f \in Flow |-> Down(op[f])]
  /\ UNCHANGED <<exists, leaseOwner, fence, seq, rowLocked, flowVars, lastWrite>>

----------------------------------------------------------------------------
Acquiring(f) == \/ AcquireKey(f) \/ AcquireTimeout(f) \/ AcquireError(f)
                \/ ScanMatches(f) \/ ScanMisses(f) \/ Probe(f)
                \/ StatementLands(f) \/ StatementMisses(f) \/ MintError(f)
                \/ Confirm(f)

Holding(f) == \/ RenewKey(f) \/ RenewLease(f)
              \/ AssertFenceCurrent(f) \/ GuardedWrite(f)
              \/ ExternalWrite(f) \/ ExternalDone(f) \/ Finish(f)

Releasing(f) == ReleaseLease(f) \/ ReleaseKey(f) \/ ReleaseError(f)

Environment == RedisLoss \/ LockRow \/ UnlockRow \/ RiderDeleted \/ Tick

Next ==
  \/ \E f \in Flow : Acquiring(f) \/ Holding(f) \/ Releasing(f) \/ Crash(f)
  \/ Environment

Spec == Init /\ [][Next]_vars

(***************************************************************************)
(* What the code's scheduling guarantees: time passes, another             *)
(* transaction commits, PostgreSQL finishes a statement once it can have   *)
(* the row, and a flow that is alive takes its next step - the pending     *)
(* await resolves or its client times out.  The row lock is contended, so  *)
(* the steps that need it get strong fairness (PostgreSQL queues waiters   *)
(* in order).  A callback makes finitely many calls, so a flow that comes  *)
(* back to "body" again and again finishes: strong fairness of Finish.     *)
(* Nothing is assumed of renewals, faults or waiters' luck.                *)
(***************************************************************************)
Progress(f) ==
  /\ WF_vars(AcquireKey(f) \/ AcquireTimeout(f))
  /\ WF_vars(ScanMatches(f) \/ ScanMisses(f))
  /\ WF_vars(Probe(f))
  /\ SF_vars(StatementLands(f) \/ StatementMisses(f))
  /\ WF_vars(Confirm(f))
  /\ WF_vars(ExternalDone(f))
  /\ SF_vars(Finish(f))
  /\ SF_vars(ReleaseLease(f))
  /\ WF_vars(ReleaseKey(f))

FairSpec == Spec /\ WF_vars(Tick) /\ WF_vars(UnlockRow) /\ \A f \in Flow : Progress(f)
----------------------------------------------------------------------------
(* Properties.                                                               *)

\* The promise the fence makes to the rider's row, as a specification of its own.
Fenced == INSTANCE FencedRow WITH epoch <- fence, wrote <- lastWrite

\* Every guarded write carries the epoch of the newest acquisition: a flow whose
\* lease has gone to another commits nothing, however late its statement runs
\* (mintFenceToken: "the prior holder's fence <= :token guard fails on every
\* subsequent write").
OnlyTheNewestWrites == Fenced!Spec

\* "Token order equals acquisition order": whoever takes the lease, including an
\* acquirer whose UPDATE queued behind others, ends up with a fence above every
\* earlier one.
FenceRisesAtTakeover ==
  [][leaseOwner' # leaseOwner /\ leaseOwner' # NoFlow => fence' > fence]_vars

\* No two flows believe in the same token, which would let both write.
TokensUnique ==
  \A f, g \in Flow : f # g /\ token[f] # 0 => token[f] # token[g]

\* A lease that is still running is never taken from its owner: the queued UPDATE
\* of a stalled acquirer that wakes up behind a live successor stamps nothing.
StolenOnlyIfLapsed ==
  [][\A f, g \in Flow :
       f # g /\ leaseOwner = f /\ leaseOwner' = g => leaseTtl = 0]_vars

\* A flow that still owns the lease is never fenced out (provider-claim: the
\* check "cannot false-positive on a live holder").
NoFalseStale ==
  \A f \in Flow :
    exists /\ leaseOwner = f /\ pc[f] \in {"confirming", "body", "external"}
      => fence = token[f]

\* While Redis keeps its keys, no two flows have an external (Stripe) call under
\* way at once, even when one of them has crashed or outlived its heartbeat:
\* assertHeld buys a full TTL, which is longer than the call can take.
ExternalExclusion ==
  \A f, g \in Flow : op[f] > 0 /\ op[g] > 0 => f = g

\* The release order (database first) hands the next holder both halves free: who
\* has the key meets a lease that is held only if its holder died or its release
\* failed, so an ordinary contended handoff never ends in a spurious 503.
HandoffClean ==
  \A f \in Flow : pc[f] \in {"minting", "waiting"} /\ ~LeaseFree(f) =>
    leaseOwner \in Flow /\ pc[leaseOwner] \in {"ended", "crashed"}

\* A crashed or finished flow blocks nobody for ever: its key goes and its lease
\* lapses, even if it died holding both or its release failed.
HoldsHeal ==
  \A f \in Flow :
    pc[f] \in {"ended", "crashed"}
      ~> [](keyOwner # f /\ (leaseOwner = f => leaseTtl = 0))

\* Every invocation of runExclusive ends, or its process died: no wait for the
\* key, the lease or the row is unbounded.
EveryFlowEnds ==
  \A f \in Flow : <>(pc[f] \in {"ended", "crashed"})
============================================================================
