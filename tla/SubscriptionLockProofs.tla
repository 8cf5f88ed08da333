---------------------- MODULE SubscriptionLockProofs ----------------------
(***************************************************************************)
(* Proofs about SubscriptionLock for every set of flows, every TTL and     *)
(* every choice of faults.                                                 *)
(***************************************************************************)
EXTENDS SubscriptionLock, TLAPS

USE FlowAssumption, TimeAssumption, AttemptAssumption

\* An attempt is left as long as the acquisition goes on.
TriesLeft ==
  \A f \in Flow :
    pc[f] \in {"polling", "minting", "waiting", "probing"} => tries[f] < Attempts

\* A statement in flight stays one when the row changes or time passes.
LEMMA StatementType ==
  /\ NoStmt \in Statement
  /\ \A s \in Statement : [s EXCEPT !.stale = TRUE] \in Statement
  /\ \A s \in Statement : [s EXCEPT !.ttl = Down(@)] \in Statement
  /\ \A s \in Statement : s.tok \in Nat /\ s.ttl \in 0..TTL /\ s.stale \in BOOLEAN
  /\ \A t \in Nat : [tok |-> t, ttl |-> TTL, stale |-> FALSE] \in Statement
<1>1. TTL \in 0..TTL /\ 0 \in 0..TTL /\ \A n \in 0..TTL : Down(n) \in 0..TTL
  BY DEF Down
<1> QED
  BY <1>1, Zenon DEF Statement, NoStmt

\* RowUpdated touches the statements in flight, and leaves them statements.
LEMMA RowUpdatedType ==
  ASSUME stmt \in [Flow -> Statement], NEW S, RowUpdated(S)
  PROVE  stmt' \in [Flow -> Statement]
  BY StatementType, Zenon DEF RowUpdated

\* The variables keep their types: every action of the lock, its heartbeat, its
\* release and its environment leaves each of them within its domain.
THEOREM TypeCorrect == Spec => [](TypeOK /\ TriesLeft)
<1>1. Init => TypeOK /\ TriesLeft
  <2> SUFFICES ASSUME Init PROVE TypeOK /\ TriesLeft
    OBVIOUS
  <2>1. stmt \in [Flow -> Statement]
    BY StatementType, Zenon DEF Init
  <2>2. pc \in [Flow -> PCs] /\ tries \in [Flow -> 0..Attempts] /\ TriesLeft
    BY DEF Init, PCs, TriesLeft
  <2>3. op \in [Flow -> 0..OpMax] /\ token \in [Flow -> Nat]
    BY DEF Init
  <2>4. keyOwner \in Owner /\ leaseOwner \in Owner /\ keyTtl \in 0..TTL /\ leaseTtl \in 0..TTL
    BY DEF Init, Owner
  <2>5. exists \in BOOLEAN /\ rowLocked \in BOOLEAN /\ fence \in Nat /\ seq \in Nat /\ lastWrite \in Nat
    BY DEF Init
  <2> QED
    BY <2>1, <2>2, <2>3, <2>4, <2>5 DEF TypeOK
<1>2. TypeOK /\ TriesLeft /\ [Next]_vars => (TypeOK /\ TriesLeft)'
  <2> SUFFICES ASSUME TypeOK, TriesLeft, [Next]_vars PROVE (TypeOK /\ TriesLeft)'
    OBVIOUS
  <2> USE StatementType DEF TypeOK, TriesLeft, Owner, PCs
  <2>1. ASSUME NEW f \in Flow, AcquireKey(f) PROVE (TypeOK /\ TriesLeft)'
    BY <2>1 DEF AcquireKey, Goto, rowVars
  <2>2. ASSUME NEW f \in Flow, AcquireTimeout(f) PROVE (TypeOK /\ TriesLeft)'
    BY <2>2 DEF AcquireTimeout, Goto, keyVars, rowVars
  <2>3. ASSUME NEW f \in Flow, AcquireError(f) PROVE (TypeOK /\ TriesLeft)'
    BY <2>3 DEF AcquireError, Goto, keyVars, rowVars
  <2>4. ASSUME NEW f \in Flow, ScanMatches(f) PROVE (TypeOK /\ TriesLeft)'
    BY <2>4 DEF ScanMatches, Goto, keyVars, rowVars
  <2>5. ASSUME NEW f \in Flow, ScanMisses(f) PROVE (TypeOK /\ TriesLeft)'
    BY <2>5 DEF ScanMisses, Goto, keyVars, rowVars
  <2>6. ASSUME NEW f \in Flow, Probe(f) PROVE (TypeOK /\ TriesLeft)'
    BY <2>6 DEF Probe, AttemptFailed, Goto, keyVars, rowVars
  <2>7. ASSUME NEW f \in Flow, StatementLands(f) PROVE (TypeOK /\ TriesLeft)'
    BY <2>7, RowUpdatedType DEF StatementLands, Stamp, RaiseFence, AttemptFailed, Goto, keyVars, flowVars
  <2>8. ASSUME NEW f \in Flow, StatementMisses(f) PROVE (TypeOK /\ TriesLeft)'
    BY <2>8 DEF StatementMisses, Goto, keyVars, rowVars
  <2>9. ASSUME NEW f \in Flow, MintError(f) PROVE (TypeOK /\ TriesLeft)'
    BY <2>9 DEF MintError, Goto, keyVars, rowVars
  <2>10. ASSUME NEW f \in Flow, Confirm(f) PROVE (TypeOK /\ TriesLeft)'
    BY <2>10 DEF Confirm, AssertHeld, Goto, keyVars, rowVars
  <2>11. ASSUME NEW f \in Flow, RenewKey(f) PROVE (TypeOK /\ TriesLeft)'
    BY <2>11 DEF RenewKey, rowVars, flowVars
  <2>12. ASSUME NEW f \in Flow, RenewLease(f) PROVE (TypeOK /\ TriesLeft)'
    BY <2>12, RowUpdatedType DEF RenewLease, keyVars, flowVars
  <2>13. ASSUME NEW f \in Flow, AssertFenceCurrent(f) PROVE (TypeOK /\ TriesLeft)'
    BY <2>13 DEF AssertFenceCurrent, AssertHeld, Goto, keyVars, rowVars
  <2>14. ASSUME NEW f \in Flow, GuardedWrite(f) PROVE (TypeOK /\ TriesLeft)'
    BY <2>14, RowUpdatedType DEF GuardedWrite, RaiseFence, Goto, keyVars
  <2>15. ASSUME NEW f \in Flow, ExternalWrite(f) PROVE (TypeOK /\ TriesLeft)'
    BY <2>15 DEF ExternalWrite, AssertHeld, Goto, keyVars, rowVars
  <2>16. ASSUME NEW f \in Flow, ExternalDone(f) PROVE (TypeOK /\ TriesLeft)'
    BY <2>16 DEF ExternalDone, Goto, keyVars, rowVars
  <2>17. ASSUME NEW f \in Flow, Finish(f) PROVE (TypeOK /\ TriesLeft)'
    BY <2>17 DEF Finish, Goto, keyVars, rowVars
  <2>18. ASSUME NEW f \in Flow, ReleaseLease(f) PROVE (TypeOK /\ TriesLeft)'
    BY <2>18, RowUpdatedType DEF ReleaseLease, Goto, keyVars
  <2>19. ASSUME NEW f \in Flow, ReleaseKey(f) PROVE (TypeOK /\ TriesLeft)'
    BY <2>19 DEF ReleaseKey, Goto, keyVars, rowVars
  <2>20. ASSUME NEW f \in Flow, ReleaseError(f) PROVE (TypeOK /\ TriesLeft)'
    BY <2>20 DEF ReleaseError, Goto, keyVars, rowVars
  <2>21. ASSUME NEW f \in Flow, Crash(f) PROVE (TypeOK /\ TriesLeft)'
    BY <2>21 DEF Crash, Goto, keyVars, rowVars
  <2>22. CASE RedisLoss
    BY <2>22 DEF RedisLoss, rowVars, flowVars
  <2>23. CASE LockRow
    BY <2>23 DEF LockRow, keyVars, rowVars, flowVars
  <2>24. CASE UnlockRow
    BY <2>24, RowUpdatedType DEF UnlockRow, keyVars, rowVars, flowVars
  <2>25. CASE RiderDeleted
    <3>1. exists' \in BOOLEAN
      BY <2>25 DEF RiderDeleted
    <3>2. stmt' \in [Flow -> Statement]
      BY <2>25, RowUpdatedType DEF RiderDeleted
    <3> QED
      BY <2>25, <3>1, <3>2 DEF RiderDeleted, keyVars, flowVars
  <2>26. CASE Tick
    <3>1. stmt' \in [Flow -> Statement]
      BY <2>26, Zenon DEF Tick
    <3>2. /\ keyTtl' \in 0..TTL /\ leaseTtl' \in 0..TTL
          /\ op' \in [Flow -> 0..OpMax]
      <4>1. /\ keyTtl' = Down(keyTtl) /\ leaseTtl' = Down(leaseTtl)
            /\ op' = [f \in Flow |-> Down(op[f])]
        BY <2>26, Zenon DEF Tick
      <4>2. \A n \in Nat : Down(n) \in Nat /\ Down(n) <= n
        BY DEF Down
      <4>3. op' \in [Flow -> 0..OpMax]
        BY <4>1, <4>2
      <4> QED
        BY <4>1, <4>2, <4>3
    <3> QED
      BY <2>26, <3>1, <3>2 DEF Tick, flowVars
  <2>27. CASE UNCHANGED vars
    BY <2>27 DEF vars, keyVars, rowVars, flowVars
  <2> QED
    BY <2>1, <2>2, <2>3, <2>4, <2>5, <2>6, <2>7, <2>8, <2>9, <2>10, <2>11, <2>12,
       <2>13, <2>14, <2>15, <2>16, <2>17, <2>18, <2>19, <2>20, <2>21, <2>22, <2>23,
       <2>24, <2>25, <2>26, <2>27
       DEF Next, Acquiring, Holding, Releasing, Environment
<1> QED
  BY <1>1, <1>2, PTL DEF Spec
----------------------------------------------------------------------------
(***************************************************************************)
(* The fence.  The argument: every token comes from one sequence, a queued *)
(* UPDATE whose row nobody touched projects a token above the fence and    *)
(* still sees a free lease, and as long as the rider exists every token in *)
(* a flow's hands has been stamped, so it is at most the fence.  A guarded *)
(* write asks for fence <= token, hence it carries exactly the fence.      *)
(***************************************************************************)

\* The sequence is ahead of everything it has handed out.
Minted ==
  /\ fence <= seq
  /\ \A f \in Flow : token[f] <= seq /\ stmt[f].tok <= seq

\* A token a flow holds was stamped into the row, if there still is a row.
Stamped == exists => \A f \in Flow : token[f] <= fence

\* A queued UPDATE that need not look again is newer than the fence and its
\* WHERE clause still holds.
QueuedIsNewer ==
  \A f \in Flow : Pending(f) /\ ~stmt[f].stale => fence < stmt[f].tok /\ LeaseFree(f)

\* Only a flow that waits for it, or has given it up, has an UPDATE queued.
Unqueued == {"polling", "minting", "probing", "confirming", "body", "external"}
NothingQueued == \A f \in Flow : pc[f] \in Unqueued => ~Pending(f)

FenceInv == /\ Minted /\ Stamped /\ QueuedIsNewer /\ NothingQueued
            /\ TokensUnique /\ NoFalseStale

Granted == {"confirming", "body", "external"}

\* A step that leaves the row, the sequence, the statements and the tokens alone,
\* and takes no flow back into the critical section, preserves the invariant.
LEMMA QuietStep ==
  ASSUME FenceInv, UNCHANGED <<exists, leaseOwner, leaseTtl, fence, seq, stmt, token>>,
         \A f \in Flow : /\ pc'[f] \in Unqueued => pc[f] \in Unqueued
                         /\ pc'[f] \in Granted => pc[f] \in Granted
  PROVE  FenceInv'
  BY DEF FenceInv, Minted, Stamped, QueuedIsNewer, NothingQueued, TokensUnique,
         NoFalseStale, Pending, LeaseFree, Granted

\* What the queued statements look like after the row was written.
LEMMA AfterRowUpdate ==
  ASSUME TypeOK, NEW S, RowUpdated(S), NEW f \in Flow
  PROVE  /\ stmt'[f].tok = IF f \in S THEN 0 ELSE stmt[f].tok
         /\ Pending(f)' => f \notin S /\ Pending(f) /\ stmt'[f].stale
  BY DEF RowUpdated, Pending, TypeOK, Statement, NoStmt

\* A step that writes the row without changing its owner, its fence or any token
\* preserves the invariant: every statement in flight has to look again.
LEMMA RowWritten ==
  ASSUME TypeOK, FenceInv, RowUpdated({}),
         exists' => exists,
         UNCHANGED <<leaseOwner, fence, seq, token, pc>>
  PROVE  FenceInv'
  BY AfterRowUpdate DEF FenceInv, Minted, Stamped, QueuedIsNewer, NothingQueued,
         TokensUnique, NoFalseStale, Granted

\* No step of the lock, of a dying flow or of the environment breaks FenceInv.
LEMMA FenceStep == TypeOK /\ FenceInv /\ [Next]_vars => FenceInv'
<1> SUFFICES ASSUME TypeOK, FenceInv, [Next]_vars PROVE FenceInv'
  OBVIOUS
<1> USE DEF Goto
<1>1. ASSUME NEW f \in Flow, AcquireKey(f) PROVE FenceInv'
  BY <1>1, QuietStep DEF AcquireKey, rowVars, TypeOK, Unqueued, Granted
<1>2. ASSUME NEW f \in Flow, AcquireTimeout(f) PROVE FenceInv'
  BY <1>2, QuietStep DEF AcquireTimeout, rowVars, TypeOK, Unqueued, Granted
<1>3. ASSUME NEW f \in Flow, AcquireError(f) PROVE FenceInv'
  BY <1>3, QuietStep DEF AcquireError, rowVars, TypeOK, Unqueued, Granted
<1>4. ASSUME NEW f \in Flow, ScanMatches(f) PROVE FenceInv'
  <2>1. /\ seq' = seq + 1
        /\ stmt' = [stmt EXCEPT ![f] = [tok |-> seq + 1, ttl |-> TTL, stale |-> FALSE]]
        /\ pc' = [pc EXCEPT ![f] = "waiting"]
        /\ LeaseFree(f) /\ exists
        /\ UNCHANGED <<exists, leaseOwner, leaseTtl, fence, token>>
    BY <1>4 DEF ScanMatches, rowVars
  <2>2. Minted' /\ Stamped' /\ TokensUnique'
    BY <2>1 DEF FenceInv, Minted, Stamped, TokensUnique, TypeOK, Statement
  <2>3. QueuedIsNewer' /\ NothingQueued'
    BY <2>1 DEF FenceInv, Minted, QueuedIsNewer, NothingQueued, Pending, LeaseFree, TypeOK, Statement, Unqueued
  <2>4. NoFalseStale'
    BY <2>1 DEF FenceInv, NoFalseStale, TypeOK
  <2> QED
    BY <2>2, <2>3, <2>4 DEF FenceInv
<1>5. ASSUME NEW f \in Flow, ScanMisses(f) PROVE FenceInv'
  BY <1>5, QuietStep DEF ScanMisses, rowVars, TypeOK, Unqueued, Granted
<1>6. ASSUME NEW f \in Flow, Probe(f) PROVE FenceInv'
  <2>1. CASE exists
    BY <1>6, <2>1, QuietStep DEF Probe, AttemptFailed, rowVars, TypeOK, Unqueued, Granted
  <2>2. CASE ~exists
    <3>1. /\ seq' = seq + 1
          /\ token' = [token EXCEPT ![f] = seq + 1]
          /\ pc' = [pc EXCEPT ![f] = "confirming"]
          /\ pc[f] = "probing"
          /\ UNCHANGED <<exists, leaseOwner, leaseTtl, fence, stmt>>
      BY <1>6, <2>2 DEF Probe, rowVars
    <3>2. Minted' /\ Stamped' /\ TokensUnique'
      BY <2>2, <3>1 DEF FenceInv, Minted, Stamped, TokensUnique, TypeOK, Statement
    <3>3. QueuedIsNewer' /\ NothingQueued'
      BY <3>1 DEF FenceInv, QueuedIsNewer, NothingQueued, Pending, LeaseFree, TypeOK, Unqueued
    <3>4. NoFalseStale'
      BY <2>2, <3>1 DEF NoFalseStale
    <3> QED
      BY <3>2, <3>3, <3>4 DEF FenceInv
  <2> QED
    BY <2>1, <2>2
<1>7. ASSUME NEW f \in Flow, StatementLands(f) PROVE FenceInv'
  <2> DEFINE tok == IF stmt[f].stale THEN seq + 1 ELSE stmt[f].tok
  <2>1. /\ leaseOwner' = f /\ exists /\ exists'
        /\ fence < tok /\ fence' = tok /\ fence' <= seq' /\ seq <= seq'
        /\ tok \in Nat
    BY <1>7 DEF StatementLands, Stamp, RaiseFence, FenceInv, Minted, QueuedIsNewer, TypeOK, Statement
  <2>2. RowUpdated({f})
    BY <1>7 DEF StatementLands
  <2>3. \/ /\ pc[f] = "waiting"
           /\ token' = [token EXCEPT ![f] = fence']
           /\ pc' = [pc EXCEPT ![f] = "confirming"]
        \/ /\ pc[f] = "waiting" /\ UNCHANGED token
           /\ pc' = [pc EXCEPT ![f] = IF tries[f] + 1 < Attempts THEN "minting" ELSE "releaseLease"]
        \/ /\ pc[f] # "waiting" /\ UNCHANGED <<pc, token>>
    BY <1>7 DEF StatementLands, AttemptFailed, flowVars
  <2>4. Pending(f)
    BY <1>7 DEF StatementLands
  <2>5. Minted'
    <3>1. seq' \in Nat /\ seq \in Nat
      BY <1>7 DEF StatementLands, TypeOK
    <3>2. \A g \in Flow : token'[g] <= seq'
      BY <2>1, <2>3, <3>1 DEF FenceInv, Minted, TypeOK
    <3>3. \A g \in Flow : stmt'[g].tok <= seq'
      <4>1. \A g \in Flow : stmt'[g].tok = IF g \in {f} THEN 0 ELSE stmt[g].tok
        BY <2>2, AfterRowUpdate
      <4>2. \A g \in Flow : stmt[g].tok \in Nat /\ stmt[g].tok <= seq
        BY DEF FenceInv, Minted, TypeOK, Statement
      <4> QED
        BY <2>1, <3>1, <4>1, <4>2
    <3> QED
      BY <2>1, <3>2, <3>3 DEF Minted
  <2>6. Stamped'
    BY <2>1, <2>3 DEF FenceInv, Stamped, TypeOK
  <2>7. QueuedIsNewer'
    BY <2>2, AfterRowUpdate DEF QueuedIsNewer
  <2>8. NothingQueued'
    BY <2>2, <2>3, AfterRowUpdate DEF FenceInv, NothingQueued, TypeOK
  <2>9. TokensUnique'
    BY <2>1, <2>3 DEF FenceInv, Stamped, TokensUnique, TypeOK
  <2>10. NoFalseStale'
    BY <2>1, <2>3, <2>4 DEF FenceInv, NothingQueued, NoFalseStale, Unqueued, TypeOK
  <2> QED
    BY <2>5, <2>6, <2>7, <2>8, <2>9, <2>10 DEF FenceInv
<1>8. ASSUME NEW f \in Flow, StatementMisses(f) PROVE FenceInv'
  <2>1. /\ stmt' = [stmt EXCEPT ![f] = NoStmt]
        /\ pc' = IF pc[f] = "waiting" THEN [pc EXCEPT ![f] = "probing"] ELSE pc
        /\ UNCHANGED <<exists, leaseOwner, leaseTtl, fence, seq, token>>
    BY <1>8 DEF StatementMisses, rowVars
  <2>2. \A g \in Flow : stmt'[g] = IF g = f THEN NoStmt ELSE stmt[g]
    BY <2>1 DEF TypeOK
  <2>3. Minted'
    BY <2>1, <2>2 DEF FenceInv, Minted, TypeOK, Statement, NoStmt
  <2>4. QueuedIsNewer' /\ NothingQueued'
    BY <2>1, <2>2 DEF FenceInv, QueuedIsNewer, NothingQueued, Pending, LeaseFree, NoStmt, TypeOK
  <2>5. Stamped' /\ TokensUnique'
    BY <2>1 DEF FenceInv, Stamped, TokensUnique
  <2>6. NoFalseStale'
    BY <2>1 DEF FenceInv, NoFalseStale, TypeOK
  <2> QED
    BY <2>3, <2>4, <2>5, <2>6 DEF FenceInv
<1>9. ASSUME NEW f \in Flow, MintError(f) PROVE FenceInv'
  BY <1>9, QuietStep DEF MintError, rowVars, TypeOK, Unqueued, Granted
<1>10. ASSUME NEW f \in Flow, Confirm(f) PROVE FenceInv'
  BY <1>10, QuietStep DEF Confirm, AssertHeld, rowVars, TypeOK, Unqueued, Granted
<1>11. ASSUME NEW f \in Flow, RenewKey(f) PROVE FenceInv'
  BY <1>11, QuietStep DEF RenewKey, rowVars, flowVars
<1>12. ASSUME NEW f \in Flow, RenewLease(f) PROVE FenceInv'
  BY <1>12, RowWritten DEF RenewLease, flowVars
<1>13. ASSUME NEW f \in Flow, AssertFenceCurrent(f) PROVE FenceInv'
  BY <1>13, QuietStep DEF AssertFenceCurrent, AssertHeld, rowVars, TypeOK, Unqueued, Granted
<1>14. ASSUME NEW f \in Flow, GuardedWrite(f) PROVE FenceInv'
  <2>1. CASE exists /\ fence <= token[f]
    <3>1. fence = token[f]
      BY <2>1 DEF FenceInv, Stamped, TypeOK
    <3>2. fence' = fence
      BY <1>14, <2>1, <3>1 DEF GuardedWrite, RaiseFence, TypeOK
    <3> QED
      BY <1>14, <2>1, <3>2, RowWritten DEF GuardedWrite
  <2>2. CASE ~(exists /\ fence <= token[f])
    BY <1>14, <2>2, QuietStep DEF GuardedWrite, TypeOK, Unqueued, Granted
  <2> QED
    BY <2>1, <2>2
<1>15. ASSUME NEW f \in Flow, ExternalWrite(f) PROVE FenceInv'
  BY <1>15, QuietStep DEF ExternalWrite, AssertHeld, rowVars, TypeOK, Unqueued, Granted
<1>16. ASSUME NEW f \in Flow, ExternalDone(f) PROVE FenceInv'
  BY <1>16, QuietStep DEF ExternalDone, rowVars, TypeOK, Unqueued, Granted
<1>17. ASSUME NEW f \in Flow, Finish(f) PROVE FenceInv'
  BY <1>17, QuietStep DEF Finish, rowVars, TypeOK, Unqueued, Granted
<1>18. ASSUME NEW f \in Flow, ReleaseLease(f) PROVE FenceInv'
  <2>1. CASE exists /\ leaseOwner = f
    <3>1. /\ RowUpdated({}) /\ leaseOwner' = NoFlow
          /\ pc' = [pc EXCEPT ![f] = "releaseKey"]
          /\ UNCHANGED <<exists, fence, seq, token>>
      BY <1>18, <2>1 DEF ReleaseLease
    <3>2. Minted' /\ Stamped' /\ QueuedIsNewer' /\ TokensUnique'
      BY <3>1, AfterRowUpdate DEF FenceInv, Minted, Stamped, QueuedIsNewer, TokensUnique
    <3>3. NothingQueued' /\ NoFalseStale'
      BY <3>1, AfterRowUpdate DEF FenceInv, NothingQueued, NoFalseStale, Unqueued, TypeOK
    <3> QED
      BY <3>2, <3>3 DEF FenceInv
  <2>2. CASE ~(exists /\ leaseOwner = f)
    BY <1>18, <2>2, QuietStep DEF ReleaseLease, TypeOK, Unqueued, Granted
  <2> QED
    BY <2>1, <2>2
<1>19. ASSUME NEW f \in Flow, ReleaseKey(f) PROVE FenceInv'
  BY <1>19, QuietStep DEF ReleaseKey, rowVars, TypeOK, Unqueued, Granted
<1>20. ASSUME NEW f \in Flow, ReleaseError(f) PROVE FenceInv'
  BY <1>20, QuietStep DEF ReleaseError, rowVars, TypeOK, Unqueued, Granted
<1>21. ASSUME NEW f \in Flow, Crash(f) PROVE FenceInv'
  BY <1>21, QuietStep DEF Crash, rowVars, TypeOK, Unqueued, Granted
<1>22. CASE RedisLoss
  BY <1>22, QuietStep DEF RedisLoss, rowVars, flowVars
<1>23. CASE LockRow
  BY <1>23, QuietStep DEF LockRow, rowVars, flowVars
<1>24. CASE UnlockRow
  BY <1>24, QuietStep, RowWritten DEF UnlockRow, rowVars, flowVars
<1>25. CASE RiderDeleted
  <2>1. RowUpdated({}) /\ ~exists' /\ UNCHANGED <<fence, seq, token, pc>>
    BY <1>25 DEF RiderDeleted, flowVars
  <2> QED
    BY <2>1, AfterRowUpdate DEF FenceInv, Minted, Stamped, QueuedIsNewer, NothingQueued, TokensUnique, NoFalseStale
<1>26. CASE Tick
  <2>1. \A g \in Flow : /\ stmt'[g].tok = stmt[g].tok
                        /\ stmt'[g].stale = stmt[g].stale
    BY <1>26 DEF Tick, TypeOK, Statement
  <2>2. leaseTtl = 0 => leaseTtl' = 0
    BY <1>26 DEF Tick, Down
  <2>3. UNCHANGED <<exists, leaseOwner, fence, seq, pc, token>>
    BY <1>26 DEF Tick, flowVars
  <2> QED
    BY <2>1, <2>2, <2>3 DEF FenceInv, Minted, Stamped, QueuedIsNewer, NothingQueued, TokensUnique, NoFalseStale, Pending, LeaseFree
<1>27. CASE UNCHANGED vars
  BY <1>27, QuietStep DEF vars, rowVars, flowVars
<1> QED
  BY <1>1, <1>2, <1>3, <1>4, <1>5, <1>6, <1>7, <1>8, <1>9, <1>10, <1>11, <1>12,
     <1>13, <1>14, <1>15, <1>16, <1>17, <1>18, <1>19, <1>20, <1>21, <1>22, <1>23,
     <1>24, <1>25, <1>26, <1>27
     DEF Next, Acquiring, Holding, Releasing, Environment

\* The invariant of the fence, for every set of flows, TTL and choice of faults.
THEOREM FenceInvariant == Spec => []FenceInv
<1>1. Init => FenceInv
  BY DEF Init, FenceInv, Minted, Stamped, QueuedIsNewer, NothingQueued, TokensUnique,
         NoFalseStale, Pending, NoStmt
<1> QED
  BY <1>1, TypeCorrect, FenceStep, PTL DEF Spec

\* No two flows ever hold the same fence token (mintFenceToken).
THEOREM UniqueTokens == Spec => []TokensUnique
<1>1. FenceInv => TokensUnique
  BY DEF FenceInv
<1> QED
  BY <1>1, FenceInvariant, PTL

\* A flow that owns the lease is never mistaken for a stale one
\* (assertSubscriptionFenceCurrent).
THEOREM LiveOwnerNotStale == Spec => []NoFalseStale
<1>1. FenceInv => NoFalseStale
  BY DEF FenceInv
<1> QED
  BY <1>1, FenceInvariant, PTL

\* Only StatementLands gives the lease to a flow.
LEMMA Takeover ==
  ASSUME TypeOK, [Next]_vars, leaseOwner' # leaseOwner, leaseOwner' # NoFlow
  PROVE  \E f \in Flow : StatementLands(f)
  BY DEF Next, Acquiring, Holding, Releasing, Environment,
         AcquireKey, AcquireTimeout, AcquireError, ScanMatches, ScanMisses, Probe,
         StatementMisses, MintError, Confirm, RenewKey, RenewLease, AssertFenceCurrent,
         GuardedWrite, ExternalWrite, ExternalDone, Finish, ReleaseLease, ReleaseKey,
         ReleaseError, Crash, RedisLoss, LockRow, UnlockRow, RiderDeleted, Tick,
         vars, rowVars

\* What an UPDATE that lands does to the row.
LEMMA Landing ==
  ASSUME TypeOK, FenceInv, NEW f \in Flow, StatementLands(f)
  PROVE  /\ leaseOwner' = f /\ fence' > fence /\ UNCHANGED lastWrite
         /\ LeaseFree(f)
  BY DEF StatementLands, Stamp, RaiseFence, FenceInv, Minted, QueuedIsNewer, TypeOK, Statement

\* Token order equals acquisition order: the fence rises whenever the lease gets
\* a new owner.
THEOREM TokenOrder == Spec => FenceRisesAtTakeover
<1>1. TypeOK /\ FenceInv /\ [Next]_vars
        => [leaseOwner' # leaseOwner /\ leaseOwner' # NoFlow => fence' > fence]_vars
  BY Takeover, Landing
<1> QED
  BY <1>1, TypeCorrect, FenceInvariant, PTL DEF Spec, FenceRisesAtTakeover

\* A running lease is never taken from its owner.
THEOREM NoTheft == Spec => StolenOnlyIfLapsed
<1>1. ASSUME TypeOK, FenceInv, [Next]_vars, NEW f \in Flow, NEW g \in Flow,
             f # g, leaseOwner = f, leaseOwner' = g
      PROVE  leaseTtl = 0
  <2>1. PICK h \in Flow : StatementLands(h)
    BY <1>1, Takeover
  <2> QED
    BY <1>1, <2>1, Landing DEF LeaseFree
<1>2. TypeOK /\ FenceInv /\ [Next]_vars
        => [\A f, g \in Flow :
              f # g /\ leaseOwner = f /\ leaseOwner' = g => leaseTtl = 0]_vars
  BY <1>1
<1> QED
  BY <1>2, TypeCorrect, FenceInvariant, PTL DEF Spec, StolenOnlyIfLapsed

\* Every guarded write carries the newest epoch: the lock implements FencedRow
\* with the fence as the epoch and the last write's token as the writer.
THEOREM ImplementsFencedRow == Spec => OnlyTheNewestWrites
<1>1. Init => Fenced!Init
  BY DEF Init, Fenced!Init
<1>2. TypeOK /\ TypeOK' /\ FenceInv /\ [Next]_vars
        => [Fenced!Acquire \/ Fenced!Write]_<<fence, lastWrite>>
  <2> SUFFICES ASSUME TypeOK, TypeOK', FenceInv, [Next]_vars
               PROVE  Fenced!Acquire \/ Fenced!Write \/ UNCHANGED <<fence, lastWrite>>
    OBVIOUS
  <2>1. ASSUME NEW f \in Flow, StatementLands(f) PROVE Fenced!Acquire
    BY <2>1, Landing DEF Fenced!Acquire, TypeOK
  <2>2. ASSUME NEW f \in Flow, GuardedWrite(f)
        PROVE  Fenced!Write \/ UNCHANGED <<fence, lastWrite>>
    <3>1. CASE exists /\ fence <= token[f]
      <4>1. fence = token[f]
        BY <3>1 DEF FenceInv, Stamped, TypeOK
      <4> QED
        BY <2>2, <3>1, <4>1 DEF GuardedWrite, RaiseFence, Fenced!Write, TypeOK
    <3>2. CASE ~(exists /\ fence <= token[f])
      BY <2>2, <3>2 DEF GuardedWrite
    <3> QED
      BY <3>1, <3>2
  <2>3. CASE UNCHANGED <<fence, lastWrite>>
    BY <2>3
  <2>4. \/ UNCHANGED <<fence, lastWrite>>
        \/ \E f \in Flow : StatementLands(f) \/ GuardedWrite(f)
    BY DEF Next, Acquiring, Holding, Releasing, Environment,
         AcquireKey, AcquireTimeout, AcquireError, ScanMatches, ScanMisses, Probe,
         StatementMisses, MintError, Confirm, RenewKey, RenewLease, AssertFenceCurrent,
         ExternalWrite, ExternalDone, Finish, ReleaseLease, ReleaseKey,
         ReleaseError, Crash, RedisLoss, LockRow, UnlockRow, RiderDeleted, Tick,
         vars, rowVars
  <2> QED
    BY <2>1, <2>2, <2>3, <2>4
<1> QED
  BY <1>1, <1>2, TypeCorrect, FenceInvariant, PTL DEF Spec, OnlyTheNewestWrites, Fenced!Spec

----------------------------------------------------------------------------
(***************************************************************************)
(* External calls.  The argument: a call under way is shorter than what is *)
(* left of the key it was started under, so the key still names its flow,  *)
(* and the key names one flow at a time.                                   *)
(***************************************************************************)

\* A call under way belongs to a flow that waits for it or died waiting, and ends
\* before the key does.
CallCovered ==
  \A f \in Flow : op[f] > 0 =>
    pc[f] \in {"external", "crashed"} /\ keyOwner = f /\ op[f] <= keyTtl

\* A step that leaves calls alone and no key shorter preserves CallCovered.
LEMMA CallUndisturbed ==
  ASSUME TypeOK, CallCovered, UNCHANGED op,
         \A f \in Flow : op[f] > 0 => /\ pc'[f] \in {"external", "crashed"}
                                     /\ keyOwner' = keyOwner
                                     /\ keyTtl' \in Nat /\ keyTtl <= keyTtl'
  PROVE  CallCovered'
  BY DEF CallCovered, TypeOK

\* While Redis keeps its keys, no step leaves an external call uncovered.
LEMMA CallStep ==
  ASSUME "redisLoss" \notin Faults, TypeOK, TypeOK', CallCovered, [Next]_vars
  PROVE  CallCovered'
<1> USE DEF Goto, TypeOK
<1>1. ASSUME NEW f \in Flow, Acquiring(f) PROVE CallCovered'
  <2>1. UNCHANGED op /\ (keyOwner # NoFlow => keyOwner' = keyOwner /\ keyTtl <= keyTtl')
    BY <1>1 DEF Acquiring, AcquireKey, AcquireTimeout, AcquireError, ScanMatches, ScanMisses,
         Probe, StatementLands, StatementMisses, MintError, Confirm, AssertHeld, keyVars
  <2>2. pc[f] \in {"external", "crashed"} => pc'[f] = pc[f]
    BY <1>1 DEF Acquiring, AcquireKey, AcquireTimeout, AcquireError, ScanMatches, ScanMisses,
         Probe, StatementLands, StatementMisses, MintError, Confirm, AssertHeld, flowVars
  <2>3. \A g \in Flow \ {f} : pc'[g] = pc[g]
    BY <1>1 DEF Acquiring, AcquireKey, AcquireTimeout, AcquireError, ScanMatches, ScanMisses,
         Probe, StatementLands, StatementMisses, MintError, Confirm, AssertHeld, AttemptFailed, flowVars
  <2> QED
    BY <2>1, <2>2, <2>3, CallUndisturbed DEF CallCovered
<1>2. ASSUME NEW f \in Flow, RenewKey(f) \/ RenewLease(f) \/ AssertFenceCurrent(f) \/ GuardedWrite(f) \/ Finish(f)
      PROVE  CallCovered'
  <2>1. UNCHANGED <<op, keyOwner>> /\ keyTtl <= keyTtl'
    BY <1>2 DEF RenewKey, RenewLease, AssertFenceCurrent, AssertHeld, GuardedWrite, Finish, keyVars
  <2>2. \A g \in Flow : pc[g] \in {"external", "crashed"} => pc'[g] = pc[g]
    BY <1>2 DEF RenewKey, RenewLease, AssertFenceCurrent, AssertHeld, GuardedWrite, Finish, flowVars
  <2> QED
    BY <2>1, <2>2, CallUndisturbed DEF CallCovered
<1>3. ASSUME NEW f \in Flow, ExternalWrite(f) PROVE CallCovered'
  <2>1. op[f] = 0
    BY <1>3 DEF ExternalWrite, CallCovered
  <2>2. CASE keyOwner = f
    <3>1. \A g \in Flow \ {f} : op[g] = 0
      BY <2>2 DEF CallCovered
    <3> QED
      BY <1>3, <2>2, <3>1 DEF ExternalWrite, AssertHeld, CallCovered
  <2>3. CASE keyOwner # f
    BY <1>3, <2>1, <2>3 DEF ExternalWrite, AssertHeld, CallCovered, keyVars
  <2> QED
    BY <2>2, <2>3
<1>4. ASSUME NEW f \in Flow, ExternalDone(f) PROVE CallCovered'
  BY <1>4 DEF ExternalDone, CallCovered, keyVars
<1>5. ASSUME NEW f \in Flow, Releasing(f) PROVE CallCovered'
  BY <1>5 DEF Releasing, ReleaseLease, ReleaseKey, ReleaseError, CallCovered, keyVars
<1>6. ASSUME NEW f \in Flow, Crash(f) PROVE CallCovered'
  BY <1>6 DEF Crash, CallCovered, keyVars
<1>7. CASE LockRow \/ UnlockRow \/ RiderDeleted \/ UNCHANGED vars
  BY <1>7 DEF LockRow, UnlockRow, RiderDeleted, CallCovered, vars, keyVars, flowVars
<1>8. CASE Tick
  BY <1>8 DEF Tick, Down, CallCovered, flowVars
<1>9. CASE RedisLoss
  BY <1>9 DEF RedisLoss
<1> QED
  BY <1>1, <1>2, <1>3, <1>4, <1>5, <1>6, <1>7, <1>8, <1>9 DEF Next, Holding, Environment

\* While Redis keeps its keys, two flows never have a Stripe call under way at
\* once (SubscriptionLockLease.assertHeld).
THEOREM OneExternalCall ==
  ASSUME "redisLoss" \notin Faults
  PROVE  Spec => []ExternalExclusion
<1>1. Init => CallCovered
  BY DEF Init, CallCovered
<1>2. CallCovered => ExternalExclusion
  BY DEF CallCovered, ExternalExclusion
<1>3. TypeOK /\ TypeOK' /\ CallCovered /\ [Next]_vars => CallCovered'
  BY CallStep
<1> QED
  BY <1>1, <1>2, <1>3, TypeCorrect, PTL DEF Spec

----------------------------------------------------------------------------
(***************************************************************************)
(* The hand-over.  The argument: while Redis keeps its keys and heartbeats *)
(* are prompt, whoever is inside runExclusive owns the key, so nobody else *)
(* is inside; and a lease belongs to a flow that has been inside.  A lease *)
(* that stands in the way of the key's owner is therefore that of a flow   *)
(* that has left: it ended or died.                                        *)
(***************************************************************************)

\* Between taking the key and giving it back.
Inside == PCs \ {"polling", "ended", "crashed"}

InsideOwnsKey == \A f \in Flow : pc[f] \in Inside => keyOwner = f

\* Nobody gets a lease, or has an UPDATE queued for one, before it had the key.
LeaseAfterKey ==
  /\ leaseOwner \in Flow => pc[leaseOwner] # "polling"
  /\ \A f \in Flow : Pending(f) => pc[f] # "polling"

Handover == InsideOwnsKey /\ LeaseAfterKey

\* A step that puts nobody inside and takes the key from nobody inside.
LEMMA KeyUndisturbed ==
  ASSUME InsideOwnsKey,
         \A f \in Flow : pc'[f] \in Inside => pc[f] \in Inside /\ (keyOwner = f => keyOwner' = f)
  PROVE  InsideOwnsKey'
  BY DEF InsideOwnsKey

\* A step that sends nobody back to polling, queues nothing and gives the lease to nobody new.
LEMMA LeaseUndisturbed ==
  ASSUME LeaseAfterKey, leaseOwner' \in {leaseOwner, NoFlow},
         \A f \in Flow : /\ pc'[f] = "polling" => pc[f] = "polling"
                         /\ Pending(f)' => Pending(f)
  PROVE  LeaseAfterKey'
  BY DEF LeaseAfterKey

\* Without key loss and with prompt heartbeats, no step takes the key from who is inside.
LEMMA KeyStep ==
  ASSUME "redisLoss" \notin Faults, "lapse" \notin Faults, TypeOK, InsideOwnsKey, [Next]_vars
  PROVE  InsideOwnsKey'
<1> USE DEF Goto, TypeOK, Inside, PCs
<1>1. ASSUME NEW f \in Flow, AcquireKey(f) PROVE InsideOwnsKey'
  BY <1>1 DEF AcquireKey, InsideOwnsKey
<1>2. ASSUME NEW f \in Flow, AcquireError(f) \/ AcquireTimeout(f) PROVE InsideOwnsKey'
  BY <1>2 DEF AcquireError, AcquireTimeout, InsideOwnsKey, keyVars
<1>3. ASSUME NEW f \in Flow, \/ ScanMatches(f) \/ ScanMisses(f) \/ Probe(f) \/ MintError(f)
                             \/ StatementLands(f) \/ StatementMisses(f)
      PROVE  InsideOwnsKey'
  <2>1. /\ keyOwner' = keyOwner /\ \A g \in Flow \ {f} : pc'[g] = pc[g]
        /\ pc'[f] = pc[f] \/ pc[f] \in Inside
    BY <1>3 DEF ScanMatches, ScanMisses, Probe, MintError, StatementLands, StatementMisses,
         AttemptFailed, keyVars, flowVars
  <2> QED
    BY <2>1, KeyUndisturbed
<1>4. ASSUME NEW f \in Flow, \/ Confirm(f) \/ RenewKey(f) \/ RenewLease(f) \/ AssertFenceCurrent(f)
                             \/ GuardedWrite(f) \/ ExternalWrite(f) \/ ExternalDone(f) \/ Finish(f)
      PROVE  InsideOwnsKey'
  <2>1. /\ keyOwner' = keyOwner /\ \A g \in Flow \ {f} : pc'[g] = pc[g]
        /\ pc'[f] = pc[f] \/ pc[f] \in Inside
    BY <1>4 DEF Confirm, RenewKey, RenewLease, AssertFenceCurrent, AssertHeld, GuardedWrite,
         ExternalWrite, ExternalDone, Finish, keyVars, flowVars
  <2> QED
    BY <2>1, KeyUndisturbed
<1>5. ASSUME NEW f \in Flow, ReleaseLease(f) \/ ReleaseError(f) \/ Crash(f) PROVE InsideOwnsKey'
  <2>1. /\ keyOwner' = keyOwner /\ \A g \in Flow \ {f} : pc'[g] = pc[g]
        /\ pc'[f] \in Inside => pc[f] \in Inside
    BY <1>5 DEF ReleaseLease, ReleaseError, Crash, keyVars
  <2> QED
    BY <2>1, KeyUndisturbed
<1>6. ASSUME NEW f \in Flow, ReleaseKey(f) PROVE InsideOwnsKey'
  <2>1. pc[f] = "releaseKey" /\ keyOwner = f /\ pc' = [pc EXCEPT ![f] = "ended"]
    BY <1>6 DEF ReleaseKey, InsideOwnsKey
  <2> QED
    BY <2>1 DEF InsideOwnsKey
<1>7. CASE LockRow \/ UnlockRow \/ RiderDeleted \/ UNCHANGED vars
  BY <1>7 DEF LockRow, UnlockRow, RiderDeleted, InsideOwnsKey, vars, keyVars, flowVars
<1>8. CASE Tick
  <2>1. /\ Prompt /\ pc' = pc
        /\ keyOwner' = IF keyTtl <= 1 THEN NoFlow ELSE keyOwner
    BY <1>8 DEF Tick, flowVars
  <2>2. \A f \in Flow : pc[f] \in Inside /\ keyOwner = f => keyTtl > 1
    BY <2>1 DEF Prompt
  <2> QED
    BY <2>1, <2>2 DEF InsideOwnsKey
<1>9. CASE RedisLoss
  BY <1>9 DEF RedisLoss
<1> QED
  BY <1>1, <1>2, <1>3, <1>4, <1>5, <1>6, <1>7, <1>8, <1>9
     DEF Next, Acquiring, Holding, Releasing, Environment

\* Whatever happens, only a flow that had the key comes to have a lease.
LEMMA LeaseStep == ASSUME TypeOK, LeaseAfterKey, [Next]_vars PROVE LeaseAfterKey'
<1> USE DEF Goto, TypeOK
<1>1. ASSUME NEW f \in Flow, ScanMatches(f) PROVE LeaseAfterKey'
  BY <1>1 DEF ScanMatches, LeaseAfterKey, Pending, rowVars
<1>2. ASSUME NEW f \in Flow, StatementLands(f) PROVE LeaseAfterKey'
  <2>1. /\ Pending(f) /\ leaseOwner' = f /\ RowUpdated({f})
        /\ \A g \in Flow : pc'[g] = "polling" => pc[g] = "polling"
    BY <1>2 DEF StatementLands, Stamp, AttemptFailed, flowVars
  <2> QED
    BY <2>1, AfterRowUpdate DEF LeaseAfterKey
<1>3. ASSUME NEW f \in Flow, StatementMisses(f) PROVE LeaseAfterKey'
  BY <1>3, LeaseUndisturbed DEF StatementMisses, Pending, NoStmt, rowVars
<1>4. ASSUME NEW f \in Flow,
             \/ AcquireKey(f) \/ AcquireTimeout(f) \/ AcquireError(f) \/ ScanMisses(f) \/ Probe(f)
             \/ MintError(f) \/ Confirm(f) \/ RenewKey(f) \/ AssertFenceCurrent(f)
             \/ ExternalWrite(f) \/ ExternalDone(f) \/ Finish(f)
             \/ ReleaseKey(f) \/ ReleaseError(f) \/ Crash(f)
      PROVE  LeaseAfterKey'
  <2>1. /\ UNCHANGED <<leaseOwner, stmt>>
        /\ \A g \in Flow : pc'[g] = "polling" => pc[g] = "polling"
    BY <1>4 DEF AcquireKey, AcquireTimeout, AcquireError, ScanMisses, Probe, MintError, Confirm,
         RenewKey, AssertFenceCurrent, AssertHeld, ExternalWrite, ExternalDone, Finish,
         ReleaseKey, ReleaseError, Crash, AttemptFailed, rowVars, flowVars
  <2> QED
    BY <2>1, LeaseUndisturbed DEF Pending
<1>5. ASSUME NEW f \in Flow, RenewLease(f) \/ GuardedWrite(f) \/ ReleaseLease(f)
      PROVE  LeaseAfterKey'
  <2>1. /\ leaseOwner' \in {leaseOwner, NoFlow} /\ (RowUpdated({}) \/ UNCHANGED stmt)
        /\ \A g \in Flow : pc'[g] = "polling" => pc[g] = "polling"
    BY <1>5 DEF RenewLease, GuardedWrite, ReleaseLease, flowVars
  <2>2. \A g \in Flow : Pending(g)' => Pending(g)
    BY <2>1, AfterRowUpdate DEF Pending
  <2> QED
    BY <2>1, <2>2, LeaseUndisturbed
<1>6. CASE Environment \/ UNCHANGED vars
  <2>1. /\ leaseOwner' \in {leaseOwner, NoFlow} /\ pc' = pc
        /\ RowUpdated({}) \/ \A g \in Flow : stmt'[g].tok = stmt[g].tok
    BY <1>6 DEF Environment, RedisLoss, LockRow, UnlockRow, RiderDeleted, Tick, Statement,
         vars, rowVars, flowVars
  <2>2. \A g \in Flow : Pending(g)' => Pending(g)
    BY <2>1, AfterRowUpdate DEF Pending
  <2> QED
    BY <2>1, <2>2, LeaseUndisturbed
<1> QED
  BY <1>1, <1>2, <1>3, <1>4, <1>5, <1>6 DEF Next, Acquiring, Holding, Releasing

\* While Redis keeps its keys and heartbeats are prompt, the lease that stands in the
\* way of the key's owner is that of a flow that ended or died (the order of finally{}
\* in runExclusive).
THEOREM HandoffsAreClean ==
  ASSUME "redisLoss" \notin Faults, "lapse" \notin Faults
  PROVE  Spec => []HandoffClean
<1>1. Init => Handover
  BY DEF Init, Handover, InsideOwnsKey, LeaseAfterKey, Inside, Pending, NoStmt
<1>2. TypeOK /\ Handover => HandoffClean
  <2> SUFFICES ASSUME TypeOK, Handover, NEW f \in Flow, pc[f] \in {"minting", "waiting"},
                      ~LeaseFree(f)
               PROVE  leaseOwner \in Flow /\ pc[leaseOwner] \in {"ended", "crashed"}
    BY DEF HandoffClean
  <2>1. leaseOwner \in Flow \ {f} /\ pc[leaseOwner] \in PCs
    BY DEF LeaseFree, TypeOK, Owner
  <2>2. keyOwner = f
    BY DEF Handover, InsideOwnsKey, Inside, PCs
  <2>3. pc[leaseOwner] \notin Inside /\ pc[leaseOwner] # "polling"
    BY <2>1, <2>2 DEF Handover, InsideOwnsKey, LeaseAfterKey
  <2> QED
    BY <2>1, <2>3 DEF Inside
<1>3. TypeOK /\ Handover /\ [Next]_vars => Handover'
  BY KeyStep, LeaseStep DEF Handover
<1> QED
  BY <1>1, <1>2, <1>3, TypeCorrect, PTL DEF Spec
============================================================================
