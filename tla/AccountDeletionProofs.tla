----------------------- MODULE AccountDeletionProofs -----------------------
(* Proofs about AccountDeletion, for any number of subscriptions, processes,  *)
(* deletions and failures.                                                    *)
EXTENDS AccountDeletion, TLAPS

----------------------------------------------------------------------------
(* The invariant.                                                             *)

\* A purge that has begun stays due: whoever could undo it waits for the lock.
PurgeIsDue ==
  \A p \in Proc : pc[p] \in {"hardCancel", "deleteCustomer", "delete"} => Due

\* Without its customer Stripe has no subscription; a purge that reached the DELETE
\* has seen to that, or will log that it failed.
Torn ==
  /\ ~customer => \A s \in Sub : ~Live(s)
  /\ \A p \in Proc : pc[p] = "delete" => job[p].errors \/ ~customer
  /\ ~row.exists => audit \/ ~customer

\* Does the program know of s: by a flag it set, an item, a job or a handler?
Known(s) ==
  \/ stripe[s].ending
  \/ \E i \in Item : items[i].sub = s
  \/ \E p \in Proc : pc[p] # "idle" /\ job[p].sub = s
  \/ hook[s] # "quiet"
  \/ row.sub = s

\* What it knows of and still runs owns the slot.
KnownOwns ==
  \A s \in Sub : Known(s) => stripe[s].st # "none" /\ (Live(s) => row.sub = s)

Holds(p) == pc[p] \in {"cancel", "renew", "converge", "resolve"}

\* The item a process is about to resolve is not of another running subscription.
ItemFits ==
  \A p \in Proc, s \in Sub :
    /\ Holds(p) \/ pc[p] = "lockCancel"
    /\ job[p].item \in Item /\ items[job[p].item].sub = s /\ Live(s)
    => job[p].sub = s

\* A flag that was set to the wrong direction meanwhile has another item.
Opposed ==
  \A p \in Proc, s \in Sub :
    Holds(p) /\ ~job[p].want /\ Scheduled /\ row.sub = s /\ job[p].sub = s /\ Live(s) =>
      \E i \in Item \ {job[p].item} : items[i].sub = s

\* A cancel is under way only while the deletion is scheduled; a call that was
\* answered has set the flag, and a later owner of the slot has it unset.
FlagIsSet ==
  \A p \in Proc :
    /\ pc[p] \in {"lockCancel", "cancel"} => job[p].want
    /\ pc[p] = "renew" => ~job[p].want
    /\ Holds(p) /\ job[p].want => Scheduled
    /\ Holds(p) \/ pc[p] \in {"lockCancel", "retry"} => job[p].item \in Item /\ job[p].sub \in Sub
    /\ \A s \in Sub :
         /\ pc[p] = "resolve" /\ row.sub = s /\ job[p].sub = s /\ Live(s) =>
              stripe[s].ending = job[p].want
         /\ Holds(p) /\ ~Scheduled /\ row.sub = s /\ job[p].sub # s /\ Live(s) =>
              ~stripe[s].ending

\* The two mismatches, and what keeps each on record.
Renewing ==
  \A s \in Sub : row.sub = s /\ Live(s) /\ ~stripe[s].ending /\ Scheduled =>
    (\E i \in Item : items[i].sub = s) \/ owed[s] \/ hook[s] # "quiet"
Ending ==
  \A s \in Sub : row.sub = s /\ Live(s) /\ stripe[s].ending /\ ~Scheduled =>
    \E i \in Item : items[i].sub # None

Matching == KnownOwns /\ ItemFits /\ Opposed /\ FlagIsSet /\ Renewing /\ Ending

MInv == TypeOK /\ IF row.exists THEN Matching ELSE row.sub = None

----------------------------------------------------------------------------
(* Types.                                                                     *)

\* The part of TypeOK about the processes.
ProcTypes == LockOK /\ pc \in [Proc -> PCs] /\ job \in [Proc -> Jobs]

\* A call of setCancelAtPeriodEnd changes no more than this flag of this subscription.
LEMMA FlagFacts ==
  ASSUME DataTypes, NEW s \in Sub \cup {None}, NEW want \in BOOLEAN,
         FlagSet(s, want) \/ FlagFails(s, want)
  PROVE  /\ stripe' \in [Sub -> Stripes] /\ faults' \in 0..bound.faults
         /\ \A t \in Sub :
              /\ stripe'[t].st = stripe[t].st
              /\ t # s \/ ~Live(t) => stripe'[t].ending = stripe[t].ending
              /\ stripe'[t].ending = stripe[t].ending \/ stripe'[t].ending = want
         /\ FlagSet(s, want) /\ s \in Sub /\ Live(s) => stripe'[s].ending = want
<1> USE NoneAssumption, BoundsAssumption
<1>1. faults' \in 0..bound.faults
  BY DEF DataTypes, FlagSet, FlagFails, Strike
<1>2. \/ UNCHANGED stripe /\ ~FlagSet(s, want)
      \/ stripe' = [stripe EXCEPT ![s].ending = IF Live(s) THEN want ELSE @]
  BY DEF FlagSet, FlagFails
<1>3. CASE UNCHANGED stripe /\ ~FlagSet(s, want)
  BY <1>1, <1>3 DEF DataTypes
<1>4. CASE stripe' = [stripe EXCEPT ![s].ending = IF Live(s) THEN want ELSE @]
  <2>1. \A t \in Sub : stripe'[t] = IF t = s /\ Live(s)
                                    THEN [st |-> stripe[t].st, ending |-> want] ELSE stripe[t]
    BY <1>4 DEF DataTypes, Stripes, Live
  <2>2. \A t \in Sub : stripe[t] \in Stripes /\ stripe'[t] \in Stripes
    <3>1. \A t \in Sub : [st |-> stripe[t].st, ending |-> want] \in Stripes
      BY DEF DataTypes, Stripes
    <3> QED
      BY <2>1, <3>1 DEF DataTypes
  <2>3. stripe' \in [Sub -> Stripes]
    BY <1>4, <2>2 DEF DataTypes
  <2> QED
    BY <1>1, <2>1, <2>2, <2>3 DEF Live
<1> QED
  BY <1>2, <1>3, <1>4

\* What the end of a set of subscriptions changes.
LEMMA EndAllFacts ==
  ASSUME DataTypes, NEW ended, EndAll(ended)
  PROVE  /\ stripe' \in [Sub -> Stripes] /\ owed' \in [Sub -> BOOLEAN]
         /\ \A t \in Sub :
              /\ stripe'[t].ending = stripe[t].ending
              /\ stripe'[t].st = IF t \in ended THEN "over" ELSE stripe[t].st
              /\ owed[t] => owed'[t]
  BY DEF DataTypes, Stripes, EndAll

\* What an INSERT changes.
LEMMA InsertFacts ==
  ASSUME DataTypes, NEW s \in Sub, NEW i \in Item, Insert(i, s)
  PROVE  /\ items' \in [Item -> Items]
         /\ items[i].sub = None /\ items'[i].sub = s
         /\ \A k \in Item \ {i} : items'[k] = items[k]
         /\ \A p \in Proc : job[p].item # i
<1>1. i \in Unused /\ items' = [items EXCEPT ![i] = [sub |-> s, tries |-> 0]]
  BY Zenon DEF Insert
<1> QED
  BY <1>1 DEF Unused, Open, DataTypes, Items

LEMMA WorkFacts ==
  ASSUME NEW i \in Item \cup {None}, NEW s \in Sub \cup {None}, NEW want \in BOOLEAN
  PROVE  /\ Work(i, s, want) \in Jobs
         /\ Work(i, s, want).item = i /\ Work(i, s, want).sub = s /\ Work(i, s, want).want = want
  BY DEF Work, Jobs

\* A step of p that leaves the lock alone, one that takes it, and one that ends.
LEMMA Keeps ==
  ASSUME TypeOK, NEW p \in Proc, NEW to \in PCs, NEW j \in Jobs, Goto(p, to, j),
         UNCHANGED lock, to \in Locked <=> pc[p] \in Locked
  PROVE  ProcTypes'
  BY DEF TypeOK, ProcTypes, LockOK, Goto

LEMMA Takes ==
  ASSUME TypeOK, NEW p \in Proc, NEW to \in PCs, NEW j \in Jobs, Goto(p, to, j),
         lock = None, lock' = p, to \in Locked
  PROVE  ProcTypes'
  BY NoneAssumption DEF TypeOK, ProcTypes, LockOK, Goto

LEMMA Ends ==
  ASSUME TypeOK, NEW p \in Proc, End(p)
  PROVE  ProcTypes'
<1>1. NoJob \in Jobs /\ "idle" \in PCs /\ "idle" \notin Locked
  BY DEF NoJob, Work, Jobs, PCs, Locked
<1> QED
  BY <1>1, NoneAssumption DEF TypeOK, ProcTypes, LockOK, Goto, End

THEOREM TypeCorrect == Spec => []TypeOK
<1> USE NoneAssumption, AttemptsAssumption, BoundsAssumption
<1>1. Init => TypeOK
  <2> SUFFICES ASSUME Init PROVE TypeOK
    OBVIOUS
  <2>1. DataTypes
    <3>1. bound.deletions \in Nat /\ bound.faults \in Nat
      BY DEF Init
    <3>2. row \in Rows
      BY DEF Init, Rows
    <3>3. stripe \in [Sub -> Stripes]
      BY DEF Init, Stripes
    <3>4. items \in [Item -> Items]
      BY DEF Init, Items, NoItem
    <3>5. bound \in Bounds /\ deletions \in 0..bound.deletions /\ faults \in 0..bound.faults
      BY <3>1 DEF Init
    <3>6. /\ customer \in BOOLEAN /\ audit \in BOOLEAN /\ owed \in [Sub -> BOOLEAN]
          /\ hook \in [Sub -> {"quiet", "claimed", "scheduled", "missing"}]
      BY DEF Init
    <3> QED
      BY <3>2, <3>3, <3>4, <3>5, <3>6 DEF DataTypes
  <2>2. NoJob \in Jobs
    BY WorkFacts DEF NoJob
  <2>3. LockOK /\ pc \in [Proc -> PCs] /\ job \in [Proc -> Jobs]
    BY <2>2 DEF Init, LockOK, PCs, Locked
  <2> QED
    BY <2>1, <2>3 DEF TypeOK
<1>2. TypeOK /\ [Next]_vars => TypeOK'
  <2> SUFFICES ASSUME TypeOK, [Next]_vars PROVE DataTypes' /\ ProcTypes'
    BY DEF TypeOK, ProcTypes
  <2> USE DEF billing, procs, counts
  <2>0. bound.deletions \in Nat /\ bound.faults \in Nat
    BY DEF TypeOK, DataTypes
  <2>1. ASSUME NEW p \in Proc, Request(p) PROVE DataTypes' /\ ProcTypes'
    <3>0. row' \in Rows
      BY <2>1 DEF TypeOK, DataTypes, Rows, Request
    <3>1. row' \in Rows /\ deletions' \in 0..bound.deletions
      BY <2>1, <2>0, <3>0 DEF TypeOK, DataTypes, Request
    <3>2. CASE row.sub = None
      BY <2>1, <3>1, <3>2 DEF TypeOK, DataTypes, ProcTypes, LockOK, Request
    <3>3. CASE row.sub # None
      <4>1. row.sub \in Sub
        BY <3>3 DEF TypeOK, DataTypes, Rows
      <4>2. PICK i \in Item : Insert(i, row.sub) /\ Goto(p, "lockCancel", Work(i, row.sub, TRUE))
        BY <2>1, <3>3 DEF Request
      <4>3. DataTypes'
        BY <2>1, <3>1, <4>1, <4>2, InsertFacts DEF TypeOK, DataTypes, Request
      <4>4. ProcTypes'
        BY <2>1, <4>1, <4>2, Keeps, WorkFacts DEF TypeOK, PCs, Locked, Request
      <4> QED
        BY <4>3, <4>4
    <3> QED
      BY <3>2, <3>3
  <2>2. ASSUME NEW p \in Proc, LockCancel(p) PROVE DataTypes' /\ ProcTypes'
    <3>1. DataTypes'
      BY <2>2 DEF TypeOK, DataTypes, LockCancel
    <3>2. ProcTypes'
      BY <2>2, Keeps, Takes, Ends DEF TypeOK, DataTypes, ProcTypes, Jobs, PCs, Locked, LockCancel
    <3> QED
      BY <3>1, <3>2
  <2>3. ASSUME NEW p \in Proc, Cancel(p) PROVE DataTypes' /\ ProcTypes'
    <3>1. DataTypes'
      BY <2>3, FlagFacts DEF TypeOK, DataTypes, Cancel, Jobs
    <3>2. ProcTypes'
      BY <2>3, Keeps, Takes, Ends DEF TypeOK, DataTypes, ProcTypes, Jobs, PCs, Locked, Cancel
    <3> QED
      BY <3>1, <3>2
  <2>4. ASSUME NEW p \in Proc, Resolve(p) PROVE DataTypes' /\ ProcTypes'
    <3>1. DataTypes'
      BY <2>4 DEF TypeOK, DataTypes, Resolve, Close, Items, NoItem
    <3>2. ProcTypes'
      BY <2>4, Keeps, Takes, Ends DEF TypeOK, DataTypes, ProcTypes, Jobs, PCs, Locked, Resolve
    <3> QED
      BY <3>1, <3>2
  <2>5. ASSUME NEW p \in Proc, Renew(p) PROVE DataTypes' /\ ProcTypes'
    <3>1. DataTypes'
      BY <2>5, FlagFacts DEF TypeOK, DataTypes, Renew, Jobs
    <3>2. ProcTypes'
      BY <2>5, Keeps, Takes, Ends DEF TypeOK, DataTypes, ProcTypes, Jobs, PCs, Locked, Renew
    <3> QED
      BY <3>1, <3>2
  <2>6. ASSUME NEW p \in Proc, Converge(p) PROVE DataTypes' /\ ProcTypes'
    <3>1. job[p].sub \in Sub \cup {None} /\ job[p].want \in BOOLEAN
      BY DEF TypeOK, Jobs
    <3>2. stripe' \in [Sub -> Stripes] /\ faults' \in 0..bound.faults
      BY <2>6, <3>1, FlagFacts DEF TypeOK, Converge
    <3>3. items' \in [Item -> Items]
      BY <2>6 DEF TypeOK, DataTypes, Converge, Items
    <3>4. DataTypes'
      BY <2>6, <3>2, <3>3 DEF TypeOK, DataTypes, Converge
    <3>5. ProcTypes'
      BY <2>6, Keeps, Ends DEF TypeOK, PCs, Locked, Converge
    <3> QED
      BY <3>4, <3>5
  <2>7. ASSUME NEW p \in Proc, HardCancel(p) PROVE DataTypes' /\ ProcTypes'
    <3>1. DataTypes'
      BY <2>7, EndAllFacts DEF TypeOK, DataTypes, HardCancel, Strike
    <3>2. ProcTypes'
      BY <2>7, Keeps, Takes, Ends DEF TypeOK, DataTypes, ProcTypes, Jobs, PCs, Locked, HardCancel
    <3> QED
      BY <3>1, <3>2
  <2>8. ASSUME NEW p \in Proc, DeleteCustomer(p) PROVE DataTypes' /\ ProcTypes'
    <3>1. stripe' \in [Sub -> Stripes] /\ owed' \in [Sub -> BOOLEAN]
      BY <2>8, EndAllFacts DEF TypeOK, DataTypes, DeleteCustomer
    <3>2. customer' \in BOOLEAN /\ faults' \in 0..bound.faults
      <4>1. customer' \in BOOLEAN
        BY <2>8 DEF TypeOK, DataTypes, DeleteCustomer
      <4>2. UNCHANGED faults \/ Strike
        BY <2>8 DEF DeleteCustomer
      <4> QED
        BY <4>1, <4>2, <2>0 DEF TypeOK, DataTypes, Strike
    <3>3. DataTypes'
      BY <2>8, <3>1, <3>2 DEF TypeOK, DataTypes, DeleteCustomer
    <3>4. PICK j \in Jobs : Goto(p, "delete", j)
      BY <2>8 DEF TypeOK, Jobs, DeleteCustomer
    <3>5. ProcTypes'
      BY <2>8, <3>4, Keeps DEF PCs, Locked, DeleteCustomer
    <3> QED
      BY <3>3, <3>5
  <2>9. ASSUME NEW p \in Proc, Delete(p) PROVE DataTypes' /\ ProcTypes'
    <3>1. row' \in Rows
      BY <2>9 DEF TypeOK, DataTypes, Rows, Delete
    <3>2. items' \in [Item -> Items] /\ audit' \in BOOLEAN
      BY <2>9 DEF TypeOK, DataTypes, Items, NoItem, Jobs, Delete
    <3>3. DataTypes'
      BY <2>9, <3>1, <3>2 DEF TypeOK, DataTypes, Delete
    <3>4. ProcTypes'
      BY <2>9, Ends DEF Delete
    <3> QED
      BY <3>3, <3>4
  <2>10. ASSUME NEW p \in Proc, Retry(p) PROVE DataTypes' /\ ProcTypes'
    <3>1. DataTypes'
      BY <2>10 DEF TypeOK, DataTypes, Retry, Close, Items, NoItem
    <3>2. ASSUME row.exists PROVE ProcTypes'
      <4>1. (IF row.sub # None THEN row.sub ELSE job[p].sub) \in Sub \cup {None}
        BY DEF TypeOK, DataTypes, Rows, Jobs
      <4>2. job[p].item \in Item \cup {None} /\ Direction \in BOOLEAN
        BY DEF TypeOK, Jobs, Direction
      <4> DEFINE j == Work(job[p].item, IF row.sub # None THEN row.sub ELSE job[p].sub, Direction)
      <4>3. j \in Jobs
        BY <4>1, <4>2, WorkFacts
      <4>4. lock = None /\ lock' = p /\ Goto(p, "converge", j)
        BY <2>10, <3>2 DEF Retry
      <4> HIDE DEF j
      <4>5. "converge" \in PCs /\ "converge" \in Locked
        BY DEF PCs, Locked
      <4> QED
        BY <4>3, <4>4, <4>5, Takes
    <3>3. ASSUME ~row.exists PROVE ProcTypes'
      BY <2>10, <3>3, Ends DEF Retry
    <3>4. ProcTypes'
      BY <3>2, <3>3
    <3> QED
      BY <3>1, <3>4
  <2>11. ASSUME NEW p \in Proc, LockPurge(p) PROVE DataTypes' /\ ProcTypes'
    <3>1. DataTypes'
      BY <2>11 DEF TypeOK, DataTypes, LockPurge
    <3>2. ProcTypes'
      BY <2>11, Keeps, Takes, Ends DEF TypeOK, DataTypes, ProcTypes, Jobs, PCs, Locked, LockPurge
    <3> QED
      BY <3>1, <3>2
  <2>12. ASSUME NEW p \in Proc, Restore(p) PROVE DataTypes' /\ ProcTypes'
    <3>1. row' \in Rows
      BY <2>12 DEF TypeOK, DataTypes, Rows, Restore
    <3>2. CASE row.sub = None
      BY <2>12, <3>1, <3>2 DEF TypeOK, DataTypes, ProcTypes, LockOK, Restore
    <3>3. CASE row.sub # None
      <4>1. row.sub \in Sub
        BY <3>3 DEF TypeOK, DataTypes, Rows
      <4>2. PICK i \in Item :
              /\ \/ Insert(i, row.sub)
                 \/ i \in Open /\ items' = [items EXCEPT ![i].tries = 0]
              /\ lock' = p /\ Goto(p, "renew", Work(i, row.sub, FALSE))
        BY <2>12, <3>3 DEF Restore
      <4>3. items' \in [Item -> Items]
        <5>1. CASE Insert(i, row.sub)
          BY <4>1, <5>1, InsertFacts DEF TypeOK
        <5>2. CASE items' = [items EXCEPT ![i].tries = 0]
          BY <5>2 DEF TypeOK, DataTypes, Items
        <5> QED
          BY <4>2, <5>1, <5>2
      <4>4. DataTypes'
        BY <2>12, <3>1, <4>3 DEF TypeOK, DataTypes, Restore
      <4>5. ProcTypes'
        BY <2>12, <4>1, <4>2, Takes, WorkFacts DEF TypeOK, PCs, Locked, Restore
      <4> QED
        BY <4>4, <4>5
    <3> QED
      BY <3>2, <3>3
  <2>13. ASSUME NEW p \in Proc, Select(p) PROVE DataTypes' /\ ProcTypes'
    <3>1. DataTypes'
      BY <2>13 DEF TypeOK, DataTypes, Select
    <3>2. ProcTypes'
      BY <2>13, Keeps, Takes, Ends, WorkFacts
      DEF TypeOK, DataTypes, ProcTypes, Jobs, PCs, Locked, Select, Open, Items
    <3> QED
      BY <3>1, <3>2
  <2>14. ASSUME NEW p \in Proc, Finalize(p) PROVE DataTypes' /\ ProcTypes'
    <3>1. DataTypes'
      BY <2>14 DEF TypeOK, DataTypes, Finalize
    <3>2. ProcTypes'
      BY <2>14, Keeps, Takes, Ends, WorkFacts
      DEF TypeOK, DataTypes, ProcTypes, Jobs, PCs, Locked, Finalize, Rows
    <3> QED
      BY <3>1, <3>2
  <2>15. ASSUME NEW p \in Proc, Die(p) PROVE DataTypes' /\ ProcTypes'
    <3>1. DataTypes'
      BY <2>15 DEF TypeOK, DataTypes, Die, Strike
    <3>2. ProcTypes'
      BY <2>15, Keeps, Takes, Ends DEF TypeOK, DataTypes, ProcTypes, Jobs, PCs, Locked, Die
    <3> QED
      BY <3>1, <3>2
  <2>16. ASSUME NEW s \in Sub, Event(s) PROVE DataTypes' /\ ProcTypes'
    <3>1. row' \in Rows
      BY <2>16 DEF TypeOK, DataTypes, Event, Rows
    <3>2. stripe' \in [Sub -> Stripes]
      <4>1. stripe' = stripe \/ stripe' = [stripe EXCEPT ![s].st = "over"]
        BY <2>16 DEF Event
      <4> QED
        BY <4>1 DEF TypeOK, DataTypes, Stripes
    <3>3. owed' \in [Sub -> BOOLEAN] /\ hook' \in [Sub -> {"quiet", "claimed", "scheduled", "missing"}]
      BY <2>16 DEF TypeOK, DataTypes, Event
    <3>4. UNCHANGED <<customer, items, lock, procs, audit, counts>>
      BY <2>16 DEF Event
    <3> QED
      BY <3>1, <3>2, <3>3, <3>4 DEF TypeOK, DataTypes, ProcTypes, LockOK
  <2>17. ASSUME NEW s \in Sub, Reread(s) \/ FindOpen(s) PROVE DataTypes' /\ ProcTypes'
    BY <2>17 DEF TypeOK, DataTypes, ProcTypes, LockOK, Reread, FindOpen
  <2>18. ASSUME NEW s \in Sub, OpenItem(s) PROVE DataTypes' /\ ProcTypes'
    <3>1. items' \in [Item -> Items]
      BY <2>18, InsertFacts DEF TypeOK, DataTypes, OpenItem
    <3>2. owed' \in [Sub -> BOOLEAN] /\ hook' \in [Sub -> {"quiet", "claimed", "scheduled", "missing"}]
      BY <2>18 DEF TypeOK, DataTypes, OpenItem
    <3>3. UNCHANGED <<row, stripe, customer, lock, procs, audit, counts>>
      BY <2>18 DEF OpenItem
    <3> QED
      BY <3>1, <3>2, <3>3 DEF TypeOK, DataTypes, ProcTypes, LockOK
  <2>19. ASSUME NEW s \in Sub, Subscribe(s) \/ PeriodEnds(s) PROVE DataTypes' /\ ProcTypes'
    <3>1. stripe' \in [Sub -> Stripes] /\ owed' \in [Sub -> BOOLEAN]
      <4>1. CASE Subscribe(s)
        BY <4>1 DEF TypeOK, DataTypes, Subscribe, Stripes
      <4>2. CASE PeriodEnds(s)
        BY <4>2, EndAllFacts DEF TypeOK, PeriodEnds
      <4> QED
        BY <2>19, <4>1, <4>2
    <3> QED
      BY <2>19, <3>1 DEF TypeOK, DataTypes, ProcTypes, LockOK, Subscribe, PeriodEnds
  <2>20. ASSUME NEW s \in Sub, HookDies(s) PROVE DataTypes' /\ ProcTypes'
    BY <2>20 DEF TypeOK, DataTypes, ProcTypes, LockOK, HookDies, Strike
  <2>21. CASE SoftDelete \/ GraceEnds
    <3>1. row' \in Rows
      BY <2>21 DEF TypeOK, DataTypes, Rows, SoftDelete, GraceEnds
    <3>2. deletions' \in 0..bound.deletions
      BY <2>0, <2>21 DEF TypeOK, DataTypes, SoftDelete, GraceEnds
    <3> QED
      BY <2>21, <3>1, <3>2 DEF TypeOK, DataTypes, ProcTypes, LockOK, SoftDelete, GraceEnds
  <2>22. CASE UNCHANGED vars
    BY <2>22 DEF TypeOK, DataTypes, ProcTypes, LockOK, vars
  <2> QED
    BY <2>1, <2>2, <2>3, <2>4, <2>5, <2>6, <2>7, <2>8, <2>9, <2>10, <2>11, <2>12, <2>13, <2>14, <2>15, <2>16, <2>17, <2>18, <2>19, <2>20, <2>21, <2>22
       DEF Next, Step, Lock, Hook
<1> QED
  BY <1>1, <1>2, PTL DEF Spec

----------------------------------------------------------------------------
(* The purge.                                                                 *)

\* What Goto and End do to the processes.
LEMMA GotoFacts ==
  ASSUME TypeOK, NEW p \in Proc, NEW to \in PCs, NEW j \in Jobs, Goto(p, to, j)
  PROVE  /\ pc'[p] = to /\ job'[p] = j
         /\ \A q \in Proc \ {p} : pc'[q] = pc[q] /\ job'[q] = job[q]
  BY DEF TypeOK, Goto

LEMMA EndFacts ==
  ASSUME TypeOK, NEW p \in Proc, End(p)
  PROVE  /\ pc'[p] = "idle" /\ job'[p] = NoJob
         /\ \A q \in Proc \ {p} : pc'[q] = pc[q] /\ job'[q] = job[q]
  BY DEF TypeOK, Goto, End

\* The lock has one holder.
LEMMA Alone ==
  ASSUME TypeOK, NEW p \in Proc, pc[p] \in Locked \/ lock = None,
         NEW q \in Proc, pc[q] \in Locked
  PROVE  q = p /\ lock = p
  BY NoneAssumption DEF TypeOK, LockOK

PInv == TypeOK /\ PurgeIsDue /\ Torn

LEMMA PurgeStep == PInv /\ [Next]_vars => PurgeIsDue' /\ Torn'
<1> SUFFICES ASSUME TypeOK, PurgeIsDue, Torn, [Next]_vars PROVE PurgeIsDue' /\ Torn'
  BY DEF PInv
<1> USE DEF billing, procs, counts
\* Steps that leave row and customer alone, and begin no part of a purge.
<1>0. ASSUME NEW p \in Proc, NEW to \in PCs \ {"hardCancel", "deleteCustomer", "delete"},
             NEW j \in Jobs, Goto(p, to, j), UNCHANGED <<row, customer, audit>>,
             \A s \in Sub : stripe'[s].st = stripe[s].st
      PROVE  PurgeIsDue' /\ Torn'
  BY <1>0, GotoFacts DEF PurgeIsDue, Torn, Due, Live
<1>00. NoJob \in Jobs /\ "idle" \in PCs
  BY WorkFacts DEF NoJob, PCs
<1>1. ASSUME NEW p \in Proc, Request(p) PROVE PurgeIsDue' /\ Torn'
  <2>1. \A q \in Proc : pc[q] \notin {"hardCancel", "deleteCustomer", "delete"}
    BY <1>1 DEF Request, PurgeIsDue, Due
  <2>2. \A q \in Proc : pc'[q] \notin {"hardCancel", "deleteCustomer", "delete"}
    BY <1>1, <2>1 DEF Request, Goto, TypeOK
  <2>3. UNCHANGED <<stripe, customer, audit>> /\ row'.exists = row.exists
    BY <1>1 DEF Request, TypeOK, DataTypes, Rows
  <2> QED
    BY <2>2, <2>3 DEF PurgeIsDue, Torn, Live
<1>2. ASSUME NEW p \in Proc, LockCancel(p) PROVE PurgeIsDue' /\ Torn'
  BY <1>0, <1>00, <1>2 DEF LockCancel, End, TypeOK, PCs
<1>3. ASSUME NEW p \in Proc, Cancel(p) \/ Renew(p) PROVE PurgeIsDue' /\ Torn'
  <2>1. job[p].sub \in Sub \cup {None} /\ job[p] \in Jobs
    BY DEF TypeOK, Jobs
  <2>2. \A s \in Sub : stripe'[s].st = stripe[s].st
    BY <1>3, <2>1, FlagFacts DEF TypeOK, Cancel, Renew
  <2> QED
    <3>1. \/ Goto(p, "resolve", job[p])
          \/ Goto(p, "idle", NoJob)
      BY <1>3 DEF Cancel, Renew, End
    <3>2. UNCHANGED <<row, customer, audit>>
      BY <1>3 DEF Cancel, Renew
    <3> QED
      BY <1>0, <1>00, <2>1, <2>2, <3>1, <3>2 DEF PCs
<1>4. ASSUME NEW p \in Proc, Resolve(p) \/ Die(p) PROVE PurgeIsDue' /\ Torn'
  BY <1>0, <1>00, <1>4 DEF Resolve, Die, End
<1>5. ASSUME NEW p \in Proc, Converge(p) PROVE PurgeIsDue' /\ Torn'
  <2>1. job[p].sub \in Sub \cup {None} /\ job[p] \in Jobs /\ job[p].want \in BOOLEAN
    BY DEF TypeOK, Jobs
  <2>2. \A s \in Sub : stripe'[s].st = stripe[s].st
    BY <1>5, <2>1, FlagFacts DEF TypeOK, Converge
  <2> QED
    <3>1. \/ Goto(p, "resolve", job[p])
          \/ Goto(p, "idle", NoJob)
      BY <1>5 DEF Converge, End
    <3>2. UNCHANGED <<row, customer, audit>>
      BY <1>5 DEF Converge
    <3> QED
      BY <1>0, <1>00, <2>1, <2>2, <3>1, <3>2 DEF PCs
<1>6. ASSUME NEW p \in Proc, HardCancel(p) PROVE PurgeIsDue' /\ Torn'
  <2>1. PICK j \in Jobs : Goto(p, "deleteCustomer", j)
    BY <1>6 DEF HardCancel, TypeOK, Jobs
  <2>2. \A s \in Sub : stripe'[s].st = stripe[s].st \/ stripe'[s].st = "over"
    BY <1>6, EndAllFacts DEF HardCancel, TypeOK
  <2>3. pc'[p] = "deleteCustomer" /\ \A q \in Proc \ {p} : pc'[q] = pc[q] /\ job'[q] = job[q]
    BY <2>1, GotoFacts DEF PCs
  <2>4. UNCHANGED <<row, customer, audit>> /\ pc[p] = "hardCancel"
    BY <1>6 DEF HardCancel
  <2> QED
    BY <2>2, <2>3, <2>4 DEF PurgeIsDue, Torn, Due, Live
<1>7. ASSUME NEW p \in Proc, DeleteCustomer(p) PROVE PurgeIsDue' /\ Torn'
  <2>1. PICK j \in Jobs : Goto(p, "delete", j) /\ (j.errors \/ ~customer')
    <3>1. CASE ~customer' /\ Goto(p, "delete", job[p])
      BY <3>1 DEF TypeOK
    <3>2. CASE Goto(p, "delete", [job[p] EXCEPT !.errors = TRUE])
      <4>1. [job[p] EXCEPT !.errors = TRUE] \in Jobs /\ [job[p] EXCEPT !.errors = TRUE].errors
        BY DEF TypeOK, Jobs
      <4> QED
        BY <3>2, <4>1
    <3> QED
      BY <1>7, <3>1, <3>2 DEF DeleteCustomer, HasCustomer
  <2>2. \/ UNCHANGED <<stripe, customer>>
        \/ ~customer' /\ \A s \in Sub : stripe'[s].st # "live"
    BY <1>7, EndAllFacts DEF DeleteCustomer, HasCustomer, TypeOK, Live
  <2>3. /\ pc'[p] = "delete" /\ job'[p] = j
        /\ \A q \in Proc \ {p} : pc'[q] = pc[q] /\ job'[q] = job[q]
    BY <2>1, GotoFacts DEF PCs
  <2>4. UNCHANGED <<row, audit>> /\ pc[p] = "deleteCustomer"
    BY <1>7 DEF DeleteCustomer
  <2> QED
    BY <2>1, <2>2, <2>3, <2>4 DEF PurgeIsDue, Torn, Due, Live
<1>8. ASSUME NEW p \in Proc, Delete(p) PROVE PurgeIsDue' /\ Torn'
  <2>1. pc'[p] = "idle" /\ \A q \in Proc \ {p} : pc'[q] = pc[q] /\ job'[q] = job[q]
    BY <1>8, EndFacts DEF Delete
  <2>2. pc[p] = "delete" /\ UNCHANGED <<stripe, customer>>
    BY <1>8 DEF Delete
  <2>3. \A q \in Proc \ {p} : pc[q] \notin {"hardCancel", "deleteCustomer", "delete"}
    BY <2>2, Alone DEF Locked
  <2>4. ~row'.exists => audit' \/ ~customer
    BY <1>8, <2>2 DEF Delete, Torn, PurgeIsDue
  <2> QED
    BY <2>1, <2>2, <2>3, <2>4 DEF PurgeIsDue, Torn, Live
<1>9. ASSUME NEW p \in Proc, Retry(p) PROVE PurgeIsDue' /\ Torn'
  <2>1. Work(job[p].item, IF row.sub # None THEN row.sub ELSE job[p].sub, Direction) \in Jobs
    BY WorkFacts DEF TypeOK, DataTypes, Rows, Jobs, Direction
  <2> QED
    BY <1>0, <1>00, <1>9, <2>1 DEF Retry, End, PCs
<1>10. ASSUME NEW p \in Proc, LockPurge(p) PROVE PurgeIsDue' /\ Torn'
  <2>1. CASE ~StillDue
    BY <1>0, <1>00, <1>10, <2>1 DEF LockPurge, End
  <2>2. CASE StillDue
    <3>1. pc'[p] = "hardCancel" /\ \A q \in Proc \ {p} : pc'[q] = pc[q] /\ job'[q] = job[q]
      BY <1>10, <2>2, GotoFacts DEF LockPurge, TypeOK, PCs
    <3> QED
      BY <1>10, <2>2, <3>1 DEF LockPurge, StillDue, PurgeIsDue, Torn, Due, Live
  <2> QED
    BY <2>1, <2>2
<1>11. ASSUME NEW p \in Proc, Restore(p) PROVE PurgeIsDue' /\ Torn'
  <2>1. \A q \in Proc : pc[q] \notin {"hardCancel", "deleteCustomer", "delete"}
    BY <1>11, Alone, NoneAssumption DEF Restore, Locked
  <2>2. \A q \in Proc : pc'[q] \notin {"hardCancel", "deleteCustomer", "delete"}
    BY <1>11, <2>1 DEF Restore, Goto, TypeOK
  <2>3. UNCHANGED <<stripe, customer, audit>> /\ row'.exists = row.exists
    BY <1>11 DEF Restore, TypeOK, DataTypes, Rows
  <2> QED
    BY <2>2, <2>3 DEF PurgeIsDue, Torn, Live
<1>12. ASSUME NEW p \in Proc, Select(p) PROVE PurgeIsDue' /\ Torn'
  <2>1. PICK i \in Open : Goto(p, "retry", Work(i, items[i].sub, FALSE))
    BY <1>12 DEF Select
  <2>2. Work(i, items[i].sub, FALSE) \in Jobs
    BY WorkFacts DEF Open, TypeOK, DataTypes, Items
  <2> QED
    BY <1>0, <1>12, <2>1, <2>2 DEF Select, PCs
<1>13. ASSUME NEW p \in Proc, Finalize(p) PROVE PurgeIsDue' /\ Torn'
  <2>1. Work(None, row.sub, FALSE) \in Jobs
    BY WorkFacts DEF TypeOK, DataTypes, Rows
  <2> QED
    BY <1>0, <1>13, <2>1 DEF Finalize, PCs
\* Steps of Stripe, of a handler or of the clock.
<1>14. ASSUME UNCHANGED <<pc, job, customer, audit>>,
              row'.exists = row.exists, row'.deleted = row.deleted,
              row.sched = "due" => row'.sched = "due",
              \A s \in Sub : stripe'[s].st = "live" => stripe[s].st = "live" \/ customer
       PROVE  PurgeIsDue' /\ Torn'
  BY <1>14 DEF PurgeIsDue, Torn, Due, Live
<1>15. ASSUME NEW s \in Sub, Event(s) PROVE PurgeIsDue' /\ Torn'
  <2>1. /\ UNCHANGED <<pc, job, customer, audit>>
        /\ row'.exists = row.exists /\ row'.deleted = row.deleted /\ row'.sched = row.sched
    BY <1>15 DEF Event, TypeOK, DataTypes, Rows
  <2>2. \A t \in Sub : stripe'[t].st = "live" => stripe[t].st = "live"
    BY <1>15 DEF Event, TypeOK, DataTypes, Stripes
  <2> QED
    BY <1>14, <2>1, <2>2
<1>16. ASSUME NEW s \in Sub, Reread(s) \/ FindOpen(s) \/ OpenItem(s) \/ HookDies(s)
       PROVE  PurgeIsDue' /\ Torn'
  BY <1>14, <1>16 DEF Reread, FindOpen, OpenItem, HookDies
<1>17. ASSUME NEW s \in Sub, Subscribe(s) \/ PeriodEnds(s) PROVE PurgeIsDue' /\ Torn'
  <2>1. \A t \in Sub : stripe'[t].st = "live" => stripe[t].st = "live" \/ customer
    BY <1>17, EndAllFacts DEF Subscribe, PeriodEnds, TypeOK
  <2> QED
    BY <1>14, <1>17, <2>1 DEF Subscribe, PeriodEnds
<1>18. CASE GraceEnds
  BY <1>14, <1>18 DEF GraceEnds, TypeOK, DataTypes, Rows
<1>19. CASE SoftDelete
  <2>1. \A q \in Proc : pc[q] \notin {"hardCancel", "deleteCustomer", "delete"}
    BY <1>19 DEF SoftDelete, PurgeIsDue, Due
  <2> QED
    BY <1>19, <2>1 DEF SoftDelete, PurgeIsDue, Torn, Live, TypeOK, DataTypes, Rows
<1>20. CASE UNCHANGED vars
  BY <1>14, <1>20 DEF vars
<1> QED
  BY <1>1, <1>2, <1>3, <1>4, <1>5, <1>6, <1>7, <1>8, <1>9, <1>10, <1>11, <1>12, <1>13,
     <1>15, <1>16, <1>17, <1>18, <1>19, <1>20 DEF Next, Step, Lock, Hook

LEMMA PInvCorrect == Spec => []PInv
<1>1. Init => PurgeIsDue /\ Torn
  BY DEF Init, PurgeIsDue, Torn
<1>2. Init /\ TypeOK => PInv
  BY <1>1 DEF PInv
<1>3. TypeOK /\ TypeOK' /\ PInv /\ [Next]_vars => PInv'
  BY PurgeStep DEF PInv
<1> QED
  BY <1>2, <1>3, TypeCorrect, PTL DEF Spec

\* After purgeUser no subscription charges on unless the audit row says Stripe failed.
THEOREM PurgeTearsDown == Spec => []PurgeLeavesNothingBilling
<1>1. PInv => PurgeLeavesNothingBilling
  BY DEF PInv, Torn, PurgeLeavesNothingBilling
<1> QED
  BY <1>1, PInvCorrect, PTL

\* Only the purge of an account that is due at that moment ends a subscription that
\* would have renewed: the check of purgeUser under the lock cannot go stale.
THEOREM NoTeardownOfTheRestored == Spec => TeardownOnlyWhileDue
<1>1. ASSUME PInv, [Next]_vars,
             NEW s \in Sub, row.sub = s, Live(s), ~stripe[s].ending, stripe'[s].st = "over"
      PROVE  Due
  <2> USE <1>1 DEF PInv, billing, procs, counts
  <2>1. ASSUME NEW p \in Proc, HardCancel(p) \/ DeleteCustomer(p) PROVE Due
    BY <2>1 DEF HardCancel, DeleteCustomer, PurgeIsDue
  <2>2. ASSUME NEW p \in Proc, Cancel(p) \/ Renew(p) \/ Converge(p) PROVE FALSE
    <3>1. job[p].sub \in Sub \cup {None} /\ job[p].want \in BOOLEAN
      BY DEF TypeOK, Jobs
    <3> QED
      BY <2>2, <3>1, FlagFacts DEF TypeOK, Cancel, Renew, Converge, Live
  <2>3. ASSUME NEW t \in Sub, PeriodEnds(t) PROVE FALSE
    BY <2>3, EndAllFacts DEF PeriodEnds, TypeOK, Live
  <2>4. ASSUME NEW t \in Sub, Event(t) PROVE FALSE
    BY <2>4 DEF Event, TypeOK, DataTypes, Stripes, Rows, Live
  <2>5. ASSUME NEW t \in Sub, Subscribe(t) PROVE FALSE
    BY <2>5 DEF Subscribe, TypeOK, DataTypes, Stripes, Live
  <2>6. CASE UNCHANGED stripe
    BY <2>6 DEF Live
  <2> QED
    BY <2>1, <2>2, <2>3, <2>4, <2>5, <2>6
       DEF Next, Step, Lock, Hook, Request, LockCancel, Resolve, Delete, Retry, LockPurge, Restore,
           Select, Finalize, Die, Reread, FindOpen, OpenItem, HookDies, SoftDelete, GraceEnds, vars
<1>2. PInv /\ [Next]_vars => [\A s \in Sub : row.sub = s /\ Live(s) /\ ~stripe[s].ending
                                              /\ stripe'[s].st = "over" => Due]_vars
  BY <1>1
<1> QED
  BY <1>2, PInvCorrect, PTL DEF Spec, TeardownOnlyWhileDue

----------------------------------------------------------------------------
(* The mismatch stays on record.                                              *)

Away == {"idle", "retry", "lockPurge", "hardCancel", "deleteCustomer", "delete"}

\* Steps that set no flag and move no slot: subscriptions may end, processes may
\* stop, or turn to something else the program knows of.
LEMMA Frame ==
  ASSUME TypeOK, Matching, TypeOK',
         row'.exists = row.exists, row'.sub = row.sub, Scheduled' <=> Scheduled,
         \A t \in Sub :
           /\ stripe'[t].ending = stripe[t].ending
           /\ stripe'[t].st = stripe[t].st \/ (Live(t) /\ stripe'[t].st = "over")
           /\ owed[t] => owed'[t]
           /\ hook'[t] = hook[t],
         \A i \in Item : items'[i].sub = items[i].sub,
         \A q \in Proc :
           \/ pc'[q] = pc[q] /\ job'[q] = job[q]
           \/ /\ pc'[q] \in Away
              /\ job'[q].sub \in Sub => Known(job'[q].sub)
              /\ pc'[q] = "retry" => job'[q].item \in Item /\ job'[q].sub \in Sub
  PROVE  Matching'
<1>1. \A t \in Sub : Known(t)' => Known(t)
  <2> SUFFICES ASSUME NEW t \in Sub, Known(t)' PROVE Known(t)
    OBVIOUS
  <2>1. CASE \E q \in Proc : pc'[q] # "idle" /\ job'[q].sub = t
    BY <2>1 DEF Known
  <2>2. CASE stripe'[t].ending \/ (\E i \in Item : items'[i].sub = t) \/ hook'[t] # "quiet" \/ row'.sub = t
    BY <2>2 DEF Known
  <2> QED
    BY <2>1, <2>2 DEF Known
<1>2. \A t \in Sub : Live(t)' => Live(t)
  BY DEF Live
<1>3. \A q \in Proc :
        /\ Holds(q)' => Holds(q) /\ pc'[q] = pc[q] /\ job'[q] = job[q]
        /\ pc'[q] = "lockCancel" => pc[q] = "lockCancel" /\ job'[q] = job[q]
  BY DEF Holds, Away
<1>4. KnownOwns'
  BY <1>1, <1>2 DEF Matching, KnownOwns, Live
<1>5. ItemFits'
  BY <1>2, <1>3 DEF Matching, ItemFits
<1>6. Opposed'
  BY <1>2, <1>3 DEF Matching, Opposed
<1>7. FlagIsSet'
  BY <1>2, <1>3 DEF Matching, FlagIsSet, Holds, Away
<1>8. Renewing' /\ Ending'
  BY <1>2 DEF Matching, Renewing, Ending
<1> QED
  BY <1>4, <1>5, <1>6, <1>7, <1>8 DEF Matching

\* A call of setCancelAtPeriodEnd by the holder of the lock.
LEMMA FlagStep ==
  ASSUME TypeOK, Matching, row.exists, NEW p \in Proc, pc[p] \in {"cancel", "renew", "converge"},
         FlagSet(job[p].sub, job[p].want) \/ FlagFails(job[p].sub, job[p].want),
         \/ FlagSet(job[p].sub, job[p].want) /\ pc'[p] = "resolve" /\ job'[p] = job[p]
         \/ pc'[p] = "idle",
         \A q \in Proc \ {p} : pc'[q] = pc[q] /\ job'[q] = job[q],
         UNCHANGED <<row, owed, hook>>,
         \A i \in Item : items'[i].sub = items[i].sub
  PROVE  Matching'
<1> DEFINE s == job[p].sub
<1>1. s \in Sub /\ job[p].want \in BOOLEAN /\ Known(s)
  BY DEF Matching, FlagIsSet, Holds, Known, TypeOK, Jobs
<1>2. \A t \in Sub :
        /\ stripe'[t].st = stripe[t].st
        /\ t # s \/ ~Live(t) => stripe'[t].ending = stripe[t].ending
        /\ stripe'[t].ending = stripe[t].ending \/ stripe'[t].ending = job[p].want
  BY <1>1, FlagFacts DEF TypeOK
<1>3. FlagSet(s, job[p].want) /\ Live(s) => stripe'[s].ending = job[p].want
  BY <1>1, FlagFacts DEF TypeOK
<1>4. \A q \in Proc \ {p} : ~Holds(q)
  BY Alone DEF Holds, Locked
<1>5. Holds(p) /\ (Scheduled' <=> Scheduled) /\ \A t \in Sub : Live(t)' <=> Live(t)
  BY <1>2 DEF Holds, Scheduled, Live
<1> HIDE DEF s
<1>6. KnownOwns'
  BY <1>1, <1>2, <1>5 DEF Matching, KnownOwns, Known, Holds, s
<1>7. ItemFits'
  BY <1>4, <1>5 DEF Matching, ItemFits, Holds
<1>8. Opposed'
  BY <1>4, <1>5 DEF Matching, Opposed, Holds
<1>9. FlagIsSet'
  BY <1>1, <1>2, <1>3, <1>4, <1>5 DEF Matching, FlagIsSet, Holds, s
<1>10. Renewing'
  <2> SUFFICES ASSUME NEW t \in Sub, row.sub = t, Live(t), ~stripe'[t].ending, Scheduled,
                      ~owed[t], hook[t] = "quiet"
               PROVE  \E i \in Item : items[i].sub = t
    BY <1>5 DEF Renewing
  <2>1. CASE ~stripe[t].ending
    BY <2>1 DEF Matching, Renewing
  <2>2. CASE stripe[t].ending
    <3>1. t = s /\ ~job[p].want
      BY <1>2, <2>2
    <3> QED
      BY <1>5, <3>1 DEF Matching, Opposed, s
  <2> QED
    BY <2>1, <2>2
<1>11. Ending'
  BY <1>1, <1>2, <1>5 DEF Matching, Ending, FlagIsSet
<1> QED
  BY <1>6, <1>7, <1>8, <1>9, <1>10, <1>11 DEF Matching

\* A step that changes no subscription, slot or schedule, of one process.
LEMMA Turns ==
  ASSUME TypeOK, Matching, TypeOK', NEW p \in Proc, NEW to \in Away, NEW j \in Jobs, Goto(p, to, j),
         j.sub \in Sub => Known(j.sub), to = "retry" => j.item \in Item /\ j.sub \in Sub,
         UNCHANGED <<row, stripe, owed, hook>>, \A i \in Item : items'[i].sub = items[i].sub
  PROVE  Matching'
<1>1. /\ pc'[p] = to /\ job'[p] = j
      /\ \A q \in Proc \ {p} : pc'[q] = pc[q] /\ job'[q] = job[q]
  BY GotoFacts DEF Away, PCs
<1> QED
  BY <1>1, Frame DEF Scheduled

LEMMA NoJobFacts == NoJob \in Jobs /\ NoJob.sub = None /\ None \notin Sub
  BY WorkFacts, NoneAssumption DEF NoJob

LEMMA RequestMatches ==
  ASSUME TypeOK, Matching, TypeOK', NEW p \in Proc, Request(p)
  PROVE  Matching'
<1>1. /\ row'.exists = row.exists /\ row'.sub = row.sub /\ Scheduled'
      /\ UNCHANGED <<stripe, owed, hook>>
  BY DEF Request, TypeOK, DataTypes, Rows, Scheduled, billing
<1>2. CASE row.sub = None
  <2>1. UNCHANGED <<items, pc, job>>
    BY <1>2 DEF Request, procs
  <2>2. \A t \in Sub : row.sub # t
    BY <1>2, NoneAssumption
  <2> QED
    BY <1>1, <2>1, <2>2
       DEF Matching, KnownOwns, Known, ItemFits, Opposed, FlagIsSet, Renewing, Ending, Live, Holds
<1>3. CASE row.sub # None
  <2>1. row.sub \in Sub
    BY <1>3 DEF TypeOK, DataTypes, Rows
  <2>2. PICK i \in Item : Insert(i, row.sub) /\ Goto(p, "lockCancel", Work(i, row.sub, TRUE))
    BY <1>3 DEF Request
  <2>3. /\ items[i].sub = None /\ items'[i].sub = row.sub
        /\ \A k \in Item \ {i} : items'[k] = items[k]
        /\ \A q \in Proc : job[q].item # i
    BY <2>1, <2>2, InsertFacts DEF TypeOK
  <2>4. /\ pc'[p] = "lockCancel" /\ job'[p] \in Jobs
        /\ job'[p].item = i /\ job'[p].sub = row.sub /\ job'[p].want = TRUE
        /\ \A q \in Proc \ {p} : pc'[q] = pc[q] /\ job'[q] = job[q]
    <3>1. /\ Work(i, row.sub, TRUE) \in Jobs /\ Work(i, row.sub, TRUE).item = i
          /\ Work(i, row.sub, TRUE).sub = row.sub /\ Work(i, row.sub, TRUE).want = TRUE
      BY <2>1 DEF Work, Jobs
    <3> QED
      BY <2>2, <3>1, GotoFacts DEF PCs
  <2>5. KnownOwns'
    BY <1>1, <2>1, <2>3, <2>4 DEF Matching, KnownOwns, Known, Live
  <2>6. ItemFits'
    BY <1>1, <2>1, <2>3, <2>4 DEF Matching, ItemFits, Holds, Live
  <2>7. Opposed'
    BY <1>1, <2>3, <2>4 DEF Opposed, Holds
  <2>8. FlagIsSet'
    BY <1>1, <2>1, <2>4 DEF Matching, FlagIsSet, Holds, Live
  <2>9. Renewing' /\ Ending'
    BY <1>1, <2>3 DEF Renewing, Ending
  <2> QED
    BY <2>5, <2>6, <2>7, <2>8, <2>9 DEF Matching
<1> QED
  BY <1>2, <1>3

LEMMA LockCancelMatches ==
  ASSUME TypeOK, Matching, TypeOK', NEW p \in Proc, LockCancel(p)
  PROVE  Matching'
<1> USE DEF billing, procs, counts
<1>1. CASE ~Scheduled
  BY <1>1, Turns, NoJobFacts DEF LockCancel, End, Away
<1>2. CASE Scheduled
  <2>1. /\ pc[p] = "lockCancel" /\ pc'[p] = "cancel" /\ job'[p] = job[p]
        /\ \A q \in Proc \ {p} : pc'[q] = pc[q] /\ job'[q] = job[q]
    BY <1>2, GotoFacts DEF LockCancel, TypeOK, PCs
  <2>2. UNCHANGED <<row, stripe, owed, hook, items>>
    BY DEF LockCancel
  <2>3. KnownOwns' /\ ItemFits' /\ Renewing' /\ Ending'
    BY <2>1, <2>2 DEF Matching, KnownOwns, Known, ItemFits, Renewing, Ending, Live, Holds, Scheduled
  <2>4. Opposed' /\ FlagIsSet'
    BY <1>2, <2>1, <2>2 DEF Matching, Opposed, FlagIsSet, Live, Holds, Scheduled
  <2> QED
    BY <2>3, <2>4 DEF Matching
<1> QED
  BY <1>1, <1>2

LEMMA FlagMatches ==
  ASSUME TypeOK, Matching, row.exists, NEW p \in Proc, Cancel(p) \/ Renew(p) \/ Converge(p)
  PROVE  Matching'
<1> USE DEF billing, procs, counts
<1>1. job[p] \in Jobs /\ items \in [Item -> Items]
  BY DEF TypeOK, DataTypes
<1>2. /\ pc[p] \in {"cancel", "renew", "converge"}
      /\ pc[p] = "cancel" => job[p].want = TRUE
      /\ pc[p] = "renew" => job[p].want = FALSE
  BY <1>1 DEF Cancel, Renew, Converge, Matching, FlagIsSet, Jobs
<1>3. /\ FlagSet(job[p].sub, job[p].want) \/ FlagFails(job[p].sub, job[p].want)
      /\ \/ FlagSet(job[p].sub, job[p].want) /\ Goto(p, "resolve", job[p])
         \/ End(p)
  <2>1. CASE Cancel(p)
    BY <1>2, <2>1 DEF Cancel
  <2>2. CASE Renew(p)
    BY <1>2, <2>2 DEF Renew
  <2>3. CASE Converge(p)
    BY <2>3 DEF Converge
  <2> QED
    BY <2>1, <2>2, <2>3
<1>4. /\ UNCHANGED <<row, owed, hook>>
      /\ \A i \in Item : items'[i].sub = items[i].sub
  <2>1. CASE Cancel(p) \/ Renew(p)
    BY <2>1 DEF Cancel, Renew
  <2>2. CASE Converge(p)
    <3>1. \/ UNCHANGED items
          \/ items' = [items EXCEPT ![job[p].item].tries = @ + 1]
      BY <2>2 DEF Converge
    <3> QED
      BY <1>1, <2>2, <3>1 DEF Converge, Items
  <2> QED
    BY <2>1, <2>2
<1>5. /\ \/ FlagSet(job[p].sub, job[p].want) /\ pc'[p] = "resolve" /\ job'[p] = job[p]
         \/ pc'[p] = "idle"
      /\ \A q \in Proc \ {p} : pc'[q] = pc[q] /\ job'[q] = job[q]
  BY <1>1, <1>3, GotoFacts, EndFacts DEF PCs
<1> QED
  BY <1>2, <1>3, <1>4, <1>5, FlagStep

LEMMA ResolveMatches ==
  ASSUME TypeOK, Matching, row.exists, NEW p \in Proc, Resolve(p)
  PROVE  Matching'
<1>1. /\ pc[p] = "resolve" /\ pc'[p] = "idle"
      /\ \A q \in Proc \ {p} : pc'[q] = pc[q] /\ job'[q] = job[q]
  BY EndFacts DEF Resolve
<1>2. UNCHANGED <<row, stripe, owed, hook>>
  BY DEF Resolve, billing
<1>3. \A q \in Proc \ {p} : ~Holds(q) /\ ~Holds(q)'
  BY <1>1, Alone DEF Holds, Locked
<1>4. Holds(p) /\ ~Holds(p)' /\ job[p].item \in Item /\ job[p].sub \in Sub /\ job[p].want \in BOOLEAN
  BY <1>1 DEF Holds, Matching, FlagIsSet, TypeOK, Jobs
<1>5. /\ items'[job[p].item].sub = None
      /\ \A i \in Item \ {job[p].item} : items'[i] = items[i]
  BY <1>4 DEF Resolve, Close, NoItem, TypeOK, DataTypes
<1>6. \A i \in Item, t \in Sub : items'[i].sub = t => items[i].sub = t
  BY <1>5, NoneAssumption
<1>7. KnownOwns'
  BY <1>1, <1>2, <1>6 DEF Matching, KnownOwns, Known, Live
<1>8. ItemFits' /\ Opposed'
  BY <1>1, <1>2, <1>3, <1>4, <1>6 DEF Matching, ItemFits, Opposed, Live
<1>9. FlagIsSet'
  BY <1>1, <1>2, <1>3, <1>4 DEF Matching, FlagIsSet, Live, Holds, Scheduled
<1>10. Renewing'
  <2> SUFFICES ASSUME NEW t \in Sub, row.sub = t, Live(t), ~stripe[t].ending, Scheduled,
                      ~owed[t], hook[t] = "quiet"
               PROVE  \E i \in Item \ {job[p].item} : items[i].sub = t
    BY <1>2, <1>5 DEF Renewing, Live, Scheduled
  <2>1. CASE job[p].sub = t
    <3>1. ~job[p].want
      BY <1>1, <1>4, <2>1 DEF Matching, FlagIsSet
    <3> QED
      BY <1>4, <2>1, <3>1 DEF Matching, Opposed
  <2>2. CASE job[p].sub # t
    BY <1>4, <2>2 DEF Matching, Renewing, ItemFits
  <2> QED
    BY <2>1, <2>2
<1>11. Ending'
  <2> SUFFICES ASSUME NEW t \in Sub, row.sub = t, Live(t), stripe[t].ending, ~Scheduled PROVE FALSE
    BY <1>2 DEF Ending, Live, Scheduled
  <2> QED
    BY <1>1, <1>4 DEF Matching, FlagIsSet
<1> QED
  BY <1>7, <1>8, <1>9, <1>10, <1>11 DEF Matching

LEMMA RetryMatches ==
  ASSUME TypeOK, Matching, TypeOK', row.exists, NEW p \in Proc, Retry(p)
  PROVE  Matching'
<1> DEFINE x == IF row.sub # None THEN row.sub ELSE job[p].sub
<1>1. job[p].item \in Item /\ job[p].sub \in Sub /\ x \in Sub /\ pc[p] = "retry"
  BY DEF Retry, Matching, FlagIsSet, TypeOK, DataTypes, Rows
<1>2. Work(job[p].item, x, Direction) = [item |-> job[p].item, sub |-> x, want |-> Direction, errors |-> FALSE]
      /\ Work(job[p].item, x, Direction) \in Jobs
  BY <1>1 DEF Work, Jobs, Direction
<1>3. /\ pc'[p] = "converge" /\ job'[p].item = job[p].item /\ job'[p].sub = x
      /\ job'[p].want = Direction
      /\ \A q \in Proc \ {p} : pc'[q] = pc[q] /\ job'[q] = job[q]
  BY <1>2, GotoFacts DEF Retry, PCs
<1>4. UNCHANGED <<row, stripe, owed, hook, items>>
  BY DEF Retry, billing
<1>5. \A q \in Proc \ {p} : ~Holds(q) /\ ~Holds(q)'
  BY <1>3, Alone DEF Retry, Holds, Locked
<1>6. \A t \in Sub : (x = t => Known(t)) /\ (row.sub = t => x = t)
  BY <1>1, NoneAssumption DEF Known
<1> HIDE DEF x
<1>7. KnownOwns'
  BY <1>3, <1>4, <1>6 DEF Matching, KnownOwns, Known, Live
<1>8. ItemFits'
  <2> SUFFICES ASSUME NEW t \in Sub, items[job[p].item].sub = t, Live(t) PROVE x = t
    BY <1>3, <1>4, <1>5 DEF Matching, ItemFits, Live
  <2>1. row.sub = t
    BY <1>1 DEF Matching, KnownOwns, Known
  <2> QED
    BY <1>6, <2>1
<1>9. Opposed'
  BY <1>3, <1>4, <1>5 DEF Opposed, Direction, Scheduled
<1>10. FlagIsSet'
  BY <1>1, <1>3, <1>4, <1>5, <1>6 DEF Matching, FlagIsSet, Direction, Scheduled, Holds, Live
<1>11. Renewing' /\ Ending'
  BY <1>4 DEF Matching, Renewing, Ending, Live, Scheduled
<1> QED
  BY <1>7, <1>8, <1>9, <1>10, <1>11 DEF Matching

LEMMA RestoreMatches ==
  ASSUME TypeOK, Matching, TypeOK', NEW p \in Proc, Restore(p)
  PROVE  Matching'
<1>1. /\ row'.exists = row.exists /\ row'.sub = row.sub /\ ~Scheduled'
      /\ UNCHANGED <<stripe, owed, hook>> /\ pc[p] = "idle"
  BY DEF Restore, TypeOK, DataTypes, Rows, Scheduled, billing
<1>2. \A q \in Proc : ~Holds(q)
  BY Alone, NoneAssumption DEF Restore, Holds, Locked
<1>3. CASE row.sub = None
  <2>1. UNCHANGED <<items, pc, job>>
    BY <1>3 DEF Restore, procs
  <2>2. \A t \in Sub : row.sub # t
    BY <1>3, NoneAssumption
  <2> QED
    BY <1>1, <1>2, <2>1, <2>2
       DEF Matching, KnownOwns, Known, ItemFits, Opposed, FlagIsSet, Renewing, Ending, Live, Holds
<1>4. CASE row.sub # None
  <2>1. row.sub \in Sub
    BY <1>4 DEF TypeOK, DataTypes, Rows
  <2>2. PICK i \in Item :
          /\ \/ Insert(i, row.sub)
             \/ i \in Open /\ items' = [items EXCEPT ![i].tries = 0]
          /\ Goto(p, "renew", Work(i, row.sub, FALSE))
    BY <1>4 DEF Restore
  <2>3. /\ items'[i].sub = row.sub \/ items'[i].sub = items[i].sub
        /\ items'[i].sub # None
        /\ \A k \in Item \ {i} : items'[k] = items[k]
        /\ \/ items'[i].sub = items[i].sub
           \/ \A q \in Proc : job[q].item # i
    <3>1. CASE Insert(i, row.sub)
      BY <2>1, <3>1, InsertFacts, NoneAssumption DEF TypeOK
    <3>2. CASE i \in Open /\ items' = [items EXCEPT ![i].tries = 0]
      BY <3>2 DEF Open, TypeOK, DataTypes, Items
    <3> QED
      BY <2>2, <3>1, <3>2
  <2>4. /\ Work(i, row.sub, FALSE) \in Jobs /\ Work(i, row.sub, FALSE).item = i
        /\ Work(i, row.sub, FALSE).sub = row.sub /\ Work(i, row.sub, FALSE).want = FALSE
    BY <2>1 DEF Work, Jobs
  <2>5. /\ pc'[p] = "renew" /\ job'[p].item = i /\ job'[p].sub = row.sub /\ job'[p].want = FALSE
        /\ \A q \in Proc \ {p} : pc'[q] = pc[q] /\ job'[q] = job[q]
    <3>1. Goto(p, "renew", Work(i, row.sub, FALSE))
      BY <2>2
    <3> QED
      BY <2>4, <3>1, GotoFacts DEF PCs
  <2>6. ASSUME NEW t \in Sub, NEW k \in Item, items'[k].sub = t
        PROVE  items[k].sub = t \/ row.sub = t
    <3>1. CASE k = i
      BY <2>3, <2>6, <3>1
    <3>2. CASE k # i
      BY <2>3, <2>6, <3>2
    <3> QED
      BY <3>1, <3>2
  <2>7. KnownOwns'
    BY <1>1, <2>1, <2>5, <2>6 DEF Matching, KnownOwns, Known, Live
  <2>8. ItemFits'
    <3> SUFFICES ASSUME NEW q \in Proc, NEW t \in Sub, Holds(q)' \/ pc'[q] = "lockCancel",
                        job'[q].item \in Item, items'[job'[q].item].sub = t, Live(t)
                 PROVE  job'[q].sub = t
      BY <1>1 DEF ItemFits, Live
    <3>1. row.sub = t
      BY <2>6 DEF Matching, KnownOwns, Known
    <3>2. CASE q # p
      <4>1. pc[q] = "lockCancel" /\ job'[q] = job[q]
        BY <1>2, <2>5, <3>2 DEF Holds
      <4>2. CASE job[q].item # i
        BY <2>3, <4>1, <4>2 DEF Matching, ItemFits
      <4>3. CASE job[q].item = i /\ items'[i].sub = items[i].sub
        BY <4>1, <4>3 DEF Matching, ItemFits
      <4>4. CASE job[q].item = i /\ items'[i].sub # items[i].sub
        BY <2>3, <4>4
      <4> QED
        BY <4>2, <4>3, <4>4
    <3> QED
      BY <2>5, <3>1, <3>2
  <2>9. Opposed' /\ Renewing'
    BY <1>1 DEF Opposed, Renewing
  <2>10. FlagIsSet'
    BY <1>1, <1>2, <2>1, <2>5 DEF Matching, FlagIsSet, Holds, Live
  <2>11. Ending'
    BY <1>1, <2>3 DEF Ending
  <2> QED
    BY <2>7, <2>8, <2>9, <2>10, <2>11 DEF Matching
<1> QED
  BY <1>3, <1>4

\* A process turns to, or goes on with, a purge or a retry, or dies.
LEMMA PurgeMatches ==
  ASSUME TypeOK, Matching, TypeOK', NEW p \in Proc,
         \/ Select(p) \/ Finalize(p) \/ LockPurge(p) \/ Die(p)
         \/ HardCancel(p) \/ DeleteCustomer(p) \/ (Delete(p) /\ row'.exists)
  PROVE  Matching'
<1> USE DEF billing, procs, counts
<1>1. CASE Select(p)
  <2>1. PICK i \in Open : Goto(p, "retry", Work(i, items[i].sub, FALSE))
    BY <1>1 DEF Select
  <2>2. i \in Item /\ items[i].sub \in Sub
    BY DEF Open, TypeOK, DataTypes, Items
  <2>3. /\ Work(i, items[i].sub, FALSE) \in Jobs /\ Work(i, items[i].sub, FALSE).item = i
        /\ Work(i, items[i].sub, FALSE).sub = items[i].sub
    BY <2>2 DEF Work, Jobs
  <2> QED
    BY <1>1, <2>1, <2>2, <2>3, Turns DEF Select, Away, Known
<1>2. CASE Finalize(p)
  <2>1. /\ Work(None, row.sub, FALSE) \in Jobs
        /\ Work(None, row.sub, FALSE).sub = row.sub
    BY DEF Work, Jobs, TypeOK, DataTypes, Rows
  <2> QED
    BY <1>2, <2>1, Turns DEF Finalize, Away, Known
<1>3. CASE LockPurge(p)
  <2>1. job[p] \in Jobs /\ (job[p].sub \in Sub => Known(job[p].sub))
    BY <1>3 DEF LockPurge, TypeOK, Known
  <2> QED
    BY <1>3, <2>1, Turns, NoJobFacts DEF LockPurge, End, Away
<1>4. CASE Die(p) \/ (Delete(p) /\ row'.exists)
  <2>1. UNCHANGED <<row, stripe, owed, hook, items>> /\ End(p)
    BY <1>4 DEF Die, Delete, TypeOK, DataTypes, Rows
  <2> QED
    BY <2>1, Turns, NoJobFacts DEF End, Away
<1>5. CASE HardCancel(p) \/ DeleteCustomer(p)
  <2>1. /\ pc'[p] \in Away /\ job'[p].sub = job[p].sub /\ pc'[p] # "retry"
        /\ \A q \in Proc \ {p} : pc'[q] = pc[q] /\ job'[q] = job[q]
    <3>1. PICK to \in {"deleteCustomer", "delete"}, j \in Jobs : Goto(p, to, j) /\ j.sub = job[p].sub
      <4>1. /\ job[p] \in Jobs /\ [job[p] EXCEPT !.errors = TRUE] \in Jobs
            /\ [job[p] EXCEPT !.errors = TRUE].sub = job[p].sub
        BY DEF TypeOK, Jobs
      <4>2. PICK to \in {"deleteCustomer", "delete"} :
              Goto(p, to, job[p]) \/ Goto(p, to, [job[p] EXCEPT !.errors = TRUE])
        BY <1>5 DEF HardCancel, DeleteCustomer
      <4> QED
        BY <4>1, <4>2
    <3> QED
      BY <3>1, GotoFacts DEF Away, PCs
  <2>2. job[p].sub \in Sub => Known(job[p].sub)
    BY <1>5 DEF HardCancel, DeleteCustomer, Known
  <2>3. \A t \in Sub :
          /\ stripe'[t].ending = stripe[t].ending
          /\ stripe'[t].st = stripe[t].st \/ (Live(t) /\ stripe'[t].st = "over")
          /\ owed[t] => owed'[t]
    <3>1. CASE HardCancel(p)
      BY <3>1, EndAllFacts DEF HardCancel, TypeOK
    <3>2. CASE DeleteCustomer(p)
      BY <3>2, EndAllFacts DEF DeleteCustomer, HasCustomer, TypeOK
    <3> QED
      BY <1>5, <3>1, <3>2
  <2>4. UNCHANGED <<row, hook, items>>
    BY <1>5 DEF HardCancel, DeleteCustomer
  <2> QED
    BY <2>1, <2>2, <2>3, <2>4, Frame DEF Scheduled
<1> QED
  BY <1>1, <1>2, <1>3, <1>4, <1>5

LEMMA EventMatches ==
  ASSUME TypeOK, Matching, TypeOK', row.exists, NEW s \in Sub, Event(s)
  PROVE  Matching'
<1> USE DEF billing, procs, counts
<1>1. /\ UNCHANGED <<pc, job, items>> /\ (Scheduled' <=> Scheduled)
      /\ hook[s] = "quiet" /\ \A t \in Sub \ {s} : hook'[t] = hook[t] /\ owed'[t] = owed[t]
  BY DEF Event, TypeOK, DataTypes, Rows, Scheduled
<1>2. \A t \in Sub :
        /\ stripe'[t].ending = stripe[t].ending
        /\ stripe'[t].st = stripe[t].st \/ (Live(t) /\ row.sub # t /\ stripe'[t].st = "over")
  BY DEF Event, TypeOK, DataTypes, Stripes
<1>3. \/ row'.sub = row.sub /\ UNCHANGED hook /\ ~(row.sub = s /\ Live(s))
      \/ row'.sub = None /\ row.sub = s /\ ~Live(s) /\ UNCHANGED hook
      \/ row'.sub = s /\ Live(s) /\ hook'[s] = "claimed"
         /\ (row.sub \in {None, s} \/ ~Live(row.sub))
  BY DEF Event, TypeOK, DataTypes, Rows, Stripes, Live
<1>4. \A t \in Sub : Known(t)' => Known(t) \/ (t = s /\ Live(s) /\ row'.sub = s)
  BY <1>1, <1>2, <1>3, NoneAssumption DEF Known
<1>5. \A t \in Sub : Live(t)' => Live(t) /\ (row.sub = t => row'.sub = t)
  BY <1>2, <1>3, NoneAssumption DEF Live
<1>6. KnownOwns'
  BY <1>2, <1>4, <1>5 DEF Matching, KnownOwns, Live
<1>7. ItemFits'
  BY <1>1, <1>5 DEF Matching, ItemFits, Holds
<1>8. Opposed'
  <2> SUFFICES ASSUME NEW q \in Proc, NEW t \in Sub, Holds(q), ~job[q].want, Scheduled,
                      row'.sub = t, job[q].sub = t, Live(t)
               PROVE  \E i \in Item \ {job[q].item} : items[i].sub = t
    BY <1>1, <1>5 DEF Opposed, Holds
  <2>1. row.sub = t
    BY DEF Matching, KnownOwns, Known, Holds
  <2> QED
    BY <2>1 DEF Matching, Opposed
<1>9. FlagIsSet'
  <2> SUFFICES ASSUME NEW q \in Proc, NEW t \in Sub, row'.sub = t, Live(t)
               PROVE  /\ pc[q] = "resolve" /\ job[q].sub = t => stripe[t].ending = job[q].want
                      /\ Holds(q) /\ ~Scheduled /\ job[q].sub # t => ~stripe[t].ending
    BY <1>1, <1>2, <1>5 DEF Matching, FlagIsSet, Holds
  <2>1. CASE row.sub = t
    BY <2>1 DEF Matching, FlagIsSet
  <2>2. CASE row.sub # t
    BY <2>2 DEF Matching, KnownOwns, Known, Holds
  <2> QED
    BY <2>1, <2>2
<1>10. Renewing'
  BY <1>1, <1>2, <1>3, <1>5, NoneAssumption DEF Matching, Renewing
<1>11. Ending'
  <2> SUFFICES ASSUME NEW t \in Sub, row'.sub = t, Live(t), stripe[t].ending, ~Scheduled
               PROVE  \E i \in Item : items[i].sub # None
    BY <1>1, <1>2, <1>5 DEF Ending
  <2>1. row.sub = t
    BY DEF Matching, KnownOwns, Known
  <2> QED
    BY <2>1 DEF Matching, Ending
<1> QED
  BY <1>6, <1>7, <1>8, <1>9, <1>10, <1>11 DEF Matching

\* The rest of the handler, Stripe and the clock.
LEMMA HookMatches ==
  ASSUME TypeOK, Matching, TypeOK', row.exists, NEW s \in Sub,
         \/ Reread(s) \/ FindOpen(s) \/ OpenItem(s) \/ HookDies(s)
         \/ Subscribe(s) \/ PeriodEnds(s)
  PROVE  Matching'
<1> USE DEF billing, procs, counts
<1>1. CASE Reread(s) \/ FindOpen(s) \/ HookDies(s)
  <2>1. /\ UNCHANGED <<row, stripe, items, pc, job>> /\ hook[s] # "quiet"
        /\ \A t \in Sub \ {s} : hook'[t] = hook[t] /\ owed'[t] = owed[t]
    BY <1>1 DEF Reread, FindOpen, HookDies, TypeOK, DataTypes
  <2>2. \/ hook'[s] # "quiet" \/ owed'[s]
        \/ ~Scheduled \/ \E i \in Item : items[i].sub = s
    BY <1>1 DEF Reread, FindOpen, HookDies, OnRecord, Open, TypeOK, DataTypes
  <2>3. \A t \in Sub : Known(t)' => Known(t)
    BY <2>1 DEF Known
  <2>4. KnownOwns' /\ ItemFits' /\ Opposed' /\ FlagIsSet' /\ Ending'
    BY <2>1, <2>3
       DEF Matching, KnownOwns, ItemFits, Opposed, FlagIsSet, Ending, Holds, Live, Scheduled
  <2>5. Renewing'
    BY <2>1, <2>2 DEF Matching, Renewing, Live, Scheduled
  <2> QED
    BY <2>4, <2>5 DEF Matching
<1>2. CASE OpenItem(s)
  <2>1. PICK i \in Item : Insert(i, s)
    BY <1>2 DEF OpenItem
  <2>2. /\ items[i].sub = None /\ items'[i].sub = s
        /\ \A k \in Item \ {i} : items'[k] = items[k]
        /\ \A q \in Proc : job[q].item # i
    BY <2>1, InsertFacts DEF TypeOK
  <2>3. /\ UNCHANGED <<row, stripe, owed, pc, job>> /\ hook[s] # "quiet"
        /\ \A t \in Sub \ {s} : hook'[t] = hook[t]
    BY <1>2 DEF OpenItem, TypeOK, DataTypes
  <2>4. \A t \in Sub : Known(t)' => Known(t)
    BY <2>2, <2>3 DEF Known
  <2>5. \A t \in Sub, k \in Item : items[k].sub = t => items'[k].sub = t /\ k # i
    BY <2>2, NoneAssumption
  <2>6. KnownOwns' /\ ItemFits' /\ FlagIsSet'
    BY <2>2, <2>3, <2>4 DEF Matching, KnownOwns, ItemFits, FlagIsSet, Holds, Live, Scheduled
  <2>7. Opposed'
    BY <2>3, <2>5 DEF Matching, Opposed, Holds, Live, Scheduled
  <2>8. Renewing'
    BY <2>2, <2>3, <2>5 DEF Matching, Renewing, Live, Scheduled
  <2>9. Ending'
    BY <2>2, <2>3, NoneAssumption DEF Matching, Ending, Live, Scheduled
  <2> QED
    BY <2>6, <2>7, <2>8, <2>9 DEF Matching
<1>3. CASE Subscribe(s)
  <2>1. /\ UNCHANGED <<row, hook, items, pc, job>> /\ stripe[s].st = "none"
        /\ \A t \in Sub : /\ stripe'[t].ending = stripe[t].ending
                          /\ t # s => stripe'[t].st = stripe[t].st
                          /\ owed[t] => owed'[t]
    BY <1>3 DEF Subscribe, TypeOK, DataTypes, Stripes
  <2>2. ~Known(s) /\ \A t \in Sub : Known(t)' <=> Known(t)
    BY <2>1 DEF Matching, KnownOwns, Known
  <2>3. KnownOwns'
    BY <2>1, <2>2 DEF Matching, KnownOwns, Live
  <2>4. row.sub # s /\ \A q \in Proc : pc[q] # "idle" => job[q].sub # s
    BY <2>2 DEF Known
  <2>5. \A i \in Item : items[i].sub # s
    BY <2>2 DEF Known
  <2>6. ItemFits'
    BY <2>1, <2>5 DEF Matching, ItemFits, Holds, Live
  <2>7. Opposed' /\ FlagIsSet' /\ Renewing' /\ Ending'
    BY <2>1, <2>4
       DEF Matching, Opposed, FlagIsSet, Renewing, Ending, Holds, Live, Scheduled
  <2> QED
    BY <2>3, <2>6, <2>7 DEF Matching
<1>4. CASE PeriodEnds(s)
  <2>1. \A t \in Sub :
          /\ stripe'[t].ending = stripe[t].ending
          /\ stripe'[t].st = stripe[t].st \/ (Live(t) /\ stripe'[t].st = "over")
          /\ owed[t] => owed'[t]
    BY <1>4, EndAllFacts DEF PeriodEnds, TypeOK
  <2>2. UNCHANGED <<row, hook, items, pc, job>>
    BY <1>4 DEF PeriodEnds
  <2> QED
    BY <2>1, <2>2, Frame DEF Scheduled
<1> QED
  BY <1>1, <1>2, <1>3, <1>4

LEMMA MatchStep == MInv /\ TypeOK' /\ [Next]_vars => MInv'
<1> SUFFICES ASSUME MInv, TypeOK', [Next]_vars
             PROVE  IF row'.exists THEN Matching' ELSE row'.sub = None
  BY DEF MInv
<1> USE DEF billing, procs, counts
<1>1. TypeOK
  BY DEF MInv
<1>2. CASE ~row.exists
  <2>1. UNCHANGED row
    BY <1>2 DEF Next, Step, Lock, Hook, Request, LockCancel, Resolve, Delete, Retry, LockPurge,
       Restore, Cancel, Renew, Converge, HardCancel, DeleteCustomer, Select, Finalize, Die, Event,
       Reread, FindOpen, OpenItem, HookDies, Subscribe, PeriodEnds, SoftDelete, GraceEnds, vars, Due
  <2> QED
    BY <1>2, <2>1 DEF MInv
<1>3. CASE row.exists
  <2>0. Matching
    BY <1>3 DEF MInv
  <2>1. ASSUME NEW p \in Proc, Request(p) \/ LockCancel(p) \/ Restore(p) PROVE Matching'
    BY <1>1, <2>0, <2>1, RequestMatches, LockCancelMatches, RestoreMatches
  <2>2. ASSUME NEW p \in Proc, Cancel(p) \/ Renew(p) \/ Converge(p) PROVE Matching'
    BY <1>1, <1>3, <2>0, <2>2, FlagMatches
  <2>3. ASSUME NEW p \in Proc, Resolve(p) \/ Retry(p) PROVE Matching'
    BY <1>1, <1>3, <2>0, <2>3, ResolveMatches, RetryMatches
  <2>4. ASSUME NEW p \in Proc,
               \/ Select(p) \/ Finalize(p) \/ LockPurge(p) \/ Die(p) \/ HardCancel(p)
               \/ DeleteCustomer(p)
        PROVE  Matching'
    BY <1>1, <2>0, <2>4, PurgeMatches
  <2>5. ASSUME NEW p \in Proc, Delete(p) PROVE IF row'.exists THEN Matching' ELSE row'.sub = None
    <3>1. ~row'.exists => row'.sub = None
      BY <1>1, <1>3, <2>5 DEF Delete, TypeOK, DataTypes, Rows
    <3> QED
      BY <1>1, <2>0, <2>5, <3>1, PurgeMatches
  <2>6. ASSUME NEW s \in Sub, Event(s) PROVE Matching'
    BY <1>1, <1>3, <2>0, <2>6, EventMatches
  <2>7. ASSUME NEW s \in Sub,
               \/ Reread(s) \/ FindOpen(s) \/ OpenItem(s) \/ HookDies(s)
               \/ Subscribe(s) \/ PeriodEnds(s)
        PROVE  Matching'
    BY <1>1, <1>3, <2>0, <2>7, HookMatches
  <2>8. CASE SoftDelete \/ GraceEnds \/ UNCHANGED vars
    <3>1. /\ row'.exists = row.exists /\ row'.sub = row.sub /\ (Scheduled' <=> Scheduled)
          /\ UNCHANGED <<stripe, owed, hook, items, pc, job>>
      BY <1>1, <2>8 DEF SoftDelete, GraceEnds, vars, TypeOK, DataTypes, Rows, Scheduled
    <3>2. /\ \A t \in Sub :
               /\ stripe'[t].ending = stripe[t].ending /\ stripe'[t].st = stripe[t].st
               /\ (owed[t] => owed'[t]) /\ hook'[t] = hook[t]
          /\ \A i \in Item : items'[i].sub = items[i].sub
          /\ \A q \in Proc : pc'[q] = pc[q] /\ job'[q] = job[q]
      BY <3>1
    <3> QED
      BY <1>1, <1>3, <2>0, <3>1, <3>2, Frame
  <2>9. row'.exists \/ \E p \in Proc : Delete(p)
    <3>1. ASSUME NEW p \in Proc,
                 \/ Step(p) \/ Lock(p) \/ Request(p) \/ Restore(p) \/ Select(p) \/ Finalize(p)
                 \/ Die(p)
          PROVE  row'.exists \/ Delete(p)
      <4>1. CASE Request(p) \/ Restore(p)
        BY <1>1, <1>3, <4>1 DEF Request, Restore, TypeOK, DataTypes, Rows
      <4>2. CASE Step(p) \/ Lock(p) \/ Select(p) \/ Finalize(p) \/ Die(p)
        BY <1>1, <1>3, <4>2 DEF Step, Lock, LockCancel, Resolve, Retry, LockPurge, Cancel, Renew,
           Converge, HardCancel, DeleteCustomer, Select, Finalize, Die
      <4> QED
        BY <3>1, <4>1, <4>2
    <3>2. ASSUME NEW s \in Sub, Hook(s) \/ Subscribe(s) \/ PeriodEnds(s) \/ HookDies(s)
          PROVE  row'.exists
      <4>1. CASE Event(s)
        BY <1>1, <1>3, <4>1 DEF Event, TypeOK, DataTypes, Rows
      <4>2. CASE Reread(s) \/ FindOpen(s) \/ OpenItem(s) \/ Subscribe(s) \/ PeriodEnds(s) \/ HookDies(s)
        BY <1>1, <1>3, <4>2 DEF Reread, FindOpen, OpenItem, Subscribe, PeriodEnds, HookDies
      <4> QED
        BY <3>2, <4>1, <4>2 DEF Hook
    <3>3. ASSUME SoftDelete \/ GraceEnds \/ UNCHANGED vars PROVE row'.exists
      BY <1>1, <1>3, <3>3 DEF SoftDelete, GraceEnds, vars, TypeOK, DataTypes, Rows
    <3> QED
      BY <3>1, <3>2, <3>3 DEF Next
  <2> QED
    BY <2>1, <2>2, <2>3, <2>4, <2>5, <2>6, <2>7, <2>8, <2>9 DEF Next, Step, Lock, Hook
<1> QED
  BY <1>2, <1>3

\* A Stripe flag that contradicts the account's deletion state is never forgotten: a
\* work item is open, or an event of the subscription is still to be handled.
THEOREM NoMismatchForgotten == Spec => []MismatchIsOnRecord
<1>1. Init /\ TypeOK => MInv
  <2> SUFFICES ASSUME Init, TypeOK PROVE Matching
    <3>1. Init => row.exists
      BY DEF Init
    <3> QED
      BY <3>1 DEF MInv
  <2>1. KnownOwns
    BY NoneAssumption DEF Init, KnownOwns, Known, NoItem
  <2>2. ItemFits /\ Opposed /\ FlagIsSet /\ Renewing /\ Ending
    BY NoneAssumption DEF Init, ItemFits, Opposed, FlagIsSet, Renewing, Ending, Holds, Live
  <2> QED
    BY <2>1, <2>2 DEF Matching
<1>2. TypeOK /\ TypeOK' /\ MInv /\ [Next]_vars => MInv'
  BY MatchStep
<1>3. MInv => MismatchIsOnRecord
  <2> SUFFICES ASSUME MInv, NEW s \in Sub, row.sub = s, Live(s), stripe[s].ending # Scheduled
               PROVE  Open # {} \/ owed[s] \/ hook[s] # "quiet"
    BY DEF MismatchIsOnRecord
  <2>1. Matching
    BY NoneAssumption DEF MInv
  <2>2. stripe[s].ending \in BOOLEAN /\ Scheduled \in BOOLEAN
    BY DEF MInv, TypeOK, DataTypes, Stripes, Scheduled
  <2>3. CASE ~stripe[s].ending /\ Scheduled
    BY <2>1, <2>3, NoneAssumption DEF Matching, Renewing, Open
  <2>4. CASE stripe[s].ending /\ ~Scheduled
    BY <2>1, <2>4 DEF Matching, Ending, Open
  <2> QED
    BY <2>2, <2>3, <2>4
<1> QED
  BY <1>1, <1>2, <1>3, TypeCorrect, PTL DEF Spec
============================================================================
