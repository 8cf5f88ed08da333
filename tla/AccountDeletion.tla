--------------------------- MODULE AccountDeletion ---------------------------
(***************************************************************************)
(* Deletion, restoration and purge of one rider's account against Stripe's *)
(* renewal flag: account-deletion.service.ts, the hourly worker of         *)
(* store-reconciliation.processor.ts, the soft delete of                   *)
(* admin-users.service.ts, and what an activation webhook adds             *)
(* (ensureDeletionCancelReconciliation of account.service.ts).             *)
(*                                                                         *)
(* The row says whether the account is to be deleted, Stripe's             *)
(* cancel_at_period_end whether its subscription will renew, and open      *)
(* deletion_cancel_failed rows are work items: "the flag must match the    *)
(* current deletion state".  Request, restore, worker and purge take one   *)
(* advisory lock per rider, but the request's first transaction and the    *)
(* webhook do not.  One action is one transaction or one Stripe call; the  *)
(* acquisition of the lock goes with the read that follows it.             *)
(***************************************************************************)
EXTENDS Naturals, FiniteSets

CONSTANTS
  Sub,          \* Stripe subscriptions of the rider
  Proc,         \* requests and jobs that may run at once, on any pod
  Item,         \* identities of work items
  None,
  MaxAttempts,  \* MAX_RETRY_ATTEMPTS of the worker: 5 in the code
  Bounds        \* how many checkouts, deletions and faults a behaviour may have

ASSUME NoneAssumption == None \notin Sub \cup Proc \cup Item
ASSUME AttemptsAssumption == MaxAttempts \in Nat \ {0}
ASSUME BoundsAssumption == Bounds \subseteq [subs : Nat, deletions : Nat, faults : Nat]

VARIABLES
  bound,      \* the member of Bounds that holds for this behaviour
  row,        \* the users row: deleted_at, deletion_scheduled_at, the Stripe slot
  stripe,     \* Stripe's subscriptions: status and cancel_at_period_end
  customer,   \* has Stripe still the customer?  The rider has one from the start
  owed,       \* has s a webhook event that is not acknowledged?
  hook,       \* the handler of that event
  items,      \* the open work items, NoItem for an unused identity
  lock,       \* holder of the advisory lock
  pc, job,    \* where a process is, and what it remembers
  audit,      \* did the purge log Stripe errors?
  deletions, faults   \* deletions asked for; failed Stripe calls and dead processes

billing == <<stripe, customer, owed, hook>>
procs   == <<pc, job>>
counts  == <<bound, deletions, faults>>
vars    == <<row, billing, items, lock, procs, audit, counts>>

NoItem == [sub |-> None, tries |-> 0]
Work(i, s, want) == [item |-> i, sub |-> s, want |-> want, errors |-> FALSE]
NoJob  == Work(None, None, FALSE)
Rows   == [exists : BOOLEAN, deleted : BOOLEAN, sched : {"no", "pending", "due"},
           sub : Sub \cup {None}]
Stripes == [st : {"none", "live", "over"}, ending : BOOLEAN]
Items  == [sub : Sub \cup {None}, tries : Nat]
Jobs   == [item : Item \cup {None}, sub : Sub \cup {None}, want : BOOLEAN, errors : BOOLEAN]
PCs    == {"idle", "lockCancel", "cancel", "renew", "retry", "converge", "resolve",
           "lockPurge", "hardCancel", "deleteCustomer", "delete"}
Locked == {"cancel", "renew", "converge", "resolve", "hardCancel", "deleteCustomer", "delete"}

\* What the database, Stripe and the handlers hold.
DataTypes ==
  /\ row \in Rows
  /\ stripe \in [Sub -> Stripes]
  /\ customer \in BOOLEAN /\ audit \in BOOLEAN
  /\ owed \in [Sub -> BOOLEAN]
  /\ hook \in [Sub -> {"quiet", "claimed", "scheduled", "missing"}]
  /\ items \in [Item -> Items]
  /\ bound \in Bounds /\ deletions \in 0..bound.deletions /\ faults \in 0..bound.faults

\* Whoever is between the acquisition of the lock and its release is the one holder,
\* and nobody keeps it longer.
LockOK ==
  /\ lock \in Proc \cup {None}
  /\ \A p \in Proc : pc[p] \in Locked <=> lock = p

TypeOK ==
  /\ DataTypes /\ LockOK
  /\ pc \in [Proc -> PCs] /\ job \in [Proc -> Jobs]

Init ==
  /\ row = [exists |-> TRUE, deleted |-> FALSE, sched |-> "no", sub |-> None]
  /\ stripe = [s \in Sub |-> [st |-> "none", ending |-> FALSE]]
  /\ customer = TRUE /\ audit = FALSE
  /\ owed = [s \in Sub |-> FALSE]
  /\ hook = [s \in Sub |-> "quiet"]
  /\ items = [i \in Item |-> NoItem]
  /\ lock = None
  /\ pc = [p \in Proc |-> "idle"]
  /\ job = [p \in Proc |-> NoJob]
  /\ bound \in Bounds /\ deletions = 0 /\ faults = 0

Scheduled == row.exists /\ row.sched # "no"
Due       == row.exists /\ row.deleted /\ row.sched = "due"
Open      == {i \in Item : items[i].sub # None}
Live(s)   == stripe[s].st = "live"

\* An identity is new if no row has it and no process remembers it.
Unused    == {i \in Item \ Open : \A p \in Proc : job[p].item # i}

\* INSERT of a work item.
Insert(i, s) ==
  /\ i \in Unused /\ i = CHOOSE x \in Unused : TRUE
  /\ items' = [items EXCEPT ![i] = [sub |-> s, tries |-> 0]]

Strike == faults < bound.faults /\ faults' = faults + 1

Goto(p, to, j) ==
  /\ pc' = [pc EXCEPT ![p] = to]
  /\ job' = [job EXCEPT ![p] = j]

\* Mutant: the lock is not given back.
EndHolding(p) == Goto(p, "idle", NoJob) /\ UNCHANGED lock

\* What ends gives the lock back, if it has it.
End(p) ==
  /\ Goto(p, "idle", NoJob)
  /\ lock' = IF lock = p THEN None ELSE lock

Close(i) == items' = [items EXCEPT ![i] = NoItem]

----------------------------------------------------------------------------
(* setCancelAtPeriodEnd.                                                     *)

\* A call that is answered.  Stripe has nothing to change on a dead subscription.
FlagSet(s, want) ==
  /\ stripe' = [stripe EXCEPT ![s].ending = IF Live(s) THEN want ELSE @]
  /\ UNCHANGED faults

\* A call that throws: it may have taken effect all the same, and a cancelled
\* subscription refuses it every time.
FlagFails(s, want) ==
  \/ /\ Strike
     /\ \/ UNCHANGED stripe
        \/ stripe' = [stripe EXCEPT ![s].ending = IF Live(s) THEN want ELSE @]
  \/ /\ stripe[s].st = "over"
     /\ UNCHANGED <<stripe, faults>>

----------------------------------------------------------------------------
(* requestDeletion.                                                          *)

\* The first transaction, under no lock: whoever finds the account not deleted
\* schedules it and opens a work item for the subscription in the slot.
Request(p) ==
  /\ pc[p] = "idle" /\ row.exists /\ ~row.deleted
  /\ deletions < bound.deletions /\ deletions' = deletions + 1
  /\ row' = [row EXCEPT !.deleted = TRUE, !.sched = "pending"]
  /\ IF row.sub = None
     THEN UNCHANGED <<items, procs>>
     ELSE \E i \in Item :
            /\ Insert(i, row.sub)
            /\ Goto(p, "lockCancel", Work(i, row.sub, TRUE))
  /\ UNCHANGED <<billing, lock, audit, faults, bound>>

\* The immediate cancel, unless the account was restored meanwhile.
LockCancel(p) ==
  /\ pc[p] = "lockCancel" /\ lock = None
  /\ IF Scheduled
     THEN lock' = p /\ Goto(p, "cancel", job[p])
     ELSE End(p)
  /\ UNCHANGED <<row, billing, items, audit, counts>>

\* Its failure leaves the item to the worker; the mail that follows is left out.
Cancel(p) ==
  /\ pc[p] = "cancel"
  /\ \/ FlagSet(job[p].sub, TRUE) /\ Goto(p, "resolve", job[p]) /\ UNCHANGED lock
     \/ FlagFails(job[p].sub, TRUE) /\ End(p)
  /\ UNCHANGED <<row, customer, owed, hook, items, audit, deletions, bound>>

\* The item is resolved and the lock released: the end of request, restore and
\* worker.
Resolve(p) ==
  /\ pc[p] = "resolve"
  /\ Close(job[p].item) /\ End(p)
  /\ UNCHANGED <<row, billing, audit, counts>>

\* softDelete of admin-users.service.ts: locked out, but not scheduled.
SoftDelete ==
  /\ row.exists /\ ~row.deleted
  /\ deletions < bound.deletions /\ deletions' = deletions + 1
  /\ row' = [row EXCEPT !.deleted = TRUE]
  /\ UNCHANGED <<billing, items, lock, procs, audit, faults, bound>>

----------------------------------------------------------------------------
(* restoreAccount, under a session lock.                                     *)

\* txn1: the account is back, and an item is open before Stripe is asked.
Restore(p) ==
  /\ pc[p] = "idle" /\ lock = None /\ row.exists /\ row.deleted
  /\ row' = [row EXCEPT !.deleted = FALSE, !.sched = "no"]
  /\ IF row.sub = None
     THEN UNCHANGED <<items, lock, procs>>
     ELSE \E i \in Item :
            /\ \/ Open = {} /\ Insert(i, row.sub)
               \/ i \in Open /\ items' = [items EXCEPT ![i].tries = 0]
            /\ lock' = p
            /\ Goto(p, "renew", Work(i, row.sub, FALSE))
  /\ UNCHANGED <<billing, audit, counts>>

Renew(p) ==
  /\ pc[p] = "renew"
  /\ \/ FlagSet(job[p].sub, FALSE) /\ Goto(p, "resolve", job[p]) /\ UNCHANGED lock
     \/ FlagFails(job[p].sub, FALSE) /\ End(p)
  /\ UNCHANGED <<row, customer, owed, hook, items, audit, deletions, bound>>

----------------------------------------------------------------------------
(* The worker.                                                               *)

\* findOpen, under no lock; a row of the list may be retried much later.
Select(p) ==
  /\ pc[p] = "idle"
  /\ \E i \in Open :
       /\ items[i].tries < MaxAttempts
       /\ Goto(p, "retry", Work(i, items[i].sub, FALSE))
  /\ UNCHANGED <<row, billing, items, lock, audit, counts>>

\* Mutant: the worker only ever cancels.
AlwaysCancel == TRUE

\* The direction is the deletion state as of the lock.
Direction == row.sched # "no"

\* retryRow: lock, fresh read, the live subscription before the recorded one.
Retry(p) ==
  /\ pc[p] = "retry" /\ lock = None
  /\ IF row.exists
     THEN /\ lock' = p /\ UNCHANGED items
          /\ Goto(p, "converge",
                  Work(job[p].item, IF row.sub # None THEN row.sub ELSE job[p].sub, Direction))
     ELSE Close(job[p].item) /\ End(p)
  /\ UNCHANGED <<row, billing, audit, counts>>

\* A failure counts; from MaxAttempts on the item is parked for the operators.
\* Two workers that hold the same row may count beyond it.
Converge(p) ==
  /\ pc[p] = "converge"
  /\ \/ /\ FlagSet(job[p].sub, job[p].want)
        /\ Goto(p, "resolve", job[p]) /\ UNCHANGED <<items, lock>>
     \/ /\ FlagFails(job[p].sub, job[p].want)
        /\ LET i == job[p].item
           IN  items' = IF i \in Open THEN [items EXCEPT ![i].tries = @ + 1] ELSE items
        /\ End(p)
  /\ UNCHANGED <<row, customer, owed, hook, audit, deletions, bound>>

----------------------------------------------------------------------------
(* finalizeUser and purgeUser.                                               *)

\* The user is loaded, and found due, before the lock; the pre-flight read only
\* repeats that.
Finalize(p) ==
  /\ pc[p] = "idle" /\ Due
  /\ Goto(p, "lockPurge", Work(None, row.sub, FALSE))
  /\ UNCHANGED <<row, billing, items, lock, audit, counts>>

\* Mutant: the pre-flight is believed.
PreflightDue == TRUE

\* The check under the lock.
StillDue == Due

LockPurge(p) ==
  /\ pc[p] = "lockPurge" /\ lock = None
  /\ IF StillDue
     THEN lock' = p /\ Goto(p, "hardCancel", job[p])
     ELSE End(p)
  /\ UNCHANGED <<row, billing, items, audit, counts>>

\* A subscription that Stripe ends is reported by an event.
EndAll(ended) ==
  /\ stripe' = [s \in Sub |-> IF s \in ended THEN [stripe[s] EXCEPT !.st = "over"] ELSE stripe[s]]
  /\ owed' = [s \in Sub |-> owed[s] \/ s \in ended]

\* cancelSubscription of the id that was loaded.
HardCancel(p) ==
  /\ pc[p] = "hardCancel"
  /\ LET ended == {s \in Sub : s = job[p].sub /\ Live(s)}
     IN  \/ /\ EndAll(ended) /\ UNCHANGED faults
            /\ Goto(p, "deleteCustomer", job[p])
         \/ /\ job[p].sub # None /\ Strike
            /\ \/ EndAll(ended) \/ UNCHANGED <<stripe, owed>>
            /\ Goto(p, "deleteCustomer", [job[p] EXCEPT !.errors = TRUE])
  /\ UNCHANGED <<row, customer, hook, items, lock, audit, deletions, bound>>

\* Mutant: a rider who had no subscription when loaded has no customer either.
SubscribersOnly(p) == job[p].sub # None

\* The customer goes whether or not a subscription was found or cancelled.
HasCustomer(p) == TRUE

\* deleteCustomer: Stripe ends what is left.
DeleteCustomer(p) ==
  /\ pc[p] = "deleteCustomer"
  /\ LET Gone == EndAll({s \in Sub : Live(s)}) /\ customer' = FALSE
         Kept == UNCHANGED <<stripe, owed, customer>>
     IN  \/ /\ IF HasCustomer(p) THEN Gone ELSE Kept
            /\ UNCHANGED faults
            /\ Goto(p, "delete", job[p])
         \/ /\ HasCustomer(p) /\ Strike
            /\ Gone \/ Kept
            /\ Goto(p, "delete", [job[p] EXCEPT !.errors = TRUE])
  /\ UNCHANGED <<row, hook, items, lock, audit, deletions, bound>>

\* The guarded DELETE, which takes the work items with it, and the audit entry.
Delete(p) ==
  /\ pc[p] = "delete"
  /\ IF Due
     THEN /\ row' = [row EXCEPT !.exists = FALSE, !.sub = None]
          /\ items' = [i \in Item |-> NoItem]
          /\ audit' = job[p].errors
     ELSE UNCHANGED <<row, items, audit>>
  /\ End(p)
  /\ UNCHANGED <<billing, counts>>

----------------------------------------------------------------------------
(* Webhooks and Stripe.                                                      *)

\* A checkout goes through, one begun before the deletion too.
Subscribe(s) ==
  /\ stripe[s].st = "none" /\ customer
  /\ Cardinality({x \in Sub : stripe[x].st # "none"}) < bound.subs
  /\ stripe' = [stripe EXCEPT ![s].st = "live"]
  /\ owed' = [owed EXCEPT ![s] = TRUE]
  /\ UNCHANGED <<row, customer, hook, items, lock, procs, audit, counts>>

\* The period ends and the subscription does not renew.
PeriodEnds(s) ==
  /\ Live(s) /\ stripe[s].ending
  /\ EndAll({s})
  /\ UNCHANGED <<row, customer, hook, items, lock, procs, audit, counts>>

\* applyStripeSubscriptionEvent in one step (StripeFlow has the details): the end
\* clears the slot, an activation takes a free or a dead one, a loser is cancelled.
Event(s) ==
  /\ owed[s] /\ hook[s] = "quiet"
  /\ owed' = [owed EXCEPT ![s] = FALSE]
  /\ CASE row.exists /\ stripe[s].st = "over" ->
            /\ row' = [row EXCEPT !.sub = IF @ = s THEN None ELSE @]
            /\ UNCHANGED <<stripe, hook>>
       [] row.exists /\ Live(s) /\ (row.sub \in {None, s} \/ ~Live(row.sub)) ->
            /\ row' = [row EXCEPT !.sub = s]
            /\ hook' = [hook EXCEPT ![s] = "claimed"]
            /\ UNCHANGED stripe
       [] row.exists /\ Live(s) /\ row.sub \notin {None, s} /\ Live(row.sub) ->
            /\ stripe' = [stripe EXCEPT ![s].st = "over"]
            /\ UNCHANGED <<row, hook>>
       [] OTHER -> UNCHANGED <<row, stripe, hook>>
  /\ UNCHANGED <<customer, items, lock, procs, audit, counts>>

\* ensureDeletionCancelReconciliation: is the account to be deleted by now?
Reread(s) ==
  /\ hook[s] = "claimed"
  /\ hook' = [hook EXCEPT ![s] = IF Scheduled THEN "scheduled" ELSE "quiet"]
  /\ UNCHANGED <<row, stripe, customer, owed, items, lock, procs, audit, counts>>

\* Mutant: an item of any subscription will do.
AnyOnRecord(s) == Open # {}

\* findOpen, for this subscription.
OnRecord(s) == \E i \in Open : items[i].sub = s

FindOpen(s) ==
  /\ hook[s] = "scheduled"
  /\ hook' = [hook EXCEPT ![s] = IF OnRecord(s) THEN "quiet" ELSE "missing"]
  /\ UNCHANGED <<row, stripe, customer, owed, items, lock, procs, audit, counts>>

\* openConflict; without its user the row cannot be inserted, and the event is
\* delivered again.
OpenItem(s) ==
  /\ hook[s] = "missing"
  /\ hook' = [hook EXCEPT ![s] = "quiet"]
  /\ IF row.exists
     THEN /\ \E i \in Item : Insert(i, s)
          /\ UNCHANGED owed
     ELSE /\ owed' = [owed EXCEPT ![s] = TRUE]
          /\ UNCHANGED items
  /\ UNCHANGED <<row, stripe, customer, lock, procs, audit, counts>>

----------------------------------------------------------------------------
(* Time and faults.                                                          *)

GraceEnds ==
  /\ row.exists /\ row.sched = "pending"
  /\ row' = [row EXCEPT !.sched = "due"]
  /\ UNCHANGED <<billing, items, lock, procs, audit, counts>>

\* A process dies or a statement of it fails: PostgreSQL rolls back and unlocks.
Die(p) ==
  /\ pc[p] # "idle" /\ Strike /\ End(p)
  /\ UNCHANGED <<row, billing, items, audit, deletions, bound>>

\* A handler dies; its event is delivered again.
HookDies(s) ==
  /\ hook[s] # "quiet" /\ Strike
  /\ hook' = [hook EXCEPT ![s] = "quiet"]
  /\ owed' = [owed EXCEPT ![s] = TRUE]
  /\ UNCHANGED <<row, stripe, customer, items, lock, procs, audit, deletions, bound>>

Step(p) == Cancel(p) \/ Resolve(p) \/ Renew(p) \/ Converge(p)
             \/ HardCancel(p) \/ DeleteCustomer(p) \/ Delete(p)
Lock(p) == LockCancel(p) \/ Retry(p) \/ LockPurge(p)
Hook(s) == Event(s) \/ Reread(s) \/ FindOpen(s) \/ OpenItem(s)

Next ==
  \/ \E p \in Proc :
       \/ Step(p) \/ Lock(p) \/ Request(p) \/ Restore(p) \/ Select(p) \/ Finalize(p) \/ Die(p)
  \/ \E s \in Sub : Hook(s) \/ Subscribe(s) \/ PeriodEnds(s) \/ HookDies(s)
  \/ SoftDelete \/ GraceEnds

Spec == Init /\ [][Next]_vars

\* What runs goes on; PostgreSQL serves waiters in turn; the worker comes back
\* every hour; Stripe delivers until it is answered.
Fairness ==
  /\ \A p \in Proc : WF_vars(Step(p)) /\ SF_vars(Lock(p)) /\ SF_vars(Select(p))
  /\ \A s \in Sub : WF_vars(Hook(s))

FairSpec == Spec /\ Fairness
----------------------------------------------------------------------------
(* Properties.                                                               *)

\* A subscription that will renew on an account to be deleted, or end on one that
\* is not, is on record: an open item, or an event Stripe delivers again.
MismatchIsOnRecord ==
  \A s \in Sub :
    row.sub = s /\ Live(s) /\ stripe[s].ending # Scheduled =>
      Open # {} \/ owed[s] \/ hook[s] # "quiet"

\* A subscription that would have renewed and owns the slot ends only in the purge
\* of an account that is due at that moment.
TeardownOnlyWhileDue ==
  [][\A s \in Sub : row.sub = s /\ Live(s) /\ ~stripe[s].ending /\ stripe'[s].st = "over" => Due]_vars

\* After the purge no subscription charges on, unless the audit entry says that
\* Stripe failed.
PurgeLeavesNothingBilling == ~row.exists => audit \/ \A s \in Sub : ~Live(s)

\* In the end flag and row agree, or an item is parked for the operators.
FlagConverges ==
  <>[](\/ \A s \in Sub : row.sub = s /\ Live(s) => stripe[s].ending = Scheduled
       \/ \E i \in Open : items[i].tries >= MaxAttempts)
============================================================================
