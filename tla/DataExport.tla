----------------------------- MODULE DataExport -----------------------------
(***************************************************************************)
(* The GDPR export of one rider: POST /account/data-export                 *)
(* (data-export.controller.ts, data-export.service.ts), the BullMQ job it  *)
(* enqueues and the runner of that job (data-export.processor.ts).         *)
(*                                                                         *)
(* Three stores that share no transaction know of an export: the row in    *)
(* Postgres, the job in Redis, the ZIP in the object storage.  The unique  *)
(* index uq_data_export_requests_user_active lets one row be active; its   *)
(* ZIP is found through the row only once markReady has written the key.   *)
(* A row that lost its job or its runner is recognised by its age.         *)
(* One action is one statement or one call to a store.  The queue delivers *)
(* a job at least once.  Of time the code tells apart a row that is fresh, *)
(* one older than STUCK_WORKER_MS, and one past its TTL.                   *)
(***************************************************************************)
EXTENDS Naturals

CONSTANTS
  Req,     \* identities of requests
  Post,    \* POST handlers that may be open at once
  Worker,  \* runners: the concurrency of the queue, over all pods
  None,
  Faults   \* how many calls may fail, processes die, runs be slow, files be removed

ASSUME NoneAssumption == None \notin Req
ASSUME ProcAssumption == Post \cap Worker = {}
ASSUME FaultsAssumption == Faults \in Nat

VARIABLES
  rows,    \* data_export_requests of the rider: status, age
  zip,     \* the bundle of a request in the object storage
  jobs,    \* the jobs that a runner may pick up
  pc, req, \* where a handler or a runner is, and the request it works on
  gone,    \* was the account purged?
  faults

procs == <<pc, req>>
vars  == <<rows, zip, jobs, procs, gone, faults>>

Proc     == Post \cup Worker
Active   == {"queued", "processing", "ready"}
Statuses == Active \cup {"none", "failed", "expired"}
Rows     == [status : Statuses, age : {"fresh", "old", "past"}]
\* "removed" is a bundle an operator deleted, "lost" one that no record points to any
\* more for a reason the model names.
Zips     == {"no", "there", "removed", "lost"}
PCs      == {"idle", "exists", "delete", "expire", "expireBlind", "insert", "enqueue",
             "rollback", "claim", "lookup", "put", "register", "orphan", "fail"}

IsActive(r) == rows[r].status \in Active
InTtl(r)    == rows[r].status = "ready" /\ rows[r].age # "past"
Stored(r)   == zip[r] \in {"there", "lost"}

\* The partial unique index, and what the variables hold.
TypeOK ==
  /\ rows \in [Req -> Rows] /\ zip \in [Req -> Zips] /\ jobs \subseteq Req
  /\ pc \in [Proc -> PCs] /\ req \in [Proc -> Req \cup {None}]
  /\ gone \in BOOLEAN /\ faults \in 0..Faults
  /\ \A r, s \in Req : IsActive(r) /\ IsActive(s) => r = s

Init ==
  /\ rows = [r \in Req |-> [status |-> "none", age |-> "fresh"]]
  /\ zip = [r \in Req |-> "no"]
  /\ jobs = {}
  /\ pc = [q \in Proc |-> "idle"] /\ req = [q \in Proc |-> None]
  /\ gone = FALSE /\ faults = 0

Strike == faults < Faults /\ faults' = faults + 1

\* What q does next, about r.
Goto(q, to, r) ==
  /\ pc' = [pc EXCEPT ![q] = to]
  /\ req' = [req EXCEPT ![q] = r]
Proceed(q, to) == Goto(q, to, req[q])
End(q)       == Goto(q, "idle", None)

\* An UPDATE touches updated_at; the TTL stays what the INSERT made it.
Becomes(r, status) ==
  rows' = [rows EXCEPT ![r] = [status |-> status,
    age |-> IF status \in Active /\ @.age = "past" THEN "past" ELSE "fresh"]]

\* UPDATE ... SET status = to WHERE id = r AND status = from.
Flip(r, from, to) ==
  IF rows[r].status = from THEN Becomes(r, to) ELSE UNCHANGED rows

\* A statement that throws may have been executed all the same.
Throws(statement, variables) == Strike /\ (statement \/ UNCHANGED variables)

Delete(r) == zip' = [zip EXCEPT ![r] = IF Stored(r) THEN "no" ELSE @]
Lose(r)   == zip' = [zip EXCEPT ![r] = IF Stored(r) THEN "lost" ELSE @]

----------------------------------------------------------------------------
(* POST: requestExport and the enqueue of the controller.                    *)

\* Mutant: a row is active as long as its status says so.
StuckNever(r) == rows[r].status \notin Active

\* Nobody seems to work on a queued or processing row any more.
Stuck(r) == rows[r].age # "fresh"

\* The SELECT of the active row, and what follows from its status and its dates.  A row
\* that somebody still works on is the answer, and nothing changes.
Find(p) ==
  /\ pc[p] = "idle" /\ ~gone
  /\ \/ \E r \in Req :
          /\ IsActive(r)
          /\ \/ rows[r].status = "ready" /\ ~InTtl(r) /\ Goto(p, "delete", r)
             \/ InTtl(r) /\ Goto(p, "exists", r)
             \/ rows[r].status # "ready" /\ Stuck(r) /\ Goto(p, "expireBlind", r)
     \/ (\A r \in Req : ~IsActive(r)) /\ Goto(p, "insert", None)
  /\ UNCHANGED <<rows, zip, jobs, gone, faults>>

\* A check that fails counts as a bundle that is there.
UnknownIsThere(p) == Strike /\ End(p)

\* isRowReusable of a ready row: storage.exists.
CheckExists(p) ==
  /\ pc[p] = "exists"
  /\ \/ Stored(req[p]) /\ End(p) /\ UNCHANGED faults
     \/ ~Stored(req[p]) /\ Proceed(p, "delete") /\ UNCHANGED faults
     \/ UnknownIsThere(p)
  /\ UNCHANGED <<rows, zip, jobs, gone>>

\* expireAndCleanup of a row that was read with its key: the deletion is best effort.
DeleteBundle(p) ==
  /\ pc[p] = "delete"
  /\ \/ Delete(req[p]) /\ UNCHANGED faults
     \/ Strike /\ Lose(req[p])
  /\ Proceed(p, "expire")
  /\ UNCHANGED <<rows, jobs, gone>>

\* The UPDATE by id alone, of whatever status the row has by now.
SetExpired(r) == IF rows[r].status = "none" THEN UNCHANGED rows ELSE Becomes(r, "expired")

\* A row that was read before it had a key may be ready by now: its bundle is lost.
Outrun(r) == IF rows[r].status = "ready" THEN Lose(r) ELSE UNCHANGED zip

ExpireRow(p) ==
  /\ pc[p] \in {"expire", "expireBlind"}
  /\ LET statement == /\ SetExpired(req[p])
                      /\ IF pc[p] = "expireBlind" THEN Outrun(req[p]) ELSE UNCHANGED zip
     IN \/ statement /\ Goto(p, "insert", None) /\ UNCHANGED faults
        \/ Throws(statement, <<rows, zip>>) /\ End(p)
  /\ UNCHANGED <<jobs, gone>>

\* An identity is new if no row that counts, no bundle, job or process has it.
Unused == {r \in Req : /\ ~IsActive(r) /\ ~Stored(r) /\ r \notin jobs
                       /\ \A q \in Proc : req[q] # r}

NewRow(r) ==
  /\ r \in Unused /\ r = CHOOSE x \in Unused : TRUE
  /\ rows' = [rows EXCEPT ![r] = [status |-> "queued", age |-> "fresh"]]
  /\ zip' = [zip EXCEPT ![r] = "no"]

\* The INSERT.  It fails on the index, and the winner is the answer; on the foreign key,
\* once the rider is gone; or for no reason of its own.
InsertRow(p) ==
  /\ pc[p] = "insert"
  /\ IF gone \/ \E r \in Req : IsActive(r)
     THEN End(p) /\ UNCHANGED <<rows, zip, faults>>
     ELSE \E r \in Unused :
       \/ NewRow(r) /\ Goto(p, "enqueue", r) /\ UNCHANGED faults
       \/ Throws(NewRow(r), <<rows, zip>>) /\ End(p)
  /\ UNCHANGED <<jobs, gone>>

AddJob(r) == jobs' = jobs \cup {r}

\* queue.add.
Enqueue(p) ==
  /\ pc[p] = "enqueue"
  /\ \/ AddJob(req[p]) /\ End(p) /\ UNCHANGED faults
     \/ Throws(AddJob(req[p]), jobs) /\ Proceed(p, "rollback")
  /\ UNCHANGED <<rows, zip, gone>>

\* markEnqueueFailed; an error of it is swallowed.
Rollback(p) ==
  /\ pc[p] = "rollback"
  /\ LET statement == Flip(req[p], "queued", "failed")
     IN \/ statement /\ UNCHANGED faults
        \/ Throws(statement, rows)
  /\ End(p)
  /\ UNCHANGED <<zip, jobs, gone>>

PostStep(p) ==
  \/ Find(p) \/ CheckExists(p) \/ DeleteBundle(p) \/ ExpireRow(p) \/ InsertRow(p)
  \/ Enqueue(p) \/ Rollback(p)

----------------------------------------------------------------------------
(* The runner: process.                                                      *)

Take(w) ==
  /\ pc[w] = "idle"
  /\ \E r \in jobs : Goto(w, "claim", r) /\ jobs' = jobs \ {r}
  /\ UNCHANGED <<rows, zip, gone, faults>>

\* Mutant: whoever got the job may run it.
ClaimableAny(r) == rows[r].status # "none"

\* The condition of markProcessing.
Claimable(r) == rows[r].status = "queued"

\* markProcessing.
Claim(w) ==
  /\ pc[w] = "claim"
  /\ LET r == req[w]
         statement == IF Claimable(r) THEN Becomes(r, "processing") ELSE UNCHANGED rows
     IN \/ statement /\ UNCHANGED faults
           /\ IF Claimable(r) THEN Proceed(w, "lookup") ELSE End(w)
        \/ Throws(statement, rows) /\ Proceed(w, "fail")
  /\ UNCHANGED <<zip, jobs, gone>>

\* The SELECT of the user.
Lookup(w) ==
  /\ pc[w] = "lookup"
  /\ \/ Proceed(w, IF gone THEN "fail" ELSE "put") /\ UNCHANGED faults
     \/ Strike /\ Proceed(w, "fail")
  /\ UNCHANGED <<rows, zip, jobs, gone>>

Write(r, as) == zip' = [zip EXCEPT ![r] = as]

\* assemble and storage.put; a put that throws may have left a bundle.
Put(w) ==
  /\ pc[w] = "put"
  /\ \/ Write(req[w], "there") /\ Proceed(w, "register") /\ UNCHANGED faults
     \/ Throws(Write(req[w], "lost"), zip) /\ Proceed(w, "fail")
  /\ UNCHANGED <<rows, jobs, gone>>

\* Mutant: a bundle whose row was taken away stays where it is.
LeaveOrphan(w) == End(w)

\* No row was updated: the bundle is an orphan.
Orphaned(w) == Proceed(w, "orphan")

\* The UPDATE of markReady.
Register(w) ==
  /\ pc[w] = "register"
  /\ LET r == req[w]
         mine == rows[r].status = "processing"
     IN \/ Flip(r, "processing", "ready") /\ UNCHANGED <<zip, faults>>
           /\ IF mine THEN End(w) ELSE Orphaned(w)
        \/ /\ Strike /\ Proceed(w, "fail")
           /\ \/ mine /\ Becomes(r, "ready") /\ UNCHANGED zip
              \/ Lose(r) /\ UNCHANGED rows
  /\ UNCHANGED <<jobs, gone>>

\* markReady deletes the orphan, best effort.
DeleteOrphan(w) ==
  /\ pc[w] = "orphan"
  /\ \/ Delete(req[w]) /\ UNCHANGED faults
     \/ Strike /\ Lose(req[w])
  /\ End(w)
  /\ UNCHANGED <<rows, jobs, gone>>

\* markFailed; an error of it is swallowed.
Fail(w) ==
  /\ pc[w] = "fail"
  /\ LET statement == Flip(req[w], "processing", "failed")
     IN \/ statement /\ UNCHANGED faults
        \/ Throws(statement, rows)
  /\ End(w)
  /\ UNCHANGED <<zip, jobs, gone>>

WorkerStep(w) ==
  \/ Take(w) \/ Claim(w) \/ Lookup(w) \/ Put(w) \/ Register(w) \/ DeleteOrphan(w)
  \/ Fail(w)

----------------------------------------------------------------------------
(* Time, failures, and the end of the account.                               *)

\* Somebody is on the way to r.
Tended(r) ==
  \/ r \in jobs
  \/ \E q \in Proc : req[q] = r /\ pc[q] \notin {"delete", "expire", "expireBlind"}

Later(r) == IF rows[r].status = "ready" \/ rows[r].age # "fresh" THEN "past" ELSE "old"

Ages(r) ==
  /\ rows[r].age # "past"
  /\ rows' = [rows EXCEPT ![r].age = Later(r)]
  /\ UNCHANGED <<zip, jobs, procs, gone>>

\* Nobody tends the row, and time passes.
Strands(r) ==
  /\ rows[r].status \in {"queued", "processing"} /\ ~Tended(r)
  /\ Ages(r) /\ UNCHANGED faults

\* The TTL of a bundle runs out.
Runs(r) == rows[r].status = "ready" /\ Ages(r) /\ UNCHANGED faults

\* The queue or the runner takes longer than the code thinks legitimate.
Slow(r) ==
  /\ rows[r].status \in {"queued", "processing"} /\ Tended(r)
  /\ Strike /\ Ages(r)

\* The job of a live runner is taken for stalled, and delivered again.
Redeliver(w) ==
  /\ w \in Worker /\ pc[w] # "idle"
  /\ Strike /\ AddJob(req[w])
  /\ UNCHANGED <<rows, zip, procs, gone>>

\* A process dies; the queue delivers its job again, or has given it up.
Die(q) ==
  /\ pc[q] # "idle" /\ Strike
  /\ IF q \in Worker THEN AddJob(req[q]) \/ UNCHANGED jobs ELSE UNCHANGED jobs
  /\ \/ pc[q] \in {"register", "orphan"} /\ Lose(req[q])
     \/ pc[q] = "put" /\ Write(req[q], "lost")
     \/ pc[q] \notin {"register", "orphan"} /\ UNCHANGED zip
  /\ End(q)
  /\ UNCHANGED <<rows, gone>>

\* An operator, or a volume that was reset.
Remove(r) ==
  /\ rows[r].status = "ready" /\ Stored(r)
  /\ Strike /\ Write(r, "removed")
  /\ UNCHANGED <<rows, jobs, procs, gone>>

\* The purge deletes the user, and its rows by ON DELETE CASCADE, but no bundle.
Purge ==
  /\ ~gone /\ gone' = TRUE
  /\ rows' = [r \in Req |-> [status |-> "none", age |-> "fresh"]]
  /\ zip' = [r \in Req |-> IF rows[r].status = "ready" /\ Stored(r) THEN "lost" ELSE zip[r]]
  /\ UNCHANGED <<jobs, procs, faults>>

Environment ==
  \/ \E r \in Req : Strands(r) \/ Runs(r) \/ Slow(r) \/ Remove(r)
  \/ \E w \in Worker : Redeliver(w)
  \/ \E q \in Proc : Die(q)
  \/ Purge

Next ==
  \/ \E p \in Post : PostStep(p)
  \/ \E w \in Worker : WorkerStep(w)
  \/ Environment

Spec == Init /\ [][Next]_vars

\* The rider asks again, handlers and runners go on, and time passes.
Fairness ==
  /\ \A p \in Post : WF_vars(PostStep(p))
  /\ \A w \in Worker : WF_vars(WorkerStep(w))
  /\ \A r \in Req : WF_vars(Strands(r))

FairSpec == Spec /\ Fairness

----------------------------------------------------------------------------
(* Properties.                                                               *)

\* A ready row within its TTL has its bundle, unless an operator removed it: no late
\* runner, duplicate job or POST deletes what the rider was promised.
ReadyHasItsBundle ==
  \A r \in Req : InTtl(r) => zip[r] \in {"there", "removed"}

\* Personal data is not leaked on disk (comment of markReady): a bundle that no ready
\* row points to is on its way to be registered or deleted.  What the model calls lost
\* are the ways the code lets one go: a deletion that failed, a put or a markReady that
\* threw, a process that died in between, a row that got ready while a POST that had
\* judged it stuck expired it, and the purge of the account.
NoBundleIsForgotten ==
  \A r \in Req : zip[r] = "there" =>
    \/ rows[r].status = "ready"
    \/ \E w \in Worker : req[w] = r /\ pc[w] \in {"register", "orphan"}

\* Postgres and the object storage share no transaction and agree all the same.
StorageMatchesRows == ReadyHasItsBundle /\ NoBundleIsForgotten

\* A rider who keeps asking gets a bundle, whatever failed: a row without a job or a
\* runner does not block the next request for ever.
BundleArrives ==
  []<>(gone \/ \E r \in Req : InTtl(r) /\ zip[r] = "there")

\* A claim of the code (data-export.service.ts:167-171, "so we don't leak personal data
\* on disk indefinitely") that no run checks: a ready row whose TTL runs is not expired
\* while its bundle is there.  A POST that read the row as stuck does that.
ReadyIsKept ==
  [][\A r \in Req : InTtl(r) /\ Stored(r) => rows'[r].status = "ready" \/ gone']_vars
============================================================================
