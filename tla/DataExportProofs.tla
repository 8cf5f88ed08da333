-------------------------- MODULE DataExportProofs --------------------------
(***************************************************************************)
(* Proofs about DataExport.  Of the places of the handlers and the runners *)
(* three facts follow: a request has one runner that got its claim, the    *)
(* row that such a runner works on is not ready, and the row a POST is     *)
(* about to clean up never becomes ready again.  From them: the bundle of  *)
(* a ready row stays, and no bundle is forgotten.                          *)
(***************************************************************************)
EXTENDS DataExport, TLAPS

PostPCs   == {"idle", "exists", "delete", "expire", "expireBlind", "insert", "enqueue",
              "rollback"}
WorkerPCs == {"idle", "claim", "lookup", "put", "register", "orphan", "fail"}
Running   == {"lookup", "put", "register", "orphan"}
Unready   == {"processing", "failed", "expired", "none"}

\* Handlers and runners keep to their own places, and only who is idle or about to
\* insert is about no request.
Places ==
  /\ \A p \in Post : pc[p] \in PostPCs
  /\ \A w \in Worker : pc[w] \in WorkerPCs
  /\ \A q \in Proc : pc[q] \notin {"idle", "insert"} => req[q] \in Req

\* Who runs a request has claimed it: the row is not ready, and nobody else runs it.
Runners ==
  /\ \A w \in Worker : pc[w] \in Running => rows[req[w]].status \in Unready
  /\ \A w \in Worker : pc[w] = "orphan" => rows[req[w]].status # "processing"
  /\ \A v, w \in Worker : pc[v] \in Running /\ pc[w] \in Running /\ v # w => req[v] # req[w]
  /\ \A w \in Worker : pc[w] = "register" /\ rows[req[w]].status = "processing"
                         => zip[req[w]] = "there"

\* A POST cleans up a row that was ready once, and only if its time was over or its
\* bundle missing.
Cleaners ==
  /\ \A p \in Post : pc[p] \in {"exists", "delete", "expire"} =>
       rows[req[p]].status \in {"ready", "expired", "none"}
  /\ \A p \in Post : pc[p] \in {"delete", "expire"} =>
       ~InTtl(req[p]) \/ zip[req[p]] = "removed"
  /\ \A p \in Post : pc[p] = "expire" /\ rows[req[p]].status = "ready" => zip[req[p]] # "there"

IInv == TypeOK /\ Places /\ Runners /\ Cleaners /\ ReadyHasItsBundle /\ NoBundleIsForgotten

----------------------------------------------------------------------------
(* Initially, the end of the account, and every other step.                  *)

LEMMA InitIInv ==
  ASSUME Init
  PROVE  IInv
<1>1. TypeOK
  <2>1. rows \in [Req -> Rows] /\ \A r \in Req : ~IsActive(r)
    BY DEF Init, Rows, Statuses, Active, IsActive
  <2>2. pc \in [Proc -> PCs] /\ req \in [Proc -> Req \cup {None}]
    BY DEF Init, PCs
  <2>3. zip \in [Req -> Zips] /\ jobs \subseteq Req
    BY DEF Init, Zips
  <2>4. gone \in BOOLEAN
    BY DEF Init
  <2>5. faults \in 0..Faults
    BY FaultsAssumption DEF Init
  <2> QED
    BY <2>1, <2>2, <2>3, <2>4, <2>5 DEF TypeOK
<1>2. Places
  BY DEF Init, Places, PostPCs, WorkerPCs, Proc
<1>3. Runners /\ Cleaners
  BY DEF Init, Runners, Cleaners, Running, Proc
<1>4. ReadyHasItsBundle /\ NoBundleIsForgotten
  BY DEF Init, ReadyHasItsBundle, NoBundleIsForgotten, InTtl
<1> QED
  BY <1>1, <1>2, <1>3, <1>4 DEF IInv

LEMMA StutterKeeps ==
  ASSUME IInv, UNCHANGED vars
  PROVE  IInv'
BY DEF vars, procs, IInv, TypeOK, IsActive, Places, Runners, Cleaners, ReadyHasItsBundle,
       NoBundleIsForgotten, InTtl

\* The rows are gone: nothing is ready, and the bundles of ready rows are lost.
LEMMA PurgeKeeps ==
  ASSUME IInv, Purge
  PROVE  IInv'
<1> USE DEF IInv, Purge, procs
<1>1. TypeOK'
  BY DEF TypeOK, Rows, Zips, Statuses, Active, IsActive, Stored
<1>2. Places'
  BY DEF Places
<1>3. Runners'
  BY DEF Runners, Running, Unready, Places, WorkerPCs, Proc, Stored
<1>4. Cleaners'
  BY DEF Cleaners, InTtl, Places, Proc
<1>5. ReadyHasItsBundle'
  BY DEF ReadyHasItsBundle, InTtl
<1>6. NoBundleIsForgotten'
  BY DEF NoBundleIsForgotten, Stored, TypeOK
<1> QED
  BY <1>1, <1>2, <1>3, <1>4, <1>5, <1>6

----------------------------------------------------------------------------
(* The steps of a POST, of a runner, and of the environment.                 *)

LEMMA FindKeeps ==
  ASSUME IInv, NEW p \in Post, Find(p)
  PROVE  IInv'
<1> USE DEF IInv, Proc, Find, Goto, Stuck, procs
<1>1. TypeOK'
  BY FaultsAssumption DEF TypeOK, Rows, Zips, Statuses, Active, PCs, IsActive, Places,
         InTtl
<1>2. Places'
  BY ProcAssumption DEF Places, PostPCs, WorkerPCs, TypeOK, IsActive, InTtl
<1>3. Runners'
  BY ProcAssumption DEF Runners, Running, Unready, Cleaners, Places, PostPCs, WorkerPCs,
         TypeOK, Rows, IsActive, InTtl
<1>4. Cleaners'
  BY ProcAssumption DEF Cleaners, Runners, Running, Unready, ReadyHasItsBundle, InTtl,
         Places, PostPCs, WorkerPCs, TypeOK, Rows, IsActive
<1>5. ReadyHasItsBundle'
  BY ProcAssumption DEF ReadyHasItsBundle, InTtl, Cleaners, Runners, Running, Unready,
         Places, TypeOK, Rows, IsActive
<1>6. NoBundleIsForgotten'
  BY ProcAssumption DEF NoBundleIsForgotten, Cleaners, Runners, Running, Unready,
         Places, WorkerPCs, TypeOK, Rows, IsActive, InTtl
<1> QED
  BY <1>1, <1>2, <1>3, <1>4, <1>5, <1>6

LEMMA CheckExistsKeeps ==
  ASSUME IInv, NEW p \in Post, CheckExists(p)
  PROVE  IInv'
<1> USE DEF IInv, Proc, CheckExists, End, Proceed, Goto, UnknownIsThere, Strike, Stored
<1>1. TypeOK'
  BY FaultsAssumption DEF TypeOK, Rows, Zips, Statuses, Active, PCs, IsActive, Places
<1>2. Places'
  BY ProcAssumption DEF Places, PostPCs, WorkerPCs, TypeOK
<1>3. Runners'
  BY ProcAssumption DEF Runners, Running, Unready, Cleaners, Places, PostPCs, WorkerPCs,
         TypeOK, Rows
<1>4. Cleaners'
  BY ProcAssumption DEF Cleaners, Runners, Running, Unready, ReadyHasItsBundle, InTtl,
         Places, PostPCs, WorkerPCs, TypeOK, Rows
<1>5. ReadyHasItsBundle'
  BY ProcAssumption DEF ReadyHasItsBundle, InTtl, Cleaners, Runners, Running, Unready,
         Places, TypeOK, Rows
<1>6. NoBundleIsForgotten'
  BY ProcAssumption DEF NoBundleIsForgotten, Cleaners, Runners, Running, Unready,
         Places, WorkerPCs, TypeOK, Rows
<1> QED
  BY <1>1, <1>2, <1>3, <1>4, <1>5, <1>6

LEMMA DeleteBundleKeeps ==
  ASSUME IInv, NEW p \in Post, DeleteBundle(p)
  PROVE  IInv'
<1> USE DEF IInv, Proc, DeleteBundle, Delete, Lose, Strike, Proceed, Goto, Stored
<1>1. TypeOK'
  BY FaultsAssumption DEF TypeOK, Rows, Zips, Statuses, Active, PCs, IsActive, Places
<1>2. Places'
  BY ProcAssumption DEF Places, PostPCs, WorkerPCs, TypeOK
<1>3. Runners'
  BY ProcAssumption DEF Runners, Running, Unready, Cleaners, Places, PostPCs, WorkerPCs,
         TypeOK, Rows
<1>4. Cleaners'
  BY ProcAssumption DEF Cleaners, Runners, Running, Unready, ReadyHasItsBundle, InTtl,
         Places, PostPCs, WorkerPCs, TypeOK, Rows
<1>5. ReadyHasItsBundle'
  BY ProcAssumption DEF ReadyHasItsBundle, InTtl, Cleaners, Runners, Running, Unready,
         Places, TypeOK, Rows
<1>6. NoBundleIsForgotten'
  BY ProcAssumption DEF NoBundleIsForgotten, Cleaners, Runners, Running, Unready,
         Places, WorkerPCs, TypeOK, Rows
<1> QED
  BY <1>1, <1>2, <1>3, <1>4, <1>5, <1>6

LEMMA ExpireRowKeeps ==
  ASSUME IInv, NEW p \in Post, ExpireRow(p)
  PROVE  IInv'
<1> USE DEF IInv, Proc
<1>a. req[p] \in Req
  BY DEF Places, ExpireRow
<1>b. /\ pc' \in [Proc -> PCs] /\ req' \in [Proc -> Req \cup {None}]
      /\ pc'[p] \in {"idle", "insert"}
      /\ \A q \in Proc \ {p} : pc'[q] = pc[q] /\ req'[q] = req[q]
  BY DEF ExpireRow, End, Goto, TypeOK, PCs
<1>c. rows' \in [Req -> Rows] /\ zip' \in [Req -> Zips] /\ jobs' = jobs /\ gone' = gone
  BY <1>a DEF ExpireRow, Throws, SetExpired, Becomes, Outrun, Lose, TypeOK, Rows, Statuses,
              Active, Zips
<1>d. \A r \in Req : \/ rows'[r].status = "expired"
                     \/ (rows'[r] = rows[r] /\ zip'[r] = zip[r])
  BY <1>a DEF ExpireRow, Throws, SetExpired, Becomes, Outrun, Lose, TypeOK
<1>e. \A r \in Req : zip'[r] = zip[r] \/ zip'[r] = "lost"
  BY <1>a DEF ExpireRow, Throws, Outrun, Lose, TypeOK
\* The bundle of a ready row goes with it: it was deleted, or it is lost now.
<1>f. \A r \in Req : rows[r].status = "ready" /\ rows'[r] # rows[r] => zip'[r] # "there"
  BY <1>a DEF ExpireRow, Throws, SetExpired, Becomes, Outrun, Lose, Stored, TypeOK, Cleaners
<1>g. p \notin Worker
  BY ProcAssumption
<1>1. TypeOK'
  <2>1. faults' \in 0..Faults
    BY FaultsAssumption DEF ExpireRow, Throws, Strike, TypeOK
  <2> QED
    BY <2>1, <1>b, <1>c, <1>d DEF TypeOK, IsActive, Active
<1>2. Places'
  BY <1>b, <1>g DEF Places, PostPCs
<1>3. Runners'
  BY <1>b, <1>d, <1>g DEF Runners, Running, Unready, Places
<1>4. Cleaners'
  BY <1>b, <1>d DEF Cleaners, Places, InTtl
<1>5. ReadyHasItsBundle'
  BY <1>d DEF ReadyHasItsBundle, InTtl
<1>6. NoBundleIsForgotten'
  BY <1>b, <1>d, <1>e, <1>f, <1>g DEF NoBundleIsForgotten
<1> QED
  BY <1>1, <1>2, <1>3, <1>4, <1>5, <1>6

LEMMA InsertRowKeeps ==
  ASSUME IInv, NEW p \in Post, InsertRow(p)
  PROVE  IInv'
<1> USE DEF IInv, Proc
<1>1. CASE UNCHANGED <<rows, zip>>
  <2>1. /\ pc' \in [Proc -> PCs] /\ req' \in [Proc -> Req \cup {None}]
        /\ \/ pc'[p] = "idle"
           \/ pc'[p] = "enqueue" /\ req'[p] \in Req
        /\ \A q \in Proc \ {p} : pc'[q] = pc[q] /\ req'[q] = req[q]
    BY DEF InsertRow, End, Goto, Unused, TypeOK, PCs
  <2>2. TypeOK'
    <3>1. faults' \in 0..Faults
      BY FaultsAssumption DEF InsertRow, Throws, Strike, TypeOK
    <3> QED
      BY <1>1, <2>1, <3>1 DEF InsertRow, TypeOK, IsActive
  <2>3. p \notin Worker
    BY ProcAssumption
  <2>4. Places' /\ Runners' /\ Cleaners'
    BY <1>1, <2>1, <2>3 DEF Places, PostPCs, Runners, Running, Cleaners, InTtl
  <2>5. ReadyHasItsBundle' /\ NoBundleIsForgotten'
    BY <1>1, <2>1, <2>3 DEF ReadyHasItsBundle, NoBundleIsForgotten, InTtl
  <2> QED
    BY <2>2, <2>4, <2>5
\* The new row is nobody's: no process works on one of its identity.
<1>2. ASSUME NEW r \in Unused, NewRow(r), \A s \in Req : ~IsActive(s)
      PROVE  IInv'
  <2>a. r \in Req /\ ~Stored(r) /\ \A q \in Proc : req[q] # r
    BY DEF Unused
  <2>b. /\ pc' \in [Proc -> PCs] /\ req' \in [Proc -> Req \cup {None}]
        /\ pc'[p] \in {"idle", "enqueue"} /\ (pc'[p] = "enqueue" => req'[p] \in Req)
        /\ \A q \in Proc \ {p} : pc'[q] = pc[q] /\ req'[q] = req[q]
    BY <2>a DEF InsertRow, End, Goto, Unused, TypeOK, PCs
  <2>c. rows' \in [Req -> Rows] /\ zip' \in [Req -> Zips] /\ jobs' = jobs /\ gone' = gone
    BY <1>2, <2>a DEF InsertRow, NewRow, TypeOK, Rows, Statuses, Active, Zips
  <2>d. /\ rows'[r].status = "queued" /\ zip'[r] = "no"
        /\ \A s \in Req \ {r} : rows'[s] = rows[s] /\ zip'[s] = zip[s]
    BY <1>2, <2>a DEF NewRow, TypeOK
  <2>e. p \notin Worker
    BY ProcAssumption
  <2>1. TypeOK'
    <3>1. faults' \in 0..Faults
      BY FaultsAssumption DEF InsertRow, Throws, Strike, TypeOK
    <3> QED
      BY <1>2, <2>b, <2>c, <2>d, <3>1 DEF TypeOK, IsActive
  <2>2. Places'
    BY <2>b, <2>e DEF Places, PostPCs
  <2>3. Runners'
    BY <2>a, <2>b, <2>d, <2>e DEF Runners, Running, Places
  <2>4. Cleaners'
    BY <2>a, <2>b, <2>d DEF Cleaners, Places, InTtl
  <2>5. ReadyHasItsBundle'
    BY <2>d DEF ReadyHasItsBundle, InTtl
  <2>6. NoBundleIsForgotten'
    BY <2>b, <2>d, <2>e DEF NoBundleIsForgotten
  <2> QED
    BY <2>1, <2>2, <2>3, <2>4, <2>5, <2>6
<1> QED
  BY <1>1, <1>2 DEF InsertRow, Throws

LEMMA EnqueueKeeps ==
  ASSUME IInv, NEW p \in Post, Enqueue(p)
  PROVE  IInv'
<1> USE DEF IInv, Proc, Enqueue, AddJob, Throws, Strike, End, Proceed, Goto
<1>1. TypeOK'
  BY FaultsAssumption DEF TypeOK, Rows, Zips, Statuses, Active, PCs, IsActive, Places
<1>2. Places'
  BY ProcAssumption DEF Places, PostPCs, WorkerPCs, TypeOK
<1>3. Runners'
  BY ProcAssumption DEF Runners, Running, Unready, Cleaners, Places, PostPCs, WorkerPCs,
         TypeOK, Rows
<1>4. Cleaners'
  BY ProcAssumption DEF Cleaners, Runners, Running, Unready, ReadyHasItsBundle, InTtl,
         Places, PostPCs, WorkerPCs, TypeOK, Rows
<1>5. ReadyHasItsBundle'
  BY ProcAssumption DEF ReadyHasItsBundle, InTtl, Cleaners, Runners, Running, Unready,
         Places, TypeOK, Rows
<1>6. NoBundleIsForgotten'
  BY ProcAssumption DEF NoBundleIsForgotten, Cleaners, Runners, Running, Unready,
         Places, WorkerPCs, TypeOK, Rows
<1> QED
  BY <1>1, <1>2, <1>3, <1>4, <1>5, <1>6

LEMMA RollbackKeeps ==
  ASSUME IInv, NEW p \in Post, Rollback(p)
  PROVE  IInv'
<1> USE DEF IInv, Proc
<1>a. req[p] \in Req /\ zip' = zip /\ jobs' = jobs /\ gone' = gone
  BY DEF Places, Rollback
<1>b. /\ pc' \in [Proc -> PCs] /\ req' \in [Proc -> Req \cup {None}] /\ pc'[p] = "idle"
      /\ \A q \in Proc \ {p} : pc'[q] = pc[q] /\ req'[q] = req[q]
  BY DEF Rollback, End, Goto, TypeOK, PCs
<1>c. /\ rows' \in [Req -> Rows]
      /\ \A r \in Req : \/ rows'[r] = rows[r]
                        \/ rows[r].status = "queued" /\ rows'[r].status = "failed"
  BY <1>a DEF Rollback, Throws, Flip, Becomes, TypeOK, Rows, Statuses, Active
<1>d. p \notin Worker
  BY ProcAssumption
<1>1. TypeOK'
  <2>1. faults' \in 0..Faults
    BY FaultsAssumption DEF Rollback, Throws, Strike, TypeOK
  <2> QED
    BY <2>1, <1>a, <1>b, <1>c DEF TypeOK, IsActive, Active
<1>2. Places'
  BY <1>b, <1>d DEF Places, PostPCs
<1>3. Runners'
  BY <1>a, <1>b, <1>c, <1>d DEF Runners, Running, Unready, Places
<1>4. Cleaners'
  BY <1>a, <1>b, <1>c DEF Cleaners, Places, InTtl
<1>5. ReadyHasItsBundle'
  BY <1>a, <1>c DEF ReadyHasItsBundle, InTtl
<1>6. NoBundleIsForgotten'
  BY <1>a, <1>b, <1>c, <1>d DEF NoBundleIsForgotten
<1> QED
  BY <1>1, <1>2, <1>3, <1>4, <1>5, <1>6

LEMMA TakeKeeps ==
  ASSUME IInv, NEW w \in Worker, Take(w)
  PROVE  IInv'
<1> USE DEF IInv, Proc, Take, Goto
<1>1. TypeOK'
  BY FaultsAssumption DEF TypeOK, Rows, Zips, Statuses, Active, PCs, IsActive, Places
<1>2. Places'
  BY ProcAssumption DEF Places, PostPCs, WorkerPCs, TypeOK
<1>3. Runners'
  BY ProcAssumption DEF Runners, Running, Unready, Cleaners, Places, PostPCs, WorkerPCs,
         TypeOK, Rows
<1>4. Cleaners'
  BY ProcAssumption DEF Cleaners, Runners, Running, Unready, ReadyHasItsBundle, InTtl,
         Places, PostPCs, WorkerPCs, TypeOK, Rows
<1>5. ReadyHasItsBundle'
  BY ProcAssumption DEF ReadyHasItsBundle, InTtl, Cleaners, Runners, Running, Unready,
         Places, TypeOK, Rows
<1>6. NoBundleIsForgotten'
  BY ProcAssumption DEF NoBundleIsForgotten, Cleaners, Runners, Running, Unready,
         Places, WorkerPCs, TypeOK, Rows
<1> QED
  BY <1>1, <1>2, <1>3, <1>4, <1>5, <1>6

LEMMA ClaimKeeps ==
  ASSUME IInv, NEW w \in Worker, Claim(w)
  PROVE  IInv'
<1> USE DEF IInv, Proc
<1>a. req[w] \in Req /\ zip' = zip /\ jobs' = jobs /\ gone' = gone /\ pc[w] = "claim"
  BY DEF Places, Claim
<1>b. /\ pc' \in [Proc -> PCs] /\ req' \in [Proc -> Req \cup {None}]
      /\ pc'[w] \in {"idle", "lookup", "fail"} /\ (pc'[w] # "idle" => req'[w] = req[w])
      /\ \A q \in Proc \ {w} : pc'[q] = pc[q] /\ req'[q] = req[q]
  BY DEF Claim, End, Proceed, Goto, TypeOK, PCs
<1>c. /\ rows' \in [Req -> Rows]
      /\ \A r \in Req : \/ rows'[r] = rows[r]
                        \/ /\ r = req[w] /\ rows[r].status = "queued"
                           /\ rows'[r].status = "processing"
  BY <1>a DEF Claim, Claimable, Throws, Becomes, TypeOK, Rows, Statuses, Active
\* Who goes on has found the row queued, so no runner has it.
<1>d. pc'[w] = "lookup" => rows[req[w]].status = "queued" /\ rows'[req[w]].status = "processing"
  BY <1>a DEF Claim, Claimable, Throws, Becomes, End, Proceed, Goto, TypeOK, Rows
<1>e. w \notin Post
  BY ProcAssumption
<1>1. TypeOK'
  <2>1. faults' \in 0..Faults
    BY FaultsAssumption DEF Claim, Throws, Strike, TypeOK
  <2> QED
    BY <2>1, <1>a, <1>b, <1>c DEF TypeOK, IsActive, Active
<1>2. Places'
  BY <1>a, <1>b, <1>e DEF Places, WorkerPCs
<1>3. Runners'
  BY <1>a, <1>b, <1>c, <1>d DEF Runners, Running, Unready, Places
<1>4. Cleaners'
  BY <1>a, <1>b, <1>c, <1>e DEF Cleaners, Places, InTtl
<1>5. ReadyHasItsBundle'
  BY <1>a, <1>c DEF ReadyHasItsBundle, InTtl
<1>6. NoBundleIsForgotten'
  BY <1>a, <1>b, <1>c DEF NoBundleIsForgotten
<1> QED
  BY <1>1, <1>2, <1>3, <1>4, <1>5, <1>6

LEMMA LookupKeeps ==
  ASSUME IInv, NEW w \in Worker, Lookup(w)
  PROVE  IInv'
<1> USE DEF IInv, Proc, Lookup, Strike, Proceed, Goto
<1>1. TypeOK'
  BY FaultsAssumption DEF TypeOK, Rows, Zips, Statuses, Active, PCs, IsActive, Places
<1>2. Places'
  BY ProcAssumption DEF Places, PostPCs, WorkerPCs, TypeOK
<1>3. Runners'
  BY ProcAssumption DEF Runners, Running, Unready, Cleaners, Places, PostPCs, WorkerPCs,
         TypeOK, Rows
<1>4. Cleaners'
  BY ProcAssumption DEF Cleaners, Runners, Running, Unready, ReadyHasItsBundle, InTtl,
         Places, PostPCs, WorkerPCs, TypeOK, Rows
<1>5. ReadyHasItsBundle'
  BY ProcAssumption DEF ReadyHasItsBundle, InTtl, Cleaners, Runners, Running, Unready,
         Places, TypeOK, Rows
<1>6. NoBundleIsForgotten'
  BY ProcAssumption DEF NoBundleIsForgotten, Cleaners, Runners, Running, Unready,
         Places, WorkerPCs, TypeOK, Rows
<1> QED
  BY <1>1, <1>2, <1>3, <1>4, <1>5, <1>6

LEMMA PutKeeps ==
  ASSUME IInv, NEW w \in Worker, Put(w)
  PROVE  IInv'
<1> USE DEF IInv, Proc, Put, Write, Throws, Strike, Proceed, Goto
<1>1. TypeOK'
  BY FaultsAssumption DEF TypeOK, Rows, Zips, Statuses, Active, PCs, IsActive, Places
<1>2. Places'
  BY ProcAssumption DEF Places, PostPCs, WorkerPCs, TypeOK
<1>3. Runners'
  BY ProcAssumption DEF Runners, Running, Unready, Cleaners, Places, PostPCs, WorkerPCs,
         TypeOK, Rows
<1>4. Cleaners'
  BY ProcAssumption DEF Cleaners, Runners, Running, Unready, ReadyHasItsBundle, InTtl,
         Places, PostPCs, WorkerPCs, TypeOK, Rows
<1>5. ReadyHasItsBundle'
  BY ProcAssumption DEF ReadyHasItsBundle, InTtl, Cleaners, Runners, Running, Unready,
         Places, TypeOK, Rows
<1>6. NoBundleIsForgotten'
  BY ProcAssumption DEF NoBundleIsForgotten, Cleaners, Runners, Running, Unready,
         Places, WorkerPCs, TypeOK, Rows
<1> QED
  BY <1>1, <1>2, <1>3, <1>4, <1>5, <1>6

LEMMA RegisterKeeps ==
  ASSUME IInv, NEW w \in Worker, Register(w)
  PROVE  IInv'
<1> USE DEF IInv, Proc
<1>a. req[w] \in Req /\ jobs' = jobs /\ gone' = gone /\ pc[w] = "register"
  BY DEF Places, Register
<1>b. /\ pc' \in [Proc -> PCs] /\ req' \in [Proc -> Req \cup {None}]
      /\ pc'[w] \in {"idle", "orphan", "fail"} /\ (pc'[w] # "idle" => req'[w] = req[w])
      /\ \A q \in Proc \ {w} : pc'[q] = pc[q] /\ req'[q] = req[q]
  BY DEF Register, Orphaned, End, Proceed, Goto, TypeOK, PCs
<1>c. rows' \in [Req -> Rows] /\ zip' \in [Req -> Zips]
  BY <1>a DEF Register, Flip, Becomes, Lose, TypeOK, Rows, Statuses, Active, Zips
\* Either the row gets ready with the bundle that is there, or the rows stay.
<1>d. \/ /\ rows[req[w]].status = "processing" /\ rows'[req[w]].status = "ready"
         /\ \A r \in Req \ {req[w]} : rows'[r] = rows[r]
         /\ zip' = zip /\ pc'[w] # "orphan"
      \/ /\ rows' = rows /\ \A r \in Req \ {req[w]} : zip'[r] = zip[r]
         /\ \/ rows[req[w]].status # "processing" /\ pc'[w] = "orphan" /\ zip' = zip
            \/ zip'[req[w]] # "there" /\ pc'[w] = "fail"
               /\ (zip'[req[w]] = zip[req[w]] \/ zip'[req[w]] = "lost")
               /\ (zip[req[w]] \in {"no", "removed"} => zip'[req[w]] = zip[req[w]])
  BY <1>a DEF Register, Flip, Becomes, Lose, Stored, Orphaned, End, Proceed, Goto, TypeOK, Rows
<1>e. w \notin Post
  BY ProcAssumption
<1>f. rows[req[w]].status \in Unready
      /\ \A v \in Worker \ {w} : pc[v] \in Running => req[v] # req[w]
  BY <1>a DEF Runners, Running
<1>1. TypeOK'
  <2>1. faults' \in 0..Faults
    BY FaultsAssumption DEF Register, Strike, TypeOK
  <2> QED
    BY <2>1, <1>a, <1>b, <1>c, <1>d DEF TypeOK, IsActive, Active
<1>2. Places'
  BY <1>a, <1>b, <1>e DEF Places, WorkerPCs
<1>3. Runners'
  BY <1>a, <1>b, <1>d, <1>f DEF Runners, Running, Unready, Places
<1>4. Cleaners'
  BY <1>a, <1>b, <1>d, <1>e, <1>f DEF Cleaners, Places, InTtl, Unready
<1>5. ReadyHasItsBundle'
  BY <1>a, <1>d, <1>f DEF ReadyHasItsBundle, InTtl, Runners, Unready
<1>6. NoBundleIsForgotten'
  BY <1>a, <1>b, <1>d DEF NoBundleIsForgotten
<1> QED
  BY <1>1, <1>2, <1>3, <1>4, <1>5, <1>6

LEMMA DeleteOrphanKeeps ==
  ASSUME IInv, NEW w \in Worker, DeleteOrphan(w)
  PROVE  IInv'
<1> USE DEF IInv, Proc, DeleteOrphan, Delete, Lose, Strike, End, Goto, Stored
<1>1. TypeOK'
  BY FaultsAssumption DEF TypeOK, Rows, Zips, Statuses, Active, PCs, IsActive, Places
<1>2. Places'
  BY ProcAssumption DEF Places, PostPCs, WorkerPCs, TypeOK
<1>3. Runners'
  BY ProcAssumption DEF Runners, Running, Unready, Cleaners, Places, PostPCs, WorkerPCs,
         TypeOK, Rows
<1>4. Cleaners'
  BY ProcAssumption DEF Cleaners, Runners, Running, Unready, ReadyHasItsBundle, InTtl,
         Places, PostPCs, WorkerPCs, TypeOK, Rows
<1>5. ReadyHasItsBundle'
  BY ProcAssumption DEF ReadyHasItsBundle, InTtl, Cleaners, Runners, Running, Unready,
         Places, TypeOK, Rows
<1>6. NoBundleIsForgotten'
  BY ProcAssumption DEF NoBundleIsForgotten, Cleaners, Runners, Running, Unready,
         Places, WorkerPCs, TypeOK, Rows
<1> QED
  BY <1>1, <1>2, <1>3, <1>4, <1>5, <1>6

LEMMA FailKeeps ==
  ASSUME IInv, NEW w \in Worker, Fail(w)
  PROVE  IInv'
<1> USE DEF IInv, Proc, Fail, Flip, Becomes, Throws, Strike, End, Goto
<1>1. TypeOK'
  BY FaultsAssumption DEF TypeOK, Rows, Zips, Statuses, Active, PCs, IsActive, Places
<1>2. Places'
  BY ProcAssumption DEF Places, PostPCs, WorkerPCs, TypeOK
<1>3. Runners'
  BY ProcAssumption DEF Runners, Running, Unready, Cleaners, Places, PostPCs, WorkerPCs,
         TypeOK, Rows
<1>4. Cleaners'
  BY ProcAssumption DEF Cleaners, Runners, Running, Unready, ReadyHasItsBundle, InTtl,
         Places, PostPCs, WorkerPCs, TypeOK, Rows
<1>5. ReadyHasItsBundle'
  BY ProcAssumption DEF ReadyHasItsBundle, InTtl, Cleaners, Runners, Running, Unready,
         Places, TypeOK, Rows
<1>6. NoBundleIsForgotten'
  BY ProcAssumption DEF NoBundleIsForgotten, Cleaners, Runners, Running, Unready,
         Places, WorkerPCs, TypeOK, Rows
<1> QED
  BY <1>1, <1>2, <1>3, <1>4, <1>5, <1>6

LEMMA StrandsKeeps ==
  ASSUME IInv, NEW r \in Req, Strands(r)
  PROVE  IInv'
<1> USE DEF IInv, Proc, Strands, Ages, Later, procs
<1>1. TypeOK'
  BY FaultsAssumption DEF TypeOK, Rows, Zips, Statuses, Active, PCs, IsActive, Places
<1>2. Places'
  BY ProcAssumption DEF Places, PostPCs, WorkerPCs, TypeOK
<1>3. Runners'
  BY ProcAssumption DEF Runners, Running, Unready, Cleaners, Places, PostPCs, WorkerPCs,
         TypeOK, Rows
<1>4. Cleaners'
  BY ProcAssumption DEF Cleaners, Runners, Running, Unready, ReadyHasItsBundle, InTtl,
         Places, PostPCs, WorkerPCs, TypeOK, Rows
<1>5. ReadyHasItsBundle'
  BY ProcAssumption DEF ReadyHasItsBundle, InTtl, Cleaners, Runners, Running, Unready,
         Places, TypeOK, Rows
<1>6. NoBundleIsForgotten'
  BY ProcAssumption DEF NoBundleIsForgotten, Cleaners, Runners, Running, Unready,
         Places, WorkerPCs, TypeOK, Rows
<1> QED
  BY <1>1, <1>2, <1>3, <1>4, <1>5, <1>6

LEMMA RunsKeeps ==
  ASSUME IInv, NEW r \in Req, Runs(r)
  PROVE  IInv'
<1> USE DEF IInv, Proc, Runs, Ages, Later, procs
<1>1. TypeOK'
  BY FaultsAssumption DEF TypeOK, Rows, Zips, Statuses, Active, PCs, IsActive, Places
<1>2. Places'
  BY ProcAssumption DEF Places, PostPCs, WorkerPCs, TypeOK
<1>3. Runners'
  BY ProcAssumption DEF Runners, Running, Unready, Cleaners, Places, PostPCs, WorkerPCs,
         TypeOK, Rows
<1>4. Cleaners'
  BY ProcAssumption DEF Cleaners, Runners, Running, Unready, ReadyHasItsBundle, InTtl,
         Places, PostPCs, WorkerPCs, TypeOK, Rows
<1>5. ReadyHasItsBundle'
  BY ProcAssumption DEF ReadyHasItsBundle, InTtl, Cleaners, Runners, Running, Unready,
         Places, TypeOK, Rows
<1>6. NoBundleIsForgotten'
  BY ProcAssumption DEF NoBundleIsForgotten, Cleaners, Runners, Running, Unready,
         Places, WorkerPCs, TypeOK, Rows
<1> QED
  BY <1>1, <1>2, <1>3, <1>4, <1>5, <1>6

LEMMA SlowKeeps ==
  ASSUME IInv, NEW r \in Req, Slow(r)
  PROVE  IInv'
<1> USE DEF IInv, Proc, Slow, Ages, Later, Strike, procs
<1>1. TypeOK'
  BY FaultsAssumption DEF TypeOK, Rows, Zips, Statuses, Active, PCs, IsActive, Places
<1>2. Places'
  BY ProcAssumption DEF Places, PostPCs, WorkerPCs, TypeOK
<1>3. Runners'
  BY ProcAssumption DEF Runners, Running, Unready, Cleaners, Places, PostPCs, WorkerPCs,
         TypeOK, Rows
<1>4. Cleaners'
  BY ProcAssumption DEF Cleaners, Runners, Running, Unready, ReadyHasItsBundle, InTtl,
         Places, PostPCs, WorkerPCs, TypeOK, Rows
<1>5. ReadyHasItsBundle'
  BY ProcAssumption DEF ReadyHasItsBundle, InTtl, Cleaners, Runners, Running, Unready,
         Places, TypeOK, Rows
<1>6. NoBundleIsForgotten'
  BY ProcAssumption DEF NoBundleIsForgotten, Cleaners, Runners, Running, Unready,
         Places, WorkerPCs, TypeOK, Rows
<1> QED
  BY <1>1, <1>2, <1>3, <1>4, <1>5, <1>6

LEMMA RemoveKeeps ==
  ASSUME IInv, NEW r \in Req, Remove(r)
  PROVE  IInv'
<1> USE DEF IInv, Proc, Remove, Write, Strike, Stored, procs
<1>1. TypeOK'
  BY FaultsAssumption DEF TypeOK, Rows, Zips, Statuses, Active, PCs, IsActive, Places
<1>2. Places'
  BY ProcAssumption DEF Places, PostPCs, WorkerPCs, TypeOK
<1>3. Runners'
  BY ProcAssumption DEF Runners, Running, Unready, Cleaners, Places, PostPCs, WorkerPCs,
         TypeOK, Rows
<1>4. Cleaners'
  BY ProcAssumption DEF Cleaners, Runners, Running, Unready, ReadyHasItsBundle, InTtl,
         Places, PostPCs, WorkerPCs, TypeOK, Rows
<1>5. ReadyHasItsBundle'
  BY ProcAssumption DEF ReadyHasItsBundle, InTtl, Cleaners, Runners, Running, Unready,
         Places, TypeOK, Rows
<1>6. NoBundleIsForgotten'
  BY ProcAssumption DEF NoBundleIsForgotten, Cleaners, Runners, Running, Unready,
         Places, WorkerPCs, TypeOK, Rows
<1> QED
  BY <1>1, <1>2, <1>3, <1>4, <1>5, <1>6

LEMMA RedeliverKeeps ==
  ASSUME IInv, NEW w \in Worker, Redeliver(w)
  PROVE  IInv'
<1> USE DEF IInv, Proc, Redeliver, AddJob, Strike, procs
<1>1. TypeOK'
  BY FaultsAssumption DEF TypeOK, IsActive, Places, WorkerPCs
<1>2. Places'
  BY ProcAssumption DEF Places, PostPCs, WorkerPCs, TypeOK
<1>3. Runners'
  BY ProcAssumption DEF Runners, Running, Unready, Cleaners, Places, PostPCs, WorkerPCs,
         TypeOK, Rows
<1>4. Cleaners'
  BY ProcAssumption DEF Cleaners, Runners, Running, Unready, ReadyHasItsBundle, InTtl,
         Places, PostPCs, WorkerPCs, TypeOK, Rows
<1>5. ReadyHasItsBundle'
  BY ProcAssumption DEF ReadyHasItsBundle, InTtl, Cleaners, Runners, Running, Unready,
         Places, TypeOK, Rows
<1>6. NoBundleIsForgotten'
  BY ProcAssumption DEF NoBundleIsForgotten, Cleaners, Runners, Running, Unready,
         Places, WorkerPCs, TypeOK, Rows
<1> QED
  BY <1>1, <1>2, <1>3, <1>4, <1>5, <1>6

LEMMA DieKeeps ==
  ASSUME IInv, NEW q \in Proc, Die(q)
  PROVE  IInv'
<1> USE DEF IInv, Proc, Die, AddJob, Lose, Write, Strike, End, Goto, Stored
<1>1. TypeOK'
  BY FaultsAssumption DEF TypeOK, Zips, PCs, IsActive, Places, PostPCs, WorkerPCs
<1>2. Places'
  BY ProcAssumption DEF Places, PostPCs, WorkerPCs, TypeOK
<1>3. Runners'
  BY ProcAssumption DEF Runners, Running, Unready, Cleaners, Places, PostPCs, WorkerPCs,
         TypeOK, Rows
<1>4. Cleaners'
  BY ProcAssumption DEF Cleaners, Runners, Running, Unready, ReadyHasItsBundle, InTtl,
         Places, PostPCs, WorkerPCs, TypeOK, Rows
<1>5. ReadyHasItsBundle'
  BY ProcAssumption DEF ReadyHasItsBundle, InTtl, Runners, Running, Unready, Places,
         PostPCs, WorkerPCs, TypeOK
<1>6. NoBundleIsForgotten'
  BY ProcAssumption DEF NoBundleIsForgotten, Cleaners, Runners, Running, Unready,
         Places, WorkerPCs, TypeOK, Rows
<1> QED
  BY <1>1, <1>2, <1>3, <1>4, <1>5, <1>6

----------------------------------------------------------------------------
(* The theorems.                                                             *)

THEOREM IndInv == Spec => []IInv
<1>1. ASSUME IInv, [Next]_vars
      PROVE  IInv'
  <2>1. ASSUME NEW p \in Post, PostStep(p) PROVE IInv'
    BY <1>1, <2>1, FindKeeps, CheckExistsKeeps, DeleteBundleKeeps, ExpireRowKeeps,
       InsertRowKeeps, EnqueueKeeps, RollbackKeeps DEF PostStep
  <2>2. ASSUME NEW w \in Worker, WorkerStep(w) PROVE IInv'
    BY <1>1, <2>2, TakeKeeps, ClaimKeeps, LookupKeeps, PutKeeps, RegisterKeeps,
       DeleteOrphanKeeps, FailKeeps DEF WorkerStep
  <2>3. ASSUME Environment PROVE IInv'
    BY <1>1, <2>3, StrandsKeeps, RunsKeeps, SlowKeeps, RemoveKeeps, RedeliverKeeps,
       DieKeeps, PurgeKeeps DEF Environment
  <2> QED
    BY <1>1, <2>1, <2>2, <2>3, StutterKeeps DEF Next
<1> QED
  BY <1>1, InitIInv, PTL DEF Spec

\* The variables keep their types, and a rider has one active export
\* (uq_data_export_requests_user_active is never violated by an UPDATE).
THEOREM TypeCorrect == Spec => []TypeOK
<1>1. IInv => TypeOK
  BY DEF IInv
<1> QED
  BY <1>1, IndInv, PTL

\* A ready row within its TTL has its bundle, unless an operator removed it; a bundle is
\* pointed to by a ready row, held by its runner, or lost in a way the model names.
THEOREM StorageIsConsistent == Spec => []StorageMatchesRows
<1>1. IInv => StorageMatchesRows
  BY DEF IInv, StorageMatchesRows
<1> QED
  BY <1>1, IndInv, PTL
============================================================================
