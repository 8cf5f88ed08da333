------------------------- MODULE StoreChainsProofs -------------------------
(***************************************************************************)
(* Theorems of StoreChains, for every set of riders, flows, keys and jobs, *)
(* however leases lapse: committed chains never go back, what a flow       *)
(* reports of a chain it could not write is true of the chain, the roll-up *)
(* in the users row is what the committed chains say, and two sources that *)
(* both charge have their overlap row.                                     *)
(*                                                                         *)
(* Inv is about fences, locks and chains; TInv adds the types; RInv and    *)
(* OInv rest on TInv and not on each other.                                *)
(***************************************************************************)
EXTENDS StoreChains, FiniteSetTheorems, WellFoundedInduction, TLAPS

ChainType == [owner : Rider \cup {Nobody}, tier : StoreTier \cup {0},
              seen : Nat, end : Nat, renew : BOOLEAN, fence : Nat]

\* The types of what the argument is about.
Types ==
  /\ seq \in Nat /\ fence \in [Rider -> Nat] /\ token \in [Flow -> Nat]
  /\ chain \in [Key -> ChainType]
  /\ rowLock \in [Rider -> Flow \cup {Nobody}] /\ chainLock \in [Key -> Flow \cup {Nobody}]
  /\ pc \in [Flow -> PCs] /\ job \in [Flow -> Jobs \cup {NoJob}]

Missing  == {"classify", "insert", "disambiguate"}
ChainPCs == Missing \cup {"update", "stale", "conflict"}
Writing  == {"rollup", "stamp", "sync"}
Begun(f) == pc[f] \notin {"idle", "acquire"}

Asked == \A f \in Flow : /\ pc[f] # "idle" => job[f] \in Jobs
                         /\ pc[f] \in ChainPCs => job[f].kind = "chain"

\* Tokens differ, and the row's fence is that of the newest holder of its rider; no
\* chain is ahead of its owner's fence.
Fences ==
  /\ \A r \in Rider : fence[r] <= seq
  /\ \A f \in Flow : Begun(f) => token[f] <= fence[rider(f)]
  /\ \A f, g \in Flow : Begun(f) /\ Begun(g) /\ f # g => token[f] # token[g]
  /\ \A k \in Key : chain[k].owner # Nobody => chain[k].fence <= fence[chain[k].owner]

\* A flow about to commit keeps the users row from the next holder, so it is the
\* newest itself.
RowHeld == \A f \in Flow : pc[f] = "sync" => rowLock[rider(f)] = f /\ fence[rider(f)] = token[f]

\* The holder of a chain's row may still write it.
ChainHeld ==
  \A f \in Flow, k \in Key : chainLock[k] = f =>
    /\ pc[f] \in Writing /\ job[f].kind = "chain" /\ job[f].key = k
    /\ chain[k].owner = Nobody \/ Updatable(f)

\* A flow whose UPDATE missed will not find that the chain was its to write.
Missed(f) ==
  LET c == chain[job[f].key]
  IN  c.owner = rider(f) /\ ~FencedOut(f) => c.seen > job[f].seen

Reports ==
  \A f \in Flow :
    /\ pc[f] \in Missing => Missed(f)
    /\ pc[f] = "disambiguate" => chain[job[f].key].owner # Nobody

Inv == Types /\ Asked /\ Fences /\ RowHeld /\ ChainHeld /\ Reports
       /\ ConflictMeansForeign /\ StaleMeansNewer

LEMMA JobFacts ==
  ASSUME NEW j \in Jobs
  PROVE  /\ j.kind \in Kinds /\ j.rider \in Rider /\ Nobody \notin Rider /\ Nobody \notin Flow
         /\ j.kind = "chain" => /\ j.key \in Key /\ j.tier \in StoreTier /\ j.seen \in Nat
                                /\ j.end \in Nat /\ j.renew \in BOOLEAN
  BY JobAssumption, NobodyAssumption

\* A step of one flow that is not its first or last but one, and writes no chain.
LEMMA Moves ==
  ASSUME Inv, NEW f \in Flow, NEW to \in PCs \ {"idle", "acquire", "sync"},
         Goto(f, to), UNCHANGED <<fence, seq, chain, job, token>>, Begun(f),
         (UNCHANGED <<rowLock, chainLock>> /\ (pc[f] \in Writing => to \in Writing)) \/ Unlock(f),
         to \in ChainPCs => job[f].kind = "chain",
         to \in Missing => Missed(f),
         to = "disambiguate" => chain[job[f].key].owner # Nobody,
         to = "conflict" => chain[job[f].key].owner \in Rider \ {rider(f)},
         to = "stale" => /\ chain[job[f].key].owner = rider(f)
                         /\ chain[job[f].key].seen > job[f].seen
  PROVE  Inv'
<1>1. pc' \in [Flow -> PCs] /\ pc'[f] = to /\ \A g \in Flow \ {f} : pc'[g] = pc[g]
  BY DEF Goto, Inv, Types
<1>2. /\ \A r \in Rider : rowLock'[r] = rowLock[r] \/ (rowLock[r] = f /\ rowLock'[r] = Nobody)
      /\ \A k \in Key : \/ chainLock'[k] = chainLock[k] /\ (chainLock[k] = f => to \in Writing)
                        \/ chainLock[k] = f /\ chainLock'[k] = Nobody
      /\ rowLock' \in [Rider -> Flow \cup {Nobody}] /\ chainLock' \in [Key -> Flow \cup {Nobody}]
  <2>1. CASE UNCHANGED <<rowLock, chainLock>> /\ (pc[f] \in Writing => to \in Writing)
    BY <2>1 DEF Inv, Types, ChainHeld
  <2>2. CASE Unlock(f)
    BY <2>2 DEF Unlock, Inv, Types
  <2> QED
    BY <2>1, <2>2
<1>3. Types'
  BY <1>1, <1>2 DEF Inv, Types
<1>4. Asked'
  BY <1>1 DEF Inv, Asked, Begun
<1>5. Fences'
  BY <1>1 DEF Inv, Fences, Begun, rider
<1>6. RowHeld'
  <2> SUFFICES ASSUME NEW g \in Flow, pc'[g] = "sync"
               PROVE  rowLock'[rider(g)] = g /\ fence[rider(g)] = token[g]
    BY DEF RowHeld, rider
  <2>1. g # f /\ pc[g] = "sync" /\ job[g] \in Jobs
    BY <1>1 DEF Inv, Asked
  <2>2. rider(g) \in Rider /\ rowLock[rider(g)] = g /\ fence[rider(g)] = token[g]
    BY <2>1, JobFacts DEF rider, Inv, RowHeld
  <2> QED
    BY <1>2, <2>1, <2>2
<1>7. ChainHeld'
  <2> SUFFICES ASSUME NEW g \in Flow, NEW k \in Key, chainLock'[k] = g
               PROVE  (/\ pc[g] \in Writing /\ job[g].kind = "chain" /\ job[g].key = k
                       /\ chain[k].owner = Nobody \/ Updatable(g))'
    BY DEF ChainHeld
  <2>1. chainLock[k] = g /\ (g = f => to \in Writing)
    BY <1>2, NobodyAssumption
  <2>2. Updatable(g)' <=> Updatable(g)
    BY DEF Updatable, rider
  <2> QED
    BY <1>1, <2>1, <2>2 DEF Inv, ChainHeld
<1>8. Reports'
  <2>1. \A g \in Flow : Missed(g)' <=> Missed(g)
    BY DEF Missed, FencedOut, rider
  <2> QED
    BY <1>1, <2>1 DEF Inv, Reports
<1>9. ConflictMeansForeign' /\ StaleMeansNewer'
  BY <1>1 DEF Inv, ConflictMeansForeign, StaleMeansNewer, rider
<1> QED
  BY <1>3, <1>4, <1>5, <1>6, <1>7, <1>8, <1>9 DEF Inv

\* What the commit of a chain does to the chains: it writes the one row the flow has
\* locked, with the fence of its rider.
LEMMA Commits ==
  ASSUME Inv, NEW f \in Flow, CommitChain(f)
  PROVE  /\ chain' \in [Key -> ChainType]
         /\ \A k \in Key : IF chainLock[k] = f
              THEN /\ chain'[k] = Written(f) /\ job[f].key = k
                   /\ chain[k].owner # Nobody =>
                        chain[k].owner = rider(f) /\ chain[k].seen <= job[f].seen
                        /\ chain[k].fence <= token[f]
              ELSE chain'[k] = chain[k]
         /\ Written(f).owner = rider(f) /\ Written(f).seen = job[f].seen
         /\ Written(f).fence = token[f]
         /\ job[f] \in Jobs /\ rider(f) \in Rider /\ fence[rider(f)] = token[f] /\ pc[f] = "sync"
         /\ UNCHANGED <<fence, seq, job, token>> /\ Unlock(f) /\ Goto(f, "claimed")
<1>1. /\ pc[f] = "sync" /\ job[f].kind = "chain" /\ chain' = Visible(f)
      /\ UNCHANGED <<fence, seq, job, token>> /\ Unlock(f) /\ Goto(f, "claimed")
  BY DEF CommitChain
<1>2. job[f] \in Jobs /\ rider(f) \in Rider /\ fence[rider(f)] = token[f]
  BY <1>1, JobFacts DEF Inv, Asked, RowHeld, rider
<1>3. /\ Written(f) \in ChainType /\ Written(f).owner = rider(f)
      /\ Written(f).seen = job[f].seen /\ Written(f).fence = token[f]
  BY <1>1, <1>2, JobFacts DEF Written, ChainType, Inv, Types
<1>4. \A k \in Key : chain'[k] = IF chainLock[k] = f THEN Written(f) ELSE chain[k]
  BY <1>1 DEF Visible
<1>5. chain' \in [Key -> ChainType]
  BY <1>1, <1>3 DEF Visible, Inv, Types
<1>6. \A k \in Key : chainLock[k] = f =>
        job[f].key = k /\ (chain[k].owner = Nobody \/ Updatable(f))
  BY DEF Inv, ChainHeld
<1> QED
  BY <1>1, <1>2, <1>3, <1>4, <1>5, <1>6 DEF Updatable

LEMMA CommitKeeps == ASSUME Inv, NEW f \in Flow, CommitChain(f) PROVE Inv'
<1>1. /\ pc' \in [Flow -> PCs] /\ pc'[f] = "claimed" /\ \A g \in Flow \ {f} : pc'[g] = pc[g]
      /\ pc[f] = "sync"
  BY Commits DEF Goto, Inv, Types, PCs, Outcomes
<1>2. /\ \A r \in Rider : rowLock'[r] = rowLock[r] \/ (rowLock[r] = f /\ rowLock'[r] = Nobody)
      /\ \A k \in Key : (chainLock'[k] = chainLock[k] /\ chainLock[k] # f) \/ chainLock'[k] = Nobody
      /\ rowLock' \in [Rider -> Flow \cup {Nobody}] /\ chainLock' \in [Key -> Flow \cup {Nobody}]
  BY Commits DEF Unlock, Inv, Types
<1>3. Types'
  BY <1>1, <1>2, Commits DEF Inv, Types
<1>4. Asked'
  BY <1>1, Commits DEF Inv, Asked, ChainPCs, Missing
<1>5. Fences'
  <2>1. /\ \A r \in Rider : fence'[r] <= seq'
        /\ \A g \in Flow : Begun(g)' => token'[g] <= fence'[rider(g)']
        /\ \A g, h \in Flow : Begun(g)' /\ Begun(h)' /\ g # h => token'[g] # token'[h]
    BY <1>1, Commits DEF Inv, Fences, Begun, rider
  <2>2. \A k \in Key : chain'[k].owner # Nobody => chain'[k].fence <= fence'[chain'[k].owner]
    BY Commits DEF Inv, Fences, Types
  <2> QED
    BY <2>1, <2>2 DEF Fences
<1>6. RowHeld'
  <2> SUFFICES ASSUME NEW g \in Flow, pc'[g] = "sync"
               PROVE  rowLock'[rider(g)] = g /\ fence[rider(g)] = token[g]
    BY Commits DEF RowHeld, rider
  <2>1. g # f /\ pc[g] = "sync" /\ job[g] \in Jobs
    BY <1>1 DEF Inv, Asked
  <2>2. rider(g) \in Rider /\ rowLock[rider(g)] = g /\ fence[rider(g)] = token[g]
    BY <2>1, JobFacts DEF rider, Inv, RowHeld
  <2> QED
    BY <1>2, <2>1, <2>2
<1>7. ChainHeld'
  <2> SUFFICES ASSUME NEW g \in Flow, NEW k \in Key, chainLock'[k] = g
               PROVE  (/\ pc[g] \in Writing /\ job[g].kind = "chain" /\ job[g].key = k
                       /\ chain[k].owner = Nobody \/ Updatable(g))'
    BY DEF ChainHeld
  <2>1. chainLock[k] = g /\ g # f
    BY <1>2, NobodyAssumption
  <2>2. /\ pc[g] \in Writing /\ job[g].kind = "chain" /\ job[g].key = k
        /\ chain[k].owner = Nobody \/ Updatable(g)
    BY <2>1 DEF Inv, ChainHeld
  <2>3. chain'[k] = chain[k] /\ UNCHANGED <<job, token>>
    BY <2>1, Commits
  <2>4. Updatable(g)' <=> Updatable(g)
    BY <2>2, <2>3 DEF Updatable, rider
  <2> QED
    BY <1>1, <2>1, <2>2, <2>3, <2>4
\* A flow of the same rider is older than the one that commits, and so fenced out.
<1>8. ASSUME NEW g \in Flow \ {f}, Begun(g), rider(g) = rider(f) PROVE FencedOut(g)
  <2>1. token[g] <= fence[rider(f)] /\ token[g] # token[f]
    BY <1>8, <1>1 DEF Inv, Fences, Begun
  <2> QED
    BY <2>1, <1>8, Commits DEF FencedOut, Inv, Types
<1>9. ASSUME NEW g \in Flow, pc'[g] \in ChainPCs
      PROVE  /\ g # f /\ pc[g] = pc'[g] /\ Begun(g) /\ job[g].key \in Key
             /\ job'[g] = job[g] /\ FencedOut(g)' = FencedOut(g)
             /\ job[g].seen \in Nat /\ rider(g) \in Rider
  <2>1. g # f /\ pc[g] = pc'[g] /\ job[g] \in Jobs /\ job[g].kind = "chain"
    BY <1>9, <1>1 DEF ChainPCs, Missing, Inv, Asked
  <2> QED
    BY <2>1, <1>9, JobFacts, Commits DEF FencedOut, rider, Begun, ChainPCs, Missing
<1>10. Reports'
  <2> SUFFICES ASSUME NEW g \in Flow, pc'[g] \in Missing
               PROVE  Missed(g)' /\ (pc'[g] = "disambiguate" => chain'[job'[g].key].owner # Nobody)
    BY DEF Reports, Missing
  <2>1. pc'[g] \in ChainPCs
    BY DEF ChainPCs
  <2>2. Missed(g) /\ (pc[g] = "disambiguate" => chain[job[g].key].owner # Nobody)
    BY <1>9, <2>1 DEF Inv, Reports
  <2>3. CASE chainLock[job[g].key] = f
    <3>1. chain'[job'[g].key] = Written(f) /\ Written(f).owner = rider(f) /\ rider(f) # Nobody
      BY <2>1, <2>3, <1>9, Commits, NobodyAssumption
    <3>2. Missed(g)'
      BY <3>1, <1>8, <1>9, <2>1 DEF Missed, rider
    <3> QED
      BY <3>1, <3>2
  <2>4. CASE chainLock[job[g].key] # f
    <3>1. chain'[job'[g].key] = chain[job[g].key]
      BY <2>1, <2>4, <1>9, Commits
    <3> QED
      BY <3>1, <2>1, <2>2, <1>9 DEF Missed, rider
  <2> QED
    BY <2>3, <2>4
<1>11. ConflictMeansForeign'
  <2> SUFFICES ASSUME NEW g \in Flow, pc'[g] = "conflict"
               PROVE  chain'[job'[g].key].owner \in Rider \ {rider(g)'}
    BY DEF ConflictMeansForeign
  <2>1. pc'[g] \in ChainPCs
    BY DEF ChainPCs
  <2>2. chain[job[g].key].owner \in Rider \ {rider(g)} /\ chain[job[g].key].owner # Nobody
    BY <1>9, <2>1, NobodyAssumption DEF Inv, ConflictMeansForeign
  <2>3. chain'[job[g].key].owner = chain[job[g].key].owner
    BY <2>1, <2>2, <1>9, Commits
  <2> QED
    BY <2>1, <2>2, <2>3, <1>9 DEF rider
<1>12. StaleMeansNewer'
  <2> SUFFICES ASSUME NEW g \in Flow, pc'[g] = "stale"
               PROVE  /\ chain'[job'[g].key].owner = rider(g)'
                      /\ chain'[job'[g].key].seen > job'[g].seen
    BY DEF StaleMeansNewer
  <2>1. pc'[g] \in ChainPCs
    BY DEF ChainPCs
  <2>2. /\ chain[job[g].key].owner = rider(g) /\ chain[job[g].key].seen > job[g].seen
        /\ chain[job[g].key].owner # Nobody /\ chain[job[g].key].seen \in Nat
    BY <1>9, <2>1, NobodyAssumption DEF Inv, StaleMeansNewer, Types, ChainType
  <2>3. chain'[job[g].key].owner = rider(g) /\ chain'[job[g].key].seen >= chain[job[g].key].seen
    BY <2>1, <2>2, <1>9, Commits DEF Inv, Types, ChainType
  <2>4. chain'[job[g].key].seen \in Nat
    BY <2>1, <1>3, <1>9 DEF Types, ChainType
  <2> QED
    BY <2>1, <2>2, <2>3, <2>4, <1>9 DEF rider
<1> QED
  BY <1>3, <1>4, <1>5, <1>6, <1>7, <1>10, <1>11, <1>12 DEF Inv

LEMMA BeginKeeps == ASSUME Inv, NEW f \in Flow, Begin(f) PROVE Inv'
<1>1. PICK j \in Jobs : job' = [job EXCEPT ![f] = j]
  BY DEF Begin
<1>2. /\ pc[f] = "idle" /\ pc' = [pc EXCEPT ![f] = "acquire"]
      /\ UNCHANGED <<fence, seq, chain, token, rowLock, chainLock>>
  BY DEF Begin, Goto, subVars, rowVars, lockVars
<1>3. /\ pc'[f] = "acquire" /\ job'[f] = j /\ "acquire" \in PCs
      /\ \A g \in Flow \ {f} : pc'[g] = pc[g] /\ job'[g] = job[g]
  BY <1>1, <1>2 DEF Inv, Types, PCs
<1>4. Types' /\ Asked'
  BY <1>1, <1>2, <1>3 DEF Inv, Types, Asked, ChainPCs, Missing
<1>5. Fences'
  BY <1>2, <1>3 DEF Inv, Fences, Begun, rider
<1>6. RowHeld'
  BY <1>2, <1>3 DEF Inv, RowHeld, rider
<1>7. ChainHeld'
  BY <1>2, <1>3 DEF Inv, ChainHeld, Updatable, rider, Writing
<1>8. Reports'
  BY <1>2, <1>3 DEF Inv, Reports, Missed, FencedOut, rider, Missing
<1>9. ConflictMeansForeign' /\ StaleMeansNewer'
  BY <1>2, <1>3 DEF Inv, ConflictMeansForeign, StaleMeansNewer, rider
<1> QED
  BY <1>4, <1>5, <1>6, <1>7, <1>8, <1>9 DEF Inv

\* A new holder is the newest, and no flow of its rider is about to commit.
LEMMA AcquireKeeps == ASSUME Inv, NEW f \in Flow, Acquire(f) PROVE Inv'
<1>1. PICK to \in {"update", "rollup", "sweep", "fetch"} :
        pc' = [pc EXCEPT ![f] = to] /\ (to = "update" => job[f].kind = "chain")
  BY DEF Acquire, Goto
<1>2. /\ pc[f] = "acquire" /\ rowLock[rider(f)] = Nobody /\ rider(f) \in Rider
      /\ seq' = seq + 1 /\ token' = [token EXCEPT ![f] = seq + 1]
      /\ fence' = [fence EXCEPT ![rider(f)] = seq + 1]
      /\ UNCHANGED <<chain, job, rowLock, chainLock>>
  BY JobFacts DEF Acquire, lockVars, Inv, Asked, rider
<1>3. /\ pc'[f] = to /\ to \in PCs /\ \A g \in Flow \ {f} : pc'[g] = pc[g]
      /\ token'[f] = seq + 1 /\ \A g \in Flow \ {f} : token'[g] = token[g]
      /\ fence'[rider(f)] = seq + 1 /\ \A r \in Rider \ {rider(f)} : fence'[r] = fence[r]
      /\ \A r \in Rider : fence[r] <= fence'[r] /\ fence'[r] <= seq + 1 /\ fence'[r] \in Nat
      /\ seq \in Nat
  <2>1. seq \in Nat /\ \A r \in Rider : fence[r] \in Nat /\ fence[r] <= seq
    BY DEF Inv, Types, Fences
  <2> QED
    BY <1>1, <1>2, <2>1 DEF Inv, Types, PCs
<1>4. Types' /\ Asked'
  BY <1>1, <1>2, <1>3 DEF Inv, Types, Asked, ChainPCs, Missing
<1>o. \A g \in Flow : pc[g] # "idle" => rider(g) \in Rider
  BY JobFacts DEF Inv, Asked, rider
<1>5. Fences'
  <2>1. ASSUME NEW g \in Flow \ {f}, Begun(g)'
        PROVE  token'[g] <= fence'[rider(g)] /\ token'[g] <= seq /\ token'[g] \in Nat
    <3>1. rider(g) \in Rider /\ token[g] <= fence[rider(g)] /\ token'[g] = token[g]
      BY <2>1, <1>3, <1>o DEF Inv, Fences, Begun
    <3>2. fence[rider(g)] <= seq /\ fence[rider(g)] <= fence'[rider(g)] /\ fence[rider(g)] \in Nat
          /\ token[g] \in Nat
      BY <3>1, <1>3 DEF Inv, Types, Fences
    <3> QED
      BY <3>1, <3>2, <1>3
  <2>2. \A g, h \in Flow : Begun(g)' /\ Begun(h)' /\ g # h => token'[g] # token'[h]
    BY <2>1, <1>3 DEF Inv, Fences, Begun
  <2>3. \A k \in Key : chain[k].owner # Nobody => chain[k].fence <= fence'[chain[k].owner]
    <3> SUFFICES ASSUME NEW k \in Key, chain[k].owner # Nobody
                 PROVE  chain[k].fence <= fence'[chain[k].owner]
      OBVIOUS
    <3>1. /\ chain[k].owner \in Rider /\ chain[k].fence \in Nat
          /\ chain[k].fence <= fence[chain[k].owner] /\ fence[chain[k].owner] \in Nat
      BY DEF Inv, Types, ChainType, Fences
    <3> QED
      BY <3>1, <1>3
  <2>4. \A g \in Flow : Begun(g)' => token'[g] <= fence'[rider(g)]
    BY <2>1, <1>3
  <2> QED
    BY <2>2, <2>3, <2>4, <1>2, <1>3 DEF Fences, rider
<1>6. RowHeld'
  <2> SUFFICES ASSUME NEW g \in Flow, pc'[g] = "sync"
               PROVE  rowLock[rider(g)] = g /\ fence'[rider(g)] = token'[g]
    BY <1>2 DEF RowHeld, rider
  <2>1. g # f /\ pc[g] = "sync"
    BY <1>1, <1>3
  <2>2. rider(g) \in Rider \ {rider(f)} /\ rowLock[rider(g)] = g /\ fence[rider(g)] = token[g]
    BY <2>1, <1>2, <1>o, NobodyAssumption DEF Inv, RowHeld
  <2> QED
    BY <2>1, <2>2, <1>3
<1>7. ChainHeld'
  <2> SUFFICES ASSUME NEW g \in Flow, NEW k \in Key, chainLock[k] = g
               PROVE  (/\ pc[g] \in Writing /\ job[g].kind = "chain" /\ job[g].key = k
                       /\ chain[k].owner = Nobody \/ Updatable(g))'
    BY <1>2 DEF ChainHeld
  <2>1. g # f
    BY <1>2 DEF Inv, ChainHeld, Writing
  <2>2. Updatable(g)' <=> Updatable(g)
    BY <2>1, <1>2, <1>3 DEF Updatable, rider
  <2> QED
    BY <2>1, <2>2, <1>2, <1>3 DEF Inv, ChainHeld
<1>8. Reports'
  <2> SUFFICES ASSUME NEW g \in Flow, pc'[g] \in Missing
               PROVE  Missed(g)' /\ (pc'[g] = "disambiguate" => chain[job[g].key].owner # Nobody)
    BY <1>2 DEF Reports, Missing
  <2>1. g # f /\ pc[g] = pc'[g] /\ rider(g) \in Rider
    BY <1>1, <1>3, <1>o DEF Missing
  <2>2. FencedOut(g) => FencedOut(g)'
    <3>1. fence[rider(g)] <= fence'[rider(g)] /\ fence[rider(g)] \in Nat /\ fence'[rider(g)] \in Nat
          /\ token[g] \in Nat /\ token'[g] = token[g] /\ rider(g)' = rider(g)
      BY <2>1, <1>2, <1>3 DEF Inv, Types, rider
    <3> QED
      BY <3>1 DEF FencedOut
  <2>3. Missed(g) => Missed(g)'
    BY <2>1, <2>2, <1>2 DEF Missed, rider
  <2> QED
    BY <2>1, <2>3 DEF Inv, Reports
<1>9. ConflictMeansForeign' /\ StaleMeansNewer'
  BY <1>1, <1>2, <1>3 DEF Inv, ConflictMeansForeign, StaleMeansNewer, rider
<1> QED
  BY <1>4, <1>5, <1>6, <1>7, <1>8, <1>9 DEF Inv

\* The row of a chain that is free to write is locked.
LEMMA WriteKeeps ==
  ASSUME Inv, NEW f \in Flow, pc[f] \in {"update", "insert"}, WriteChain(f),
         chain[job[f].key].owner = Nobody \/ Updatable(f)
  PROVE  Inv'
<1>1. /\ job[f].kind = "chain" /\ job[f].key \in Key
      /\ chainLock' = [chainLock EXCEPT ![job[f].key] = f] /\ pc' = [pc EXCEPT ![f] = "rollup"]
      /\ UNCHANGED <<fence, seq, chain, job, token, rowLock>>
  BY JobFacts DEF WriteChain, Goto, flowVars, subVars, rowVars, Inv, Asked, ChainPCs, Missing
<1>2. pc'[f] = "rollup" /\ "rollup" \in PCs /\ \A g \in Flow \ {f} : pc'[g] = pc[g]
  BY <1>1 DEF Inv, Types, PCs
<1>3. Types' /\ Asked'
  BY <1>1, <1>2 DEF Inv, Types, Asked, ChainPCs, Missing
<1>4. Fences' /\ RowHeld'
  BY <1>1, <1>2 DEF Inv, Fences, RowHeld, Begun, rider
<1>5. ChainHeld'
  <2>1. \A g \in Flow : Updatable(g)' <=> Updatable(g)
    BY <1>1 DEF Updatable, rider
  <2> QED
    BY <2>1, <1>1, <1>2 DEF Inv, ChainHeld, Types, Writing
<1>6. Reports'
  <2>1. \A g \in Flow : Missed(g)' <=> Missed(g)
    BY <1>1 DEF Missed, FencedOut, rider
  <2> QED
    BY <2>1, <1>1, <1>2 DEF Inv, Reports, Missing
<1>7. ConflictMeansForeign' /\ StaleMeansNewer'
  BY <1>1, <1>2 DEF Inv, ConflictMeansForeign, StaleMeansNewer, rider
<1> QED
  BY <1>3, <1>4, <1>5, <1>6, <1>7 DEF Inv

\* The fence-guarded UPDATE of the roll-up finds its own fence in the row.
LEMMA StampKeeps == ASSUME Inv, NEW f \in Flow, StampRollup(f) PROVE Inv'
<1> DEFINE r == rider(f)
<1>1. /\ pc[f] = "stamp" /\ rowLock[r] = Nobody /\ r \in Rider /\ Begun(f)
      /\ UNCHANGED <<fence, seq, chain, job, token>>
  BY JobFacts DEF StampRollup, subVars, rowVars, flowVars, Inv, Asked, rider, Begun
<1>2. CASE FencedOut(f)
  <2>1. Unlock(f) /\ Goto(f, "busy")
    BY <1>2 DEF StampRollup
  <2>2. "busy" \in PCs \ {"idle", "acquire", "sync"} /\ "busy" \notin ChainPCs
        /\ "busy" \notin Missing
    BY DEF PCs, Outcomes, ChainPCs, Missing
  <2> QED
    BY <1>1, <2>1, <2>2, Moves
<1>3. CASE ~FencedOut(f)
  <2>1. /\ rowLock' = [rowLock EXCEPT ![r] = f] /\ pc' = [pc EXCEPT ![f] = "sync"]
        /\ chainLock' = chainLock
    BY <1>3 DEF StampRollup, Goto
  <2>2. pc'[f] = "sync" /\ "sync" \in PCs /\ \A g \in Flow \ {f} : pc'[g] = pc[g]
    BY <2>1 DEF Inv, Types, PCs
  <2>3. Types' /\ Asked'
    BY <1>1, <2>1, <2>2 DEF Inv, Types, Asked, ChainPCs, Missing
  <2>4. Fences'
    BY <1>1, <2>2 DEF Inv, Fences, Begun, rider
  <2>5. fence[r] = token[f]
    <3>1. token[f] <= fence[r] /\ fence[r] \in Nat /\ token[f] \in Nat /\ ~(fence[r] > token[f])
      BY <1>1, <1>3 DEF Inv, Fences, Types, FencedOut
    <3> QED
      BY <3>1
  <2>6. RowHeld'
    <3> SUFFICES ASSUME NEW g \in Flow, pc'[g] = "sync"
                 PROVE  rowLock'[rider(g)] = g /\ fence[rider(g)] = token[g]
      BY <1>1 DEF RowHeld, rider
    <3>1. CASE g = f
      BY <3>1, <1>1, <2>1, <2>5 DEF Inv, Types
    <3>2. CASE g # f
      <4>1. rowLock[rider(g)] = g /\ fence[rider(g)] = token[g] /\ rider(g) # r
        BY <3>2, <1>1, <2>2, NobodyAssumption DEF Inv, RowHeld
      <4>2. rider(g) \in Rider
        BY <3>2, <2>2, JobFacts DEF Inv, Asked, rider
      <4> QED
        BY <4>1, <4>2, <2>1
    <3> QED
      BY <3>1, <3>2
  <2>7. ChainHeld'
    <3>1. \A g \in Flow : Updatable(g)' <=> Updatable(g)
      BY <1>1 DEF Updatable, rider
    <3> QED
      BY <3>1, <1>1, <2>1, <2>2 DEF Inv, ChainHeld, Writing
  <2>8. Reports'
    <3>1. \A g \in Flow : Missed(g)' <=> Missed(g)
      BY <1>1 DEF Missed, FencedOut, rider
    <3> QED
      BY <3>1, <1>1, <2>2 DEF Inv, Reports, Missing
  <2>9. ConflictMeansForeign' /\ StaleMeansNewer'
    BY <1>1, <2>2 DEF Inv, ConflictMeansForeign, StaleMeansNewer, rider
  <2> QED
    BY <2>3, <2>4, <2>6, <2>7, <2>8, <2>9 DEF Inv
<1> QED
  BY <1>2, <1>3

LEMMA Still ==
  ASSUME Inv, UNCHANGED <<fence, seq, chain, job, token, rowLock, chainLock, pc>>
  PROVE  Inv'
<1>1. \A g \in Flow : (Updatable(g)' <=> Updatable(g)) /\ (Missed(g)' <=> Missed(g))
  BY DEF Updatable, Missed, FencedOut, rider
<1>2. Types' /\ Asked' /\ Fences' /\ RowHeld'
  BY DEF Inv, Types, Asked, Fences, RowHeld, Begun, rider
<1>3. ChainHeld' /\ Reports'
  BY <1>1 DEF Inv, ChainHeld, Reports
<1>4. ConflictMeansForeign' /\ StaleMeansNewer'
  BY DEF Inv, ConflictMeansForeign, StaleMeansNewer, rider
<1> QED
  BY <1>2, <1>3, <1>4 DEF Inv

\* Whoever finds its chain taken learns the truth about it.
LEMMA ClassifyKeeps == ASSUME Inv, NEW f \in Flow, Classify(f) \/ Disambiguate(f) PROVE Inv'
<1> DEFINE c == chain[job[f].key]
           to == IF c.owner # rider(f)
                 THEN IF pc[f] = "classify" THEN "insert" ELSE "conflict"
                 ELSE IF FencedOut(f) THEN "busy" ELSE "stale"
<1>1. /\ pc[f] \in {"classify", "disambiguate"} /\ Goto(f, to)
      /\ UNCHANGED <<fence, seq, chain, job, token, rowLock, chainLock>>
  BY DEF Classify, Disambiguate, subVars, rowVars, lockVars, flowVars
<1>2. /\ job[f].kind = "chain" /\ job[f].key \in Key /\ Begun(f) /\ pc[f] \notin Writing
      /\ Missed(f) /\ (pc[f] = "disambiguate" => c.owner # Nobody)
  BY <1>1, JobFacts DEF Inv, Asked, Reports, Missing, ChainPCs, Begun, Writing
<1>3. c.owner \in Rider \cup {Nobody}
  BY <1>2 DEF Inv, Types, ChainType
<1>4. c.owner = rider(f) /\ ~FencedOut(f) => c.seen > job[f].seen
  BY <1>2 DEF Missed
<1> HIDE DEF c
<1>5. to \in PCs \ {"idle", "acquire", "sync"}
  BY DEF PCs, Outcomes
<1>6. /\ to = "conflict" => c.owner \in Rider \ {rider(f)}
      /\ to = "stale" => c.owner = rider(f) /\ c.seen > job[f].seen
      /\ to # "disambiguate"
  BY <1>1, <1>2, <1>3, <1>4
<1> HIDE DEF to
<1> QED
  BY <1>1, <1>2, <1>5, <1>6, Moves DEF c

LEMMA InvKept == Inv /\ [Next]_vars => Inv'
<1> SUFFICES ASSUME Inv, [Next]_vars PROVE Inv'
  OBVIOUS
<1> USE DEF subVars, rowVars, lockVars, flowVars
<1>1. ASSUME NEW f \in Flow, UpdateMisses(f) PROVE Inv'
  <2>1. /\ pc[f] = "update" /\ ~Updatable(f) /\ Goto(f, "classify")
        /\ UNCHANGED <<fence, seq, chain, job, token, rowLock, chainLock>>
    BY <1>1 DEF UpdateMisses
  <2>2. job[f].kind = "chain" /\ job[f] \in Jobs /\ job[f].key \in Key /\ job[f].seen \in Nat
    BY <2>1, JobFacts DEF Inv, Asked, ChainPCs
  <2>3. Missed(f)
    <3> SUFFICES ASSUME chain[job[f].key].owner = rider(f), ~FencedOut(f)
                 PROVE  chain[job[f].key].seen > job[f].seen
      BY DEF Missed
    <3>1. rider(f) \in Rider /\ rider(f) # Nobody
      BY <2>2, JobFacts DEF rider
    <3>2. chain[job[f].key].fence <= fence[rider(f)] /\ chain[job[f].key].fence \in Nat
          /\ chain[job[f].key].seen \in Nat
      BY <2>2, <3>1 DEF Inv, Fences, Types, ChainType
    <3>3. chain[job[f].key].fence <= token[f]
      <4>1. fence[rider(f)] \in Nat /\ token[f] \in Nat /\ ~(fence[rider(f)] > token[f])
        BY <3>1 DEF Inv, Types, FencedOut
      <4> QED
        BY <3>2, <4>1
    <3> QED
      BY <2>1, <2>2, <3>2, <3>3 DEF Updatable
  <2>4. "classify" \in PCs \ {"idle", "acquire", "sync"} /\ Begun(f) /\ pc[f] \notin Writing
    BY <2>1 DEF PCs, Begun, Writing
  <2> QED
    BY <2>1, <2>2, <2>3, <2>4, Moves
<1>2. ASSUME NEW f \in Flow, InsertClashes(f) PROVE Inv'
  <2>1. /\ pc[f] = "insert" /\ chain[job[f].key].owner # Nobody /\ Goto(f, "disambiguate")
        /\ UNCHANGED <<fence, seq, chain, job, token, rowLock, chainLock>>
    BY <1>2 DEF InsertClashes
  <2>2. job[f].kind = "chain" /\ Missed(f)
    BY <2>1 DEF Inv, Asked, Reports, ChainPCs, Missing
  <2>3. "disambiguate" \in PCs \ {"idle", "acquire", "sync"} /\ Begun(f) /\ pc[f] \notin Writing
    BY <2>1 DEF PCs, Begun, Writing
  <2> QED
    BY <2>1, <2>2, <2>3, Moves
<1>3. ASSUME NEW f \in Flow, ChainStep(f) PROVE Inv'
  BY <1>1, <1>2, <1>3, ClassifyKeeps, CommitKeeps, WriteKeeps
     DEF ChainStep, UpdateChain, InsertChain
\* The other steps only move on, and do not end up among the outcomes of a chain.
<1>m. ASSUME NEW f \in Flow,
             NEW to \in {"stamp", "done", "busy", "settle", "stripeSync", "late", "crashed"},
             Goto(f, to), UNCHANGED <<fence, seq, chain, job, token>>, Begun(f),
             (UNCHANGED <<rowLock, chainLock>> /\ (pc[f] \in Writing => to = "stamp")) \/ Unlock(f)
      PROVE  Inv'
  <2>1. /\ to \in PCs \ {"idle", "acquire", "sync"} /\ to \notin ChainPCs /\ to \notin Missing
        /\ to = "stamp" => to \in Writing
    BY DEF PCs, Outcomes, ChainPCs, Missing, Writing
  <2> QED
    BY <1>m, <2>1, Moves DEF ChainPCs
<1>4. ASSUME NEW f \in Flow, RollupStep(f) PROVE Inv'
  <2>1. CASE ReadRollup(f)
    BY <2>1, <1>m DEF ReadRollup, Begun
  <2>2. CASE CommitRecompute(f)
    BY <2>2, <1>m DEF CommitRecompute, Begun
  <2> QED
    BY <2>1, <2>2, <1>4, StampKeeps DEF RollupStep
<1>5. ASSUME NEW f \in Flow, Sweep(f) PROVE Inv'
  BY <1>5, <1>m DEF Sweep, Begun, Writing
<1>6. ASSUME NEW f \in Flow, StripeStep(f) PROVE Inv'
  <2>1. CASE Fetch(f)
    BY <2>1, <1>m DEF Fetch, Begun, Writing
  <2>2. CASE Settle(f)
    BY <2>2, <1>m DEF Settle, Begun, Writing
  <2>3. CASE StripeSync(f)
    BY <2>3, <1>m DEF StripeSync, Begun, Writing
  <2> QED
    BY <2>1, <2>2, <2>3, <1>6 DEF StripeStep
<1>7. ASSUME NEW f \in Flow, Crash(f) PROVE Inv'
  BY <1>7, <1>m DEF Crash, Running, Begun
<1>8. ASSUME Tick \/ AtRest \/ (\E r \in Rider : SubscriptionMoves(r)) \/ UNCHANGED vars PROVE Inv'
  BY <1>8, Still DEF Tick, AtRest, SubscriptionMoves, vars
<1> QED
  BY <1>3, <1>4, <1>5, <1>6, <1>7, <1>8, BeginKeeps, AcquireKeeps DEF Next

LEMMA InvStart == Init => Inv
<1> SUFFICES ASSUME Init PROVE Inv
  OBVIOUS
<1>1. /\ \A f \in Flow : pc[f] = "idle"
      /\ \A k \in Key : chainLock[k] = Nobody /\ chain[k].owner = Nobody
      /\ Nobody \notin Flow
  BY NobodyAssumption DEF Init, NoChain
<1>2. Types
  BY DEF Init, Types, PCs, NoChain, ChainType, NoEnd
<1>3. Asked /\ Fences /\ RowHeld /\ ChainHeld /\ Reports
  BY <1>1 DEF Init, Asked, Fences, RowHeld, ChainHeld, Reports, Begun, ChainPCs, Missing
<1>4. ConflictMeansForeign /\ StaleMeansNewer
  BY <1>1 DEF ConflictMeansForeign, StaleMeansNewer
<1> QED
  BY <1>2, <1>3, <1>4 DEF Inv

\* A flow that reports a chain as another rider's is right: it is, and stays so.
THEOREM ConflictsAreReal == Spec => []ConflictMeansForeign
<1>1. Inv => ConflictMeansForeign
  BY DEF Inv
<1> QED
  BY <1>1, InvStart, InvKept, PTL DEF Spec

\* A flow that drops its event as stale was overtaken by a newer reading of the chain.
THEOREM StalesAreOvertaken == Spec => []StaleMeansNewer
<1>1. Inv => StaleMeansNewer
  BY DEF Inv
<1> QED
  BY <1>1, InvStart, InvKept, PTL DEF Spec

\* No committed chain is overwritten by an older reading, an older holder or another rider.
THEOREM ChainsGoForward == Spec => ChainsNeverGoBack
<1> DEFINE Forward ==
      \A k \in Key : chain[k].owner # Nobody =>
        /\ chain'[k].owner = chain[k].owner
        /\ chain'[k].seen >= chain[k].seen
        /\ chain'[k].fence >= chain[k].fence
<1>1. Inv /\ [Next]_vars => [Forward]_vars
  <2> SUFFICES ASSUME Inv, Next PROVE Forward
    OBVIOUS
  <2>1. ASSUME NEW f \in Flow, CommitChain(f) PROVE Forward
    <3> SUFFICES ASSUME NEW k \in Key, chain[k].owner # Nobody
                 PROVE  /\ chain'[k].owner = chain[k].owner
                        /\ chain'[k].seen >= chain[k].seen
                        /\ chain'[k].fence >= chain[k].fence
      OBVIOUS
    <3>1. chain[k].seen \in Nat /\ chain[k].fence \in Nat /\ chain'[k].seen \in Nat
          /\ chain'[k].fence \in Nat
      BY <2>1, Commits DEF Inv, Types, ChainType
    <3> QED
      BY <2>1, <3>1, Commits
  <2>2. CASE UNCHANGED chain
    BY <2>2 DEF Inv, Types, ChainType
  <2>3. UNCHANGED chain \/ \E f \in Flow : CommitChain(f)
    BY DEF Next, Begin, Acquire, ChainStep, UpdateChain, UpdateMisses, Classify, InsertChain,
           InsertClashes, WriteChain, Disambiguate, RollupStep, ReadRollup, StampRollup,
           CommitRecompute, Sweep, StripeStep, Fetch, Settle, StripeSync, Crash,
           SubscriptionMoves, Tick, AtRest, vars
  <2> QED
    BY <2>1, <2>2, <2>3
<1> QED
  BY <1>1, InvStart, InvKept, PTL DEF Spec, ChainsNeverGoBack

----------------------------------------------------------------------------
(* The operators on chains, roll-ups and pairs.                             *)

\* A non-empty set of numbers has a least one.
LEMMA LeastOf ==
  ASSUME NEW T \in SUBSET Nat, T # {}
  PROVE  \E x \in T : \A y \in T : x <= y
<1>1. \E x \in T : \A y \in T : ~(<<y, x>> \in OpToRel(<, Nat))
  BY NatLessThanWellFounded, WFMin, Zenon
<1>2. OpToRel(<, Nat) = {p \in Nat \X Nat : p[1] < p[2]}
  BY Zenon DEF OpToRel
<1>3. PICK x \in T : \A y \in T : ~(<<y, x>> \in {p \in Nat \X Nat : p[1] < p[2]})
  BY <1>1, <1>2, Zenon
<1>4. \A y \in T : x <= y
  <2> TAKE y \in T
  <2>1. x \in Nat /\ y \in Nat /\ <<y, x>> \in Nat \X Nat
    OBVIOUS
  <2>2. ~(y < x)
    BY <1>3, <2>1
  <2> QED BY <2>1, <2>2
<1> QED
  BY <1>4

\* A finite set of numbers, if not empty, has a greatest one: else there would be a
\* smallest set that has none, and without one of its elements it would have one.
LEMMA MaxIs ==
  ASSUME NEW T \in SUBSET Nat, T # {}, IsFiniteSet(T)
  PROVE  Max(T) \in T /\ \A n \in T : n <= Max(T)
<1> DEFINE Topped(S) == \E x \in S : \A y \in S : y <= x
           Bad == {n \in Nat : \E S \in SUBSET Nat : /\ S # {} /\ IsFiniteSet(S)
                                                     /\ Cardinality(S) = n /\ ~Topped(S)}
<1>1. Bad = {}
  <2> SUFFICES ASSUME Bad # {} PROVE FALSE
    OBVIOUS
  <2>1. Bad \in SUBSET Nat
    OBVIOUS
  <2>2. PICK n \in Bad : \A m \in Bad : n <= m
    BY <2>1, LeastOf
  <2>3. PICK S \in SUBSET Nat : S # {} /\ IsFiniteSet(S) /\ Cardinality(S) = n /\ ~Topped(S)
    OBVIOUS
  <2>4. PICK x \in S : TRUE
    BY <2>3
  <2>5. IsFiniteSet(S \ {x}) /\ Cardinality(S \ {x}) = n - 1 /\ n \in Nat
    BY <2>3, <2>4, FS_RemoveElement
  <2>6. n - 1 \in Nat /\ S \ {x} \in SUBSET Nat
    BY <2>5, FS_CardinalityType
  <2>7. n - 1 \notin Bad
    BY <2>2, <2>5, <2>6
  <2>8. S \ {x} = {} \/ Topped(S \ {x})
    BY <2>5, <2>6, <2>7
  <2>9. CASE S \ {x} = {}
    BY <2>9, <2>3, <2>4
  <2>10. CASE Topped(S \ {x})
    <3>1. PICK y \in S \ {x} : \A z \in S \ {x} : z <= y
      BY <2>10
    <3>2. \A z \in S : z <= (IF x <= y THEN y ELSE x)
      BY <3>1
    <3> QED
      BY <3>1, <3>2, <2>3, <2>4
  <2> QED
    BY <2>8, <2>9, <2>10
<1>2. Cardinality(T) \in Nat
  BY FS_CardinalityType
<1>3. \E x \in T : \A y \in T : x >= y
  <2>1. Topped(T)
    BY <1>1, <1>2
  <2> QED
    BY <2>1
<1> QED
  BY <1>3 DEF Max

\* What a roll-up ru says at t of the chains of r in view: no live chain is of a better
\* tier, and as long as it is not expired it is the tier of a chain that lasts as long.
Tells(ru, view, r, t) ==
  /\ \A k \in Key : view[k].owner = r /\ SourceLive(view[k], t) => view[k].tier <= ru.tier
  /\ ru.until > t =>
       \E k \in Key : view[k].owner = r /\ view[k].tier = ru.tier
                      /\ EffectiveEnd(view[k]) >= ru.until

\* Somebody's chain has a tier.
Tiered(view) == \A k \in Key : view[k].owner # Nobody => view[k].tier \in StoreTier

LEMMA EndType ==
  ASSUME NEW p, p.end \in Nat, p.seen \in Nat
  PROVE  EffectiveEnd(p) \in Nat
  BY WindowAssumption DEF EffectiveEnd

LEMMA RollupIs ==
  ASSUME NEW view \in [Key -> ChainType], Tiered(view), NEW r \in Rider, now \in Nat \ {0}
  PROVE  /\ StoreRollup(LiveChains(view, r)) \in RollupPair
         /\ Tells(StoreRollup(LiveChains(view, r)), view, r, now)
         /\ StoreRollup(LiveChains(view, r)).tier # 0 =>
              StoreRollup(LiveChains(view, r)).until > now
<1> DEFINE L == {k \in Key : view[k].owner = r /\ SourceLive(view[k], now)}
           S == {view[k] : k \in L}
           tiers == {p.tier : p \in S}
           top == Max(tiers)
           ends == {EffectiveEnd(p) : p \in {q \in S : q.tier = top}}
<1>1. LiveChains(view, r) = S
  BY DEF LiveChains
<1>2. CASE S = {}
  <2>1. StoreRollup(S) = NoStore /\ L = {}
    BY <1>2 DEF StoreRollup
  <2> QED
    BY <2>1, <1>1 DEF RollupPair, Tells, NoStore
<1>3. CASE S # {}
  <2>1. \A k \in L : /\ view[k].tier \in {1, 2} /\ EffectiveEnd(view[k]) \in Nat
                     /\ EffectiveEnd(view[k]) > now
    <3> TAKE k \in L
    <3>1. view[k] \in ChainType /\ view[k].owner # Nobody
      BY NobodyAssumption
    <3> QED
      BY <3>1, EndType DEF ChainType, Tiered, StoreTier, SourceLive
  <2>2. top \in tiers /\ \A n \in tiers : n <= top
    <3>1. tiers \in SUBSET Nat /\ tiers \in SUBSET {1, 2} /\ tiers # {}
      BY <2>1, <1>3
    <3>2. IsFiniteSet({1, 2})
      <4>1. IsFiniteSet({1}) /\ IsFiniteSet({1} \cup {2}) /\ {1} \cup {2} = {1, 2}
        BY FS_Singleton, FS_AddElement
      <4> QED BY <4>1
    <3>3. IsFiniteSet(tiers)
      BY <3>1, <3>2, FS_Subset
    <3> QED
      BY <3>1, <3>3, MaxIs
  <2>3. PICK k0 \in L : view[k0].tier = top
    BY <2>2
  <2> HIDE DEF top
  <2>4. Max(ends) \in ends /\ \A n \in ends : n <= Max(ends)
    <3> DEFINE J == {k \in L : view[k].tier = top}
               g == [k \in J |-> EffectiveEnd(view[k])]
    <3>1. ends \in SUBSET Nat /\ ends # {}
      BY <2>1, <2>3
    <3>2. IsFiniteSet(J)
      BY KeyAssumption, FS_Subset
    <3>3. g \in Surjection(J, ends)
      <4>1. g \in [J -> ends] /\ \A e \in ends : \E k \in J : g[k] = e
        OBVIOUS
      <4> QED BY <4>1 DEF Surjection
    <3>4. IsFiniteSet(ends)
      BY <3>2, <3>3, FS_Surjection
    <3> QED
      BY <3>1, <3>4, MaxIs
  <2>5. PICK k1 \in L : view[k1].tier = top /\ EffectiveEnd(view[k1]) = Max(ends)
    BY <2>4
  <2>6. StoreRollup(S) = [tier |-> top, until |-> Max(ends)]
    BY <1>3 DEF StoreRollup, top
  <2> DEFINE u == Max(ends)
  <2> HIDE DEF u
  <2>7. StoreRollup(S) = [tier |-> top, until |-> u] /\ u \in Nat \ {0} /\ top \in StoreTier
        /\ EffectiveEnd(view[k1]) = u
    BY <2>1, <2>5, <2>6 DEF u, StoreTier
  <2>8. \A k \in L : view[k].tier <= top
    BY <2>2
  <2> DEFINE ru == [tier |-> top, until |-> u]
  <2>9. ru \in RollupPair /\ ru.tier = top /\ ru.until = u
    BY <2>7 DEF RollupPair
  <2>10. Tells(ru, view, r, now)
    <3>1. view[k1].owner = r /\ view[k1].tier = top /\ EffectiveEnd(view[k1]) >= u
      BY <2>5, <2>7
    <3> HIDE DEF ru
    <3> QED
      BY <3>1, <2>8, <2>9 DEF Tells
  <2> QED
    BY <1>1, <2>1, <2>5, <2>7, <2>9, <2>10
<1> QED
  BY <1>2, <1>3

StripeType == [owned : BOOLEAN, renew : BOOLEAN, end : Nat, seen : Nat, touched : Nat,
               grant : BOOLEAN]
RecType    == [state : SubStates, end : Nat, renew : BOOLEAN, version : Nat]
DueType    == [rows : SUBSET Pairs, at : Nat]

\* A pair has two members, and its deadline is about both.
LEMMA PairIs ==
  ASSUME NEW p \in Pairs
  PROVE  LET a == CHOOSE m \in p : TRUE
             b == CHOOSE m \in p : m # a
         IN  a \in p /\ b \in p /\ a # b
<1>1. Cardinality(p) = 2
  BY DEF Pairs
<1>2. \E m \in p : TRUE
  <2>1. Cardinality({}) = 0
    BY FS_EmptySet
  <2> QED
    BY <1>1, <2>1
<1> DEFINE a == CHOOSE m \in p : TRUE
<1>3. a \in p
  BY <1>2
<1> HIDE DEF a
<1>4. \E m \in p : m # a
  <2> SUFFICES ASSUME p = {a} PROVE FALSE
    BY <1>3
  <2>1. Cardinality({a}) = 1
    BY FS_Singleton
  <2> QED
    BY <1>1, <2>1
<1> DEFINE b == CHOOSE m \in p : m # a
<1>5. b \in p /\ b # a
  BY <1>4
<1> HIDE DEF b
<1> QED
  BY <1>3, <1>5 DEF a, b

\* What a reading of the rider's sources is made of.
LEMMA ReadingIs ==
  ASSUME NEW view \in [Key -> ChainType], NEW r \in Rider, NEW row \in StripeType,
         NEW rec \in RecType, now \in Nat \ {0}
  PROVE  LET read == Reading(view, r, row, rec)
         IN  /\ \A k \in Key : k \in read.sources <=>
                                 view[k].owner = r /\ FutureBilling(view[k], now)
             /\ Stripe \in read.sources => read.stripeEnd > now
             /\ read.stripeEnd \in Nat
             /\ read.endedMember <=> Terminal(rec)
             /\ read.observed \in BOOLEAN
<1> DEFINE known == row.owned \/ rec.state \in {"unpaid", "live"}
           matched == rec # NoSub /\ known
           source == IF matched
                     THEN [renew |-> ~Terminal(rec) /\ rec.renew, end |-> rec.end, seen |-> now]
                     ELSE StripeSource(row)
           bills == FutureBilling(source, now)
           keys == {k \in Key : view[k].owner = r /\ FutureBilling(view[k], now)}
           read == Reading(view, r, row, rec)
<1>1. /\ read.sources = (IF bills /\ known THEN keys \cup {Stripe} ELSE keys)
      /\ read.stripeEnd = EffectiveEnd(source)
      /\ read.endedMember = Terminal(rec)
      /\ read.observed = (matched /\ ~Terminal(rec))
  BY DEF Reading
<1>2. source.end \in Nat /\ source.seen \in Nat
  BY DEF RecType, StripeType, StripeSource
<1>3. EffectiveEnd(source) \in Nat
  BY <1>2, EndType
<1>4. bills => EffectiveEnd(source) > now
  BY DEF FutureBilling, SourceLive
<1>5. Stripe \notin Key
  BY NobodyAssumption
<1> HIDE DEF source, bills, read, known, matched
<1>6. read.observed \in BOOLEAN
  BY <1>1
<1> QED
  BY <1>1, <1>3, <1>4, <1>5, <1>6 DEF read

\* A deadline comes after now if what the reading cannot see is thought to go on after now.
LEMMA DeadlineIs ==
  ASSUME NEW view \in [Key -> ChainType], NEW r \in Rider, NEW row \in StripeType,
         NEW rec \in RecType, now \in Nat \ {0}, NEW t \in Nat, NEW p \in Pairs
  PROVE  LET read == Reading(view, r, row, rec)
             d == PairDeadline(view, read, t, p)
         IN  /\ d \in Nat \ {0}
             /\ t + Window > now \/ p \subseteq read.sources => d > now
<1> DEFINE read == Reading(view, r, row, rec)
           a == CHOOSE m \in p : TRUE
           b == CHOOSE m \in p : m # a
           ea == MemberEnd(view, read, t, a)
           eb == MemberEnd(view, read, t, b)
<1>1. a \in p /\ b \in p /\ p \subseteq Key \cup {Stripe}
  BY PairIs DEF Pairs, Member
<1>2. ASSUME NEW m \in p
      PROVE  /\ MemberEnd(view, read, t, m) \in Nat \ {0}
             /\ t + Window > now \/ m \in read.sources => MemberEnd(view, read, t, m) > now
  <2>1. CASE m \notin read.sources
    BY <2>1, WindowAssumption DEF MemberEnd
  <2>2. CASE m \in read.sources /\ m = Stripe
    <3>1. read.stripeEnd \in Nat /\ read.stripeEnd > now
      BY <2>2, ReadingIs
    <3> HIDE DEF read
    <3> QED
      BY <2>2, <3>1 DEF MemberEnd
  <2>3. CASE m \in read.sources /\ m # Stripe
    <3>1. m \in Key /\ FutureBilling(view[m], now)
      BY <1>1, <2>3, ReadingIs
    <3>2. EffectiveEnd(view[m]) > now /\ EffectiveEnd(view[m]) \in Nat
      BY <3>1, EndType DEF FutureBilling, SourceLive, ChainType
    <3> HIDE DEF read
    <3> QED
      BY <2>3, <3>2 DEF MemberEnd
  <2> QED
    BY <2>1, <2>2, <2>3
<1>3. PairDeadline(view, read, t, p) = EscalateAfter(ea, eb)
  BY DEF PairDeadline
<1>4. /\ ea \in Nat \ {0} /\ eb \in Nat \ {0}
      /\ t + Window > now \/ p \subseteq read.sources => ea > now /\ eb > now
  BY <1>1, <1>2
<1> HIDE DEF ea, eb, a, b, read
<1>5. /\ EscalateAfter(ea, eb) \in Nat \ {0}
      /\ ea > now /\ eb > now => EscalateAfter(ea, eb) > now
  BY <1>4, WindowAssumption DEF EscalateAfter
<1> QED
  BY <1>3, <1>4, <1>5 DEF read

----------------------------------------------------------------------------
(* The types.                                                               *)

Others ==
  /\ now \in Nat \ {0}
  /\ sub \in [Rider -> RecType] /\ rollup \in [Rider -> RollupPair]
  /\ stripe \in [Rider -> StripeType] /\ overlap \in [Rider -> [Pairs -> Nat]]
  /\ draft \in [Flow -> RollupPair] /\ record \in [Flow -> RecType]
  /\ due \in [Flow -> DueType] /\ acked \in [Rider -> Nat]

TInv == Inv /\ Others /\ Tiered(chain)

\* The chains a transaction sees.
LEMMA VisibleIs ==
  ASSUME TInv, NEW f \in Flow
  PROVE  Visible(f) \in [Key -> ChainType] /\ Tiered(Visible(f))
<1>1. ASSUME NEW k \in Key, chainLock[k] = f
      PROVE  Written(f) \in ChainType /\ Written(f).tier \in StoreTier
  <2>1. job[f].kind = "chain" /\ pc[f] \in Writing
    BY <1>1 DEF TInv, Inv, ChainHeld
  <2>2. job[f] \in Jobs /\ rider(f) \in Rider /\ token[f] \in Nat
    BY <2>1, JobFacts DEF TInv, Inv, Asked, Types, rider, Writing
  <2> QED
    BY <2>1, <2>2, JobFacts DEF Written, ChainType
<1>2. chain \in [Key -> ChainType]
  BY DEF TInv, Inv, Types
<1> QED
  BY <1>1, <1>2 DEF Visible, Tiered, TInv

LEMMA SyncIs ==
  ASSUME TInv, NEW view \in [Key -> ChainType], NEW r \in Rider, NEW row \in StripeType,
         NEW rec \in RecType, SyncOverlaps(view, r, row, rec)
  PROVE  /\ overlap' \in [Rider -> [Pairs -> Nat]] /\ stripe' \in [Rider -> StripeType]
         /\ due' \in [Flow -> DueType]
<1> DEFINE read == Reading(view, r, row, rec)
<1>1. now \in Nat \ {0} /\ overlap \in [Rider -> [Pairs -> Nat]] /\ stripe \in [Rider -> StripeType]
      /\ due \in [Flow -> DueType]
  BY DEF TInv, Others
<1>2. \A p \in Pairs : PairDeadline(view, read, now, p) \in Nat
  BY <1>1, DeadlineIs
<1>3. read.observed \in BOOLEAN
  BY <1>1, ReadingIs
<1>4. /\ overlap' = [overlap EXCEPT ![r] = Synced(view, r, read)]
      /\ stripe' = [stripe EXCEPT ![r] = [row EXCEPT !.seen = IF read.observed THEN now ELSE @]]
      /\ Forget(r)
  BY DEF SyncOverlaps
<1> HIDE DEF read
<1>5. Synced(view, r, read) \in [Pairs -> Nat]
  BY <1>1, <1>2 DEF Synced
<1>6. [row EXCEPT !.seen = IF read.observed THEN now ELSE @] \in StripeType
  BY <1>1, <1>3 DEF StripeType
<1>7. due' \in [Flow -> DueType]
  BY <1>1, <1>4 DEF Forget, DueType
<1> QED
  BY <1>1, <1>4, <1>5, <1>6, <1>7

\* A move of Stripe makes a new version of one rider's subscription.
LEMMA StripeMoves ==
  ASSUME sub \in [Rider -> RecType], NEW r \in Rider, SubscriptionMoves(r)
  PROVE  /\ sub' \in [Rider -> RecType]
         /\ \A q \in Rider \ {r} : sub'[q] = sub[q]
         /\ sub'[r].state # "none" /\ sub'[r].version = sub[r].version + 1
<1>1. PICK s \in SubStates, e \in Nat, b \in BOOLEAN :
        /\ sub' = [sub EXCEPT ![r] = [state |-> s, end |-> e, renew |-> b,
                                      version |-> @.version + 1]]
        /\ s # "none"
  <2>1. sub[r] \in RecType /\ StripeStates \subseteq SubStates \ {"none"} /\ StripeEnds \subseteq Nat
        /\ {"ended", "live"} \subseteq SubStates /\ NoEnd \in Nat
    BY BoundAssumption DEF SubStates, NoEnd
  <2>2. PICK s \in StripeStates, e \in StripeEnds :
          LET Becomes(state, end, renew) ==
                sub' = [sub EXCEPT ![r] = [state |-> state, end |-> end, renew |-> renew,
                                           version |-> @.version + 1]]
          IN  \/ Becomes(s, e, TRUE)
              \/ sub[r].state # "none" /\ Becomes("live", e, TRUE)
              \/ sub[r].state # "none" /\ Becomes(s, sub[r].end, sub[r].renew)
              \/ sub[r].state # "none" /\ Becomes(sub[r].state, sub[r].end, ~sub[r].renew)
              \/ Becomes("ended", NoEnd, FALSE)
    BY DEF SubscriptionMoves
  <2> QED
    BY <2>1, <2>2 DEF RecType
<1> QED
  BY <1>1 DEF RecType

LEMMA TypesKept == TInv /\ [Next]_vars => TInv'
<1> SUFFICES ASSUME TInv, [Next]_vars PROVE TInv'
  OBVIOUS
<1> USE DEF subVars, rowVars, lockVars, flowVars
<1>i. Inv'
  BY InvKept DEF TInv
<1>o. Others
  BY DEF TInv
<1>r. \A f \in Flow : pc[f] # "idle" => rider(f) \in Rider
  BY JobFacts DEF TInv, Inv, Asked, rider
<1>1. ASSUME UNCHANGED chain, Others' PROVE TInv'
  BY <1>i, <1>1 DEF TInv, Tiered
<1>2. ASSUME UNCHANGED <<now, subVars, rollup, stripe, overlap, draft, record, due, chain>> PROVE TInv'
  BY <1>o, <1>1, <1>2 DEF Others
<1>3. ASSUME NEW f \in Flow, Begin(f) PROVE TInv'
  <2>1. PICK j \in Jobs : due' = [due EXCEPT ![f] = IF j.kind = "sweep"
                                  THEN [rows |-> DuePairs(j.rider), at |-> now] ELSE NotDue]
    BY <1>3 DEF Begin
  <2>2. DuePairs(j.rider) \in SUBSET Pairs
    BY DEF DuePairs
  <2>3. due' \in [Flow -> DueType]
    BY <2>1, <2>2, <1>o DEF Others, DueType, NotDue
  <2>4. UNCHANGED <<now, subVars, rollup, stripe, overlap, draft, record, chain>>
    BY <1>3 DEF Begin
  <2> QED
    BY <1>o, <1>1, <2>3, <2>4 DEF Others
<1>4. ASSUME NEW f \in Flow, Acquire(f) PROVE TInv'
  BY <1>4, <1>2 DEF Acquire
<1>5. ASSUME NEW f \in Flow, CommitChain(f) PROVE TInv'
  <2>1. /\ chain' = Visible(f) /\ rollup' = [rollup EXCEPT ![rider(f)] = draft[f]]
        /\ SyncOverlaps(Visible(f), rider(f), Touched(rider(f)), NoSub)
        /\ UNCHANGED <<now, subVars, draft, record>> /\ rider(f) \in Rider
    BY <1>5, <1>r DEF CommitChain
  <2>2. Touched(rider(f)) \in StripeType /\ NoSub \in RecType
    <3>1. now \in Nat /\ stripe[rider(f)] \in StripeType
      BY <2>1, <1>o DEF Others
    <3> QED
      BY <3>1 DEF Touched, StripeType, NoSub, RecType, SubStates, NoEnd
  <2>3. Others'
    BY <2>1, <2>2, <1>o, VisibleIs, SyncIs DEF Others
  <2>4. Tiered(chain)'
    BY <2>1, VisibleIs DEF Tiered
  <2> QED
    BY <1>i, <2>3, <2>4 DEF TInv
<1>6. ASSUME NEW f \in Flow, ChainStep(f) PROVE TInv'
  BY <1>6, <1>5, <1>2 DEF ChainStep, UpdateChain, UpdateMisses, Classify, InsertChain,
     InsertClashes, Disambiguate, WriteChain
<1>7. ASSUME NEW f \in Flow, RollupStep(f) PROVE TInv'
  <2>1. CASE ReadRollup(f)
    <3>1. StoreRollup(LiveChains(Visible(f), rider(f))) \in RollupPair
      BY <2>1, <1>r, <1>o, VisibleIs, RollupIs DEF ReadRollup, Others
    <3> QED
      BY <2>1, <3>1, <1>o, <1>1 DEF ReadRollup, Others
  <2>2. CASE StampRollup(f)
    BY <2>2, <1>2 DEF StampRollup
  <2>3. CASE CommitRecompute(f)
    <3>1. /\ rollup' = [rollup EXCEPT ![rider(f)] = draft[f]]
          /\ stripe' = [stripe EXCEPT ![rider(f)] = Touched(rider(f))]
          /\ UNCHANGED <<now, subVars, chain, overlap, draft, record, due>> /\ rider(f) \in Rider
      BY <2>3, <1>r DEF CommitRecompute
    <3>2. Touched(rider(f)) \in StripeType
      BY <3>1, <1>o DEF Touched, StripeType, Others
    <3> QED
      BY <3>1, <3>2, <1>o, <1>1 DEF Others
  <2> QED
    BY <2>1, <2>2, <2>3, <1>7 DEF RollupStep
<1>8. ASSUME NEW f \in Flow, Sweep(f) PROVE TInv'
  <2> DEFINE r == rider(f)
             read == Reading(chain, r, stripe[r], NoSub)
  <2>1. /\ r \in Rider /\ overlap' = [overlap EXCEPT ![r] = Swept(f, read)] /\ Forget(r)
        /\ UNCHANGED <<now, subVars, rollup, stripe, chain, draft, record>>
    BY <1>8, <1>r DEF Sweep
  <2>2. /\ stripe[r] \in StripeType /\ NoSub \in RecType /\ due[f].at \in Nat
        /\ chain \in [Key -> ChainType] /\ now \in Nat \ {0}
    BY <2>1, <1>o DEF NoSub, RecType, SubStates, NoEnd, Others, DueType, TInv, Inv, Types
  <2>3. \A p \in Pairs : PairDeadline(chain, read, due[f].at, p) \in Nat
    BY <2>1, <2>2, DeadlineIs
  <2> HIDE DEF read
  <2>4. Swept(f, read) \in [Pairs -> Nat]
    BY <2>1, <2>3, <1>o DEF Swept, Others
  <2>5. due' \in [Flow -> DueType]
    BY <2>1, <1>o DEF Forget, DueType, Others
  <2> QED
    BY <2>1, <2>4, <2>5, <1>o, <1>1 DEF Others
<1>9. ASSUME NEW f \in Flow, StripeStep(f) PROVE TInv'
  <2>1. CASE Fetch(f)
    <3>1. record' \in [Flow -> RecType]
      BY <2>1, <1>r, <1>o DEF Fetch, Others
    <3> QED
      BY <2>1, <3>1, <1>o, <1>1 DEF Fetch, Others
  <2>2. CASE Settle(f)
    <3>1. /\ rider(f) \in Rider /\ record[f] \in RecType /\ stripe[rider(f)] \in StripeType
          /\ now \in Nat
      BY <2>2, <1>r, <1>o DEF Settle, Others
    <3>2. Settled(stripe[rider(f)], record[f]) \in StripeType
      BY <3>1 DEF Settled, StripeType, RecType
    <3>3. stripe' \in [Rider -> StripeType]
      BY <2>2, <3>1, <3>2, <1>o DEF Settle, Others
    <3> QED
      BY <2>2, <3>3, <1>o, <1>1 DEF Settle, Others
  <2>3. CASE StripeSync(f)
    <3>1. rider(f) \in Rider /\ record[f] \in RecType /\ stripe[rider(f)] \in StripeType
          /\ chain \in [Key -> ChainType]
      BY <2>3, <1>r, <1>o DEF StripeSync, Others, TInv, Inv, Types
    <3>2. /\ overlap' \in [Rider -> [Pairs -> Nat]] /\ stripe' \in [Rider -> StripeType]
          /\ due' \in [Flow -> DueType]
      BY <2>3, <3>1, SyncIs DEF StripeSync
    <3>3. acked' \in [Rider -> Nat] /\ record' \in [Flow -> RecType]
      BY <2>3, <3>1, <1>o DEF StripeSync, Others, RecType, NoSub, SubStates, NoEnd
    <3> QED
      BY <2>3, <3>2, <3>3, <1>o, <1>1 DEF StripeSync, Others
  <2> QED
    BY <2>1, <2>2, <2>3, <1>9 DEF StripeStep
<1>10. ASSUME NEW f \in Flow, Crash(f) PROVE TInv'
  BY <1>10, <1>2 DEF Crash
<1>11. ASSUME NEW r \in Rider, SubscriptionMoves(r) PROVE TInv'
  <2>1. sub' \in [Rider -> RecType]
    BY <1>11, <1>o, StripeMoves DEF Others
  <2> QED
    BY <1>11, <2>1, <1>o, <1>1 DEF SubscriptionMoves, Others
<1>12. CASE Tick
  BY <1>12, <1>o, <1>1 DEF Tick, Others
<1>13. CASE AtRest \/ UNCHANGED vars
  BY <1>13, <1>2 DEF AtRest, vars
<1> QED
  BY <1>3, <1>4, <1>6, <1>7, <1>8, <1>9, <1>10, <1>11, <1>12, <1>13 DEF Next

LEMMA TypesStart == Init => TInv
<1> SUFFICES ASSUME Init PROVE TInv
  OBVIOUS
<1>1. Others
  BY DEF Init, Others, RecType, StripeType, DueType, NoSub, SubStates, NoEnd, NoStore, RollupPair,
         NotDue
<1>2. Tiered(chain)
  BY DEF Init, Tiered, NoChain
<1> QED
  BY <1>1, <1>2, InvStart DEF TInv

\* The types of all variables: no roll-up is half set, no deadline is out of range.
THEOREM TypeCorrect == Spec => []TypeOK
<1>1. TInv => TypeOK
  BY DEF TInv, Inv, Types, Others, TypeOK, ChainType, RecType, StripeType, DueType
<1> QED
  BY <1>1, TypesStart, TypesKept, PTL DEF Spec

\* It goes on being true as time passes, whatever happens to the chains of others.
LEMMA TellsOn ==
  ASSUME NEW view \in [Key -> ChainType], NEW v2 \in [Key -> ChainType], NEW r \in Rider,
         NEW ru \in RollupPair, NEW t \in Nat, NEW t2 \in Nat, t <= t2,
         \A k \in Key : view[k].owner = r \/ v2[k].owner = r => v2[k] = view[k],
         Tells(ru, view, r, t)
  PROVE  Tells(ru, v2, r, t2)
<1>1. ru.until \in Nat
  BY DEF RollupPair, NoStore
<1>2. ASSUME NEW k \in Key, v2[k].owner = r, SourceLive(v2[k], t2) PROVE v2[k].tier <= ru.tier
  <2>1. v2[k] = view[k] /\ EffectiveEnd(view[k]) \in Nat
    BY <1>2, EndType DEF ChainType
  <2> QED
    BY <2>1, <1>2 DEF Tells, SourceLive
<1>3. ASSUME ru.until > t2
      PROVE  \E k \in Key : v2[k].owner = r /\ v2[k].tier = ru.tier
                            /\ EffectiveEnd(v2[k]) >= ru.until
  BY <1>1, <1>3 DEF Tells
<1> QED
  BY <1>2, <1>3 DEF Tells

FlowStep(f) == \/ Begin(f) \/ Acquire(f) \/ ChainStep(f) \/ RollupStep(f)
               \/ Sweep(f) \/ StripeStep(f) \/ Crash(f)

\* What a step of one flow leaves alone.
LEMMA Frame ==
  ASSUME TInv, NEW f \in Flow, FlowStep(f)
  PROVE  /\ UNCHANGED <<now, sub>>
         /\ \A g \in Flow \ {f} : /\ pc'[g] = pc[g] /\ job'[g] = job[g] /\ token'[g] = token[g]
                                  /\ draft'[g] = draft[g] /\ record'[g] = record[g]
         /\ \A g \in Flow \ {f}, k \in Key : chainLock'[k] = g <=> chainLock[k] = g
         /\ \A r \in Rider : fence[r] <= fence'[r]
         /\ CommitChain(f) \/ UNCHANGED chain
         /\ CommitChain(f) \/ CommitRecompute(f) \/ UNCHANGED rollup
<1> DEFINE Left ==
      /\ UNCHANGED <<now, sub>>
      /\ \A g \in Flow \ {f} : /\ pc'[g] = pc[g] /\ job'[g] = job[g] /\ token'[g] = token[g]
                               /\ draft'[g] = draft[g] /\ record'[g] = record[g]
      /\ \A g \in Flow \ {f}, k \in Key : chainLock'[k] = g <=> chainLock[k] = g
      /\ \A r \in Rider : fence[r] <= fence'[r]
      /\ CommitChain(f) \/ UNCHANGED chain
      /\ CommitChain(f) \/ CommitRecompute(f) \/ UNCHANGED rollup
<1> SUFFICES Left
  OBVIOUS
<1> USE DEF subVars, rowVars, lockVars, flowVars
<1>0. /\ pc \in [Flow -> PCs] /\ job \in [Flow -> Jobs \cup {NoJob}] /\ token \in [Flow -> Nat]
      /\ draft \in [Flow -> RollupPair] /\ record \in [Flow -> RecType]
      /\ fence \in [Rider -> Nat] /\ chainLock \in [Key -> Flow \cup {Nobody}]
      /\ seq \in Nat /\ \A r \in Rider : fence[r] \in Nat /\ fence[r] <= seq
      /\ Nobody \notin Flow
  BY NobodyAssumption DEF TInv, Inv, Types, Others, Fences
<1>1. CASE Begin(f)
  BY <1>1, <1>0 DEF Begin, Goto
<1>2. CASE Acquire(f)
  <2>1. UNCHANGED <<now, sub, chain, rollup, chainLock, job, draft, record>>
    BY <1>2 DEF Acquire
  <2>2. \A g \in Flow \ {f} : pc'[g] = pc[g] /\ token'[g] = token[g]
    BY <1>2, <1>0 DEF Acquire, Goto
  <2>3. \A r \in Rider : fence[r] <= fence'[r]
    <3>1. fence' = [fence EXCEPT ![rider(f)] = seq + 1]
      BY <1>2 DEF Acquire
    <3> QED
      BY <3>1, <1>0
  <2> QED
    BY <2>1, <2>2, <2>3
<1>3. ASSUME UNCHANGED <<now, sub, job, token, fence, draft>>, NEW to, Goto(f, to),
             \A g \in Flow \ {f} : record'[g] = record[g],
             UNCHANGED chainLock \/ Unlock(f)
             \/ (chainLock[job[f].key] = Nobody /\ chainLock' = [chainLock EXCEPT ![job[f].key] = f]),
             CommitChain(f) \/ UNCHANGED chain,
             CommitChain(f) \/ CommitRecompute(f) \/ UNCHANGED rollup
      PROVE  Left
  <2>1. \A g \in Flow \ {f} : pc'[g] = pc[g]
    BY <1>3, <1>0 DEF Goto
  <2>2. \A g \in Flow \ {f}, k \in Key : chainLock'[k] = g <=> chainLock[k] = g
    <3>1. CASE UNCHANGED chainLock
      BY <3>1
    <3>2. CASE Unlock(f)
      BY <3>2, <1>0 DEF Unlock
    <3>3. CASE chainLock[job[f].key] = Nobody /\ chainLock' = [chainLock EXCEPT ![job[f].key] = f]
      BY <3>3, <1>0
    <3> QED
      BY <3>1, <3>2, <3>3, <1>3
  <2> QED
    BY <2>1, <2>2, <1>3, <1>0
<1>4. CASE ChainStep(f)
  <2>1. CASE CommitChain(f)
    BY <2>1, <1>3 DEF CommitChain
  <2> QED
    BY <2>1, <1>4, <1>3 DEF ChainStep, UpdateChain, UpdateMisses, Classify, InsertChain,
       InsertClashes, Disambiguate, WriteChain
<1>5. CASE RollupStep(f)
  <2>1. CASE ReadRollup(f)
    BY <2>1, <1>0 DEF ReadRollup, Goto
  <2>2. CASE StampRollup(f)
    BY <2>2, <1>3 DEF StampRollup
  <2>3. CASE CommitRecompute(f)
    BY <2>3, <1>3 DEF CommitRecompute
  <2> QED
    BY <2>1, <2>2, <2>3, <1>5 DEF RollupStep
<1>6. CASE Sweep(f)
  BY <1>6, <1>3 DEF Sweep
<1>7. CASE StripeStep(f)
  <2>1. CASE Fetch(f)
    BY <2>1, <1>0 DEF Fetch, Goto
  <2>2. CASE Settle(f)
    BY <2>2, <1>3 DEF Settle
  <2>3. CASE StripeSync(f)
    BY <2>3, <1>3, <1>0 DEF StripeSync
  <2> QED
    BY <2>1, <2>2, <2>3, <1>7 DEF StripeStep
<1>8. CASE Crash(f)
  BY <1>8, <1>3 DEF Crash
<1> QED
  BY <1>1, <1>2, <1>4, <1>5, <1>6, <1>7, <1>8 DEF FlowStep

\* While a flow is about to commit, every other flow of its rider is fenced out.
LEMMA Overtaken ==
  ASSUME Inv, NEW f \in Flow, pc[f] = "sync", NEW g \in Flow \ {f}, Begun(g), rider(g) = rider(f)
  PROVE  FencedOut(g)
<1>1. rider(f) \in Rider /\ Begun(f)
  BY JobFacts DEF Inv, Asked, rider, Begun
<1>2. token[g] <= fence[rider(f)] /\ token[g] # token[f] /\ fence[rider(f)] = token[f]
  BY <1>1 DEF Inv, Fences, RowHeld
<1> QED
  BY <1>1, <1>2 DEF FencedOut, Inv, Types

\* A commit changes no chain of another rider.
LEMMA OnlyTheirs ==
  ASSUME Inv, NEW f \in Flow, CommitChain(f), NEW r \in Rider \ {rider(f)}, NEW k \in Key,
         chain[k].owner = r \/ chain'[k].owner = r
  PROVE  chain'[k] = chain[k] /\ chainLock[k] # f
<1>1. chainLock[k] # f
  <2> SUFFICES ASSUME chainLock[k] = f PROVE FALSE
    OBVIOUS
  <2>1. chain'[k].owner = rider(f) /\ (chain[k].owner # Nobody => chain[k].owner = rider(f))
    BY Commits
  <2> QED
    BY <2>1, NobodyAssumption
<1> QED
  BY <1>1, Commits

----------------------------------------------------------------------------
(* The roll-up: what the users row tells of the rider's stores.            *)

\* What is committed tells the truth, and so does the draft of a transaction that can still
\* commit, of the chains it would leave.
Rolled == \A r \in Rider : Tells(rollup[r], chain, r, now)
Drafts == \A f \in Flow : pc[f] \in {"stamp", "sync"} /\ ~FencedOut(f) =>
            Tells(draft[f], Visible(f), rider(f), now)

RInv == TInv /\ Rolled /\ Drafts

LEMMA RolledStays ==
  ASSUME RInv, TInv', NEW r \in Rider, UNCHANGED rollup, now <= now',
         \A k \in Key : chain[k].owner = r \/ chain'[k].owner = r => chain'[k] = chain[k]
  PROVE  Tells(rollup'[r], chain', r, now')
<1>1. /\ chain \in [Key -> ChainType] /\ chain' \in [Key -> ChainType] /\ rollup[r] \in RollupPair
      /\ now \in Nat /\ now' \in Nat /\ Tells(rollup[r], chain, r, now)
  BY DEF RInv, TInv, Inv, Types, Others, Rolled
<1> QED
  BY <1>1, TellsOn, Zenon

LEMMA VisibleLater == TInv' => (\A f \in Flow : Visible(f) \in [Key -> ChainType])'
<1>1. TInv => \A f \in Flow : Visible(f) \in [Key -> ChainType]
  BY VisibleIs
<1> QED
  BY <1>1, PTL

\* A draft stays true while its flow stays put.
LEMMA DraftStays ==
  ASSUME RInv, TInv', NEW g \in Flow, pc[g] \in {"stamp", "sync"}, now <= now',
         job'[g] = job[g], token'[g] = token[g], draft'[g] = draft[g],
         fence[rider(g)] <= fence'[rider(g)],
         \A k \in Key : chainLock'[k] = g <=> chainLock[k] = g,
         \A k \in Key : chain[k].owner = rider(g) \/ chain'[k].owner = rider(g)
                          => chain'[k] = chain[k],
         ~FencedOut(g)'
  PROVE  Tells(draft'[g], Visible(g)', rider(g)', now')
<1>1. /\ now \in Nat /\ now' \in Nat /\ draft[g] \in RollupPair /\ rider(g) \in Rider
      /\ fence[rider(g)] \in Nat /\ fence'[rider(g)] \in Nat /\ token[g] \in Nat
  BY JobFacts DEF RInv, TInv, Inv, Types, Asked, Others, rider
<1>2. ~FencedOut(g)
  <2>1. rider(g)' = rider(g)
    BY DEF rider
  <2> QED
    BY <1>1, <2>1 DEF FencedOut
<1>3. Tells(draft[g], Visible(g), rider(g), now)
  BY <1>2 DEF RInv, Drafts
<1>4. Visible(g) \in [Key -> ChainType]
  BY VisibleIs DEF RInv
<1>5. Visible(g)' \in [Key -> ChainType]
  BY VisibleLater
<1>6. Written(g)' = Written(g) /\ rider(g)' = rider(g)
  BY DEF Written, rider
<1>7. \A k \in Key : Visible(g)[k].owner = rider(g) \/ Visible(g)'[k].owner = rider(g)
                       => Visible(g)'[k] = Visible(g)[k]
  BY <1>6 DEF Visible
<1> HIDE DEF Visible
<1>8. Tells(draft[g], Visible(g)', rider(g), now')
  BY <1>1, <1>3, <1>4, <1>5, <1>7, TellsOn, Zenon
<1> QED
  BY <1>6, <1>8

LEMMA RollupsKept == RInv /\ [Next]_vars => RInv'
<1> SUFFICES ASSUME RInv, [Next]_vars PROVE RInv'
  OBVIOUS
<1>t. TInv /\ TInv' /\ Inv /\ Inv' /\ now \in Nat
  BY TypesKept DEF RInv, TInv, Others
<1>1. ASSUME NEW f \in Flow, FlowStep(f) PROVE RInv'
  <2>1. /\ now' = now /\ \A r \in Rider : fence[r] <= fence'[r]
        /\ \A g \in Flow \ {f} : /\ pc'[g] = pc[g] /\ job'[g] = job[g] /\ token'[g] = token[g]
                                 /\ draft'[g] = draft[g]
        /\ \A g \in Flow \ {f}, k \in Key : chainLock'[k] = g <=> chainLock[k] = g
        /\ CommitChain(f) \/ UNCHANGED chain
        /\ CommitChain(f) \/ CommitRecompute(f) \/ UNCHANGED rollup
    BY <1>1, <1>t, Frame
  <2>n. now <= now'
    BY <2>1, <1>t
  \* The drafts of the others: those of the same rider are void when f commits.
  <2>2. ASSUME NEW g \in Flow \ {f}, pc'[g] \in {"stamp", "sync"}, ~FencedOut(g)'
        PROVE  Tells(draft'[g], Visible(g)', rider(g)', now')
    <3>1. pc[g] \in {"stamp", "sync"} /\ rider(g) \in Rider /\ rider(g)' = rider(g) /\ Begun(g)
      BY <2>1, <2>2, <1>t, JobFacts DEF Inv, Asked, rider, Begun
    <3>2. \A k \in Key : chain[k].owner = rider(g) \/ chain'[k].owner = rider(g)
                           => chain'[k] = chain[k]
      <4>1. CASE UNCHANGED chain
        BY <4>1
      <4>2. CASE CommitChain(f)
        <5>1. rider(g) # rider(f)
          <6> SUFFICES ASSUME rider(g) = rider(f) PROVE FALSE
            OBVIOUS
          <6>1. FencedOut(g) /\ UNCHANGED fence
            BY <4>2, <3>1, <1>t, Overtaken DEF CommitChain
          <6> QED
            BY <6>1, <2>1, <2>2, <3>1 DEF FencedOut
        <5> QED
          BY <4>2, <5>1, <3>1, <1>t, OnlyTheirs
      <4> QED
        BY <2>1, <4>1, <4>2
    <3> QED
      BY <2>1, <2>2, <2>n, <3>1, <3>2, <1>t, DraftStays
  <2>3. ASSUME UNCHANGED <<rollup, chain>> PROVE Rolled'
    BY <2>3, <2>n, <1>t, RolledStays DEF Rolled
  <2>4. ASSUME UNCHANGED <<rollup, chain>>, pc'[f] \notin {"stamp", "sync"} PROVE RInv'
    BY <2>2, <2>3, <2>4, <1>t DEF RInv, Drafts
  <2>5. ASSUME NEW to, Goto(f, to), to \notin {"stamp", "sync"} PROVE pc'[f] \notin {"stamp", "sync"}
    BY <2>5, <1>t DEF Goto, Inv, Types
  <2>6. CASE CommitChain(f)
    <3>1. /\ pc[f] = "sync" /\ chain' = Visible(f) /\ rollup' = [rollup EXCEPT ![rider(f)] = draft[f]]
          /\ Goto(f, "claimed") /\ rider(f) \in Rider /\ fence[rider(f)] = token[f]
      BY <2>6, <1>t, JobFacts DEF CommitChain, Inv, Asked, RowHeld, rider
    <3>2. Tells(draft[f], Visible(f), rider(f), now)
      <4>1. ~FencedOut(f)
        BY <3>1, <1>t DEF FencedOut, Inv, Types
      <4> QED
        BY <4>1, <3>1 DEF RInv, Drafts
    <3>3. Rolled'
      <4> SUFFICES ASSUME NEW r \in Rider PROVE Tells(rollup'[r], chain', r, now')
        BY DEF Rolled
      <4>1. CASE r = rider(f)
        BY <4>1, <3>1, <3>2, <2>1, <1>t DEF TInv, Others
      <4>2. CASE r # rider(f)
        <5>1. \A k \in Key : chain[k].owner = r \/ chain'[k].owner = r => chain'[k] = chain[k]
          BY <4>2, <2>6, <1>t, OnlyTheirs
        <5>2. rollup'[r] = rollup[r]
          BY <4>2, <3>1, <1>t DEF TInv, Others
        <5>3. /\ chain \in [Key -> ChainType] /\ chain' \in [Key -> ChainType]
              /\ rollup[r] \in RollupPair /\ Tells(rollup[r], chain, r, now)
          BY <1>t DEF RInv, TInv, Inv, Types, Others, Rolled
        <5>4. Tells(rollup[r], chain', r, now')
          BY <5>1, <5>3, <1>t, <2>1, <2>n, TellsOn, Zenon
        <5> QED
          BY <5>2, <5>4
      <4> QED
        BY <4>1, <4>2
    <3>4. pc'[f] \notin {"stamp", "sync"}
      BY <3>1, <2>5
    <3> QED
      BY <2>2, <3>3, <3>4, <1>t DEF RInv, Drafts
  <2>7. CASE CommitRecompute(f)
    <3>1. /\ pc[f] = "sync" /\ chain' = chain /\ rollup' = [rollup EXCEPT ![rider(f)] = draft[f]]
          /\ Goto(f, "done") /\ rider(f) \in Rider /\ fence[rider(f)] = token[f]
          /\ job[f].kind = "recompute"
      BY <2>7, <1>t, JobFacts DEF CommitRecompute, Inv, Asked, RowHeld, rider
    <3>2. Tells(draft[f], chain, rider(f), now)
      <4>1. ~FencedOut(f)
        BY <3>1, <1>t DEF FencedOut, Inv, Types
      <4>2. \A k \in Key : chainLock[k] # f
        BY <3>1, <1>t DEF Inv, ChainHeld
      <4>3. Visible(f) = chain
        BY <4>2, <1>t DEF Visible, Inv, Types
      <4> QED
        BY <4>1, <4>3, <3>1 DEF RInv, Drafts
    <3>3. Rolled'
      <4> SUFFICES ASSUME NEW r \in Rider PROVE Tells(rollup'[r], chain', r, now')
        BY DEF Rolled
      <4>1. rollup'[r] = IF r = rider(f) THEN draft[f] ELSE rollup[r]
        BY <3>1, <1>t DEF TInv, Others
      <4> QED
        BY <4>1, <3>1, <3>2, <2>1 DEF RInv, Rolled
    <3>4. pc'[f] \notin {"stamp", "sync"}
      BY <3>1, <2>5
    <3> QED
      BY <2>2, <3>3, <3>4, <1>t DEF RInv, Drafts
  <2>8. CASE ReadRollup(f)
    <3>1. /\ draft' = [draft EXCEPT ![f] = StoreRollup(LiveChains(Visible(f), rider(f)))]
          /\ UNCHANGED <<job, token, chain, chainLock, rollup>> /\ rider(f) \in Rider
      BY <2>8, <1>t, JobFacts DEF ReadRollup, Inv, Asked, rider, subVars, rowVars, lockVars
    <3>2. draft'[f] = StoreRollup(LiveChains(Visible(f), rider(f)))
      BY <3>1, <1>t DEF TInv, Others
    <3>3. Tells(draft'[f], Visible(f), rider(f), now)
      BY <3>1, <3>2, <1>t, VisibleIs, RollupIs DEF TInv, Others
    <3>4. Visible(f)' = Visible(f) /\ rider(f)' = rider(f)
      BY <3>1 DEF Visible, Written, rider
    <3>5. Tells(draft'[f], Visible(f)', rider(f)', now')
      BY <3>3, <3>4, <2>1
    <3> QED
      BY <2>2, <2>3, <3>1, <3>5, <1>t DEF RInv, Drafts
  <2>9. CASE StampRollup(f)
    <3>1. pc[f] = "stamp" /\ UNCHANGED <<rollup, chain, fence, job, token, draft>> /\ rider(f) \in Rider
      BY <2>9, <1>t, JobFacts DEF StampRollup, subVars, rowVars, flowVars, Inv, Asked, rider
    <3>2. CASE FencedOut(f)
      BY <3>1, <3>2, <2>9, <2>4, <2>5 DEF StampRollup
    <3>3. CASE ~FencedOut(f)
      <4>1. UNCHANGED chainLock
        BY <3>3, <2>9 DEF StampRollup
      <4>2. ~FencedOut(f)' => Tells(draft'[f], Visible(f)', rider(f)', now')
        <5>1. fence[rider(f)] <= fence'[rider(f)]
          BY <2>1, <3>1
        <5> QED
          BY <3>1, <4>1, <5>1, <2>n, <1>t, DraftStays
      <4> QED
        BY <2>2, <2>3, <3>1, <4>2, <1>t DEF RInv, Drafts
    <3> QED
      BY <3>2, <3>3
  <2> USE DEF subVars, rowVars, lockVars, flowVars
  <2>10. CASE Acquire(f)
    <3>1. PICK to \in {"update", "rollup", "sweep", "fetch"} : Goto(f, to)
      BY <2>10 DEF Acquire
    <3> QED
      BY <2>10, <3>1, <2>4, <2>5 DEF Acquire
  <2>11. CASE ChainStep(f) /\ ~CommitChain(f)
    <3>1. PICK to \in {"rollup", "classify", "insert", "busy", "stale", "disambiguate", "conflict"} :
            Goto(f, to)
      BY <2>11 DEF ChainStep, UpdateChain, UpdateMisses, Classify, InsertChain, InsertClashes,
                   Disambiguate, WriteChain
    <3>2. UNCHANGED <<rollup, chain>>
      BY <2>11 DEF ChainStep, UpdateChain, UpdateMisses, Classify, InsertChain, InsertClashes,
                   Disambiguate, WriteChain
    <3> QED
      BY <3>1, <3>2, <2>4, <2>5
  <2>12. CASE StripeStep(f)
    <3>1. PICK to \in {"busy", "settle", "stripeSync", "late", "done"} : Goto(f, to)
      BY <2>12 DEF StripeStep, Fetch, Settle, StripeSync
    <3>2. UNCHANGED <<rollup, chain>>
      BY <2>12 DEF StripeStep, Fetch, Settle, StripeSync
    <3> QED
      BY <3>1, <3>2, <2>4, <2>5
  <2>13. CASE Begin(f)
    BY <2>13, <2>4, <2>5 DEF Begin
  <2>14. CASE Sweep(f)
    BY <2>14, <2>4, <2>5 DEF Sweep
  <2>15. CASE Crash(f)
    BY <2>15, <2>4, <2>5 DEF Crash
  <2> QED
    BY <1>1, <2>6, <2>7, <2>8, <2>9, <2>10, <2>11, <2>12, <2>13, <2>14, <2>15
       DEF FlowStep, RollupStep
<1>2. ASSUME UNCHANGED <<rollup, chain, fence, chainLock, pc, job, token, draft>>, now <= now'
      PROVE  RInv'
  <2>1. Rolled'
    BY <1>2, <1>t, RolledStays DEF Rolled
  <2>2. Drafts'
    <3> SUFFICES ASSUME NEW g \in Flow, pc'[g] \in {"stamp", "sync"}, ~FencedOut(g)'
                 PROVE  Tells(draft'[g], Visible(g)', rider(g)', now')
      BY DEF Drafts
    <3>1. fence[rider(g)] <= fence'[rider(g)]
      <4>1. rider(g) \in Rider
        BY <1>2, <1>t, JobFacts DEF Inv, Asked, rider
      <4> QED
        BY <4>1, <1>2, <1>t DEF Inv, Types
    <3> QED
      BY <3>1, <1>2, <1>t, DraftStays
  <2> QED
    BY <2>1, <2>2, <1>t DEF RInv
<1>3. ASSUME Tick \/ AtRest \/ (\E r \in Rider : SubscriptionMoves(r)) \/ UNCHANGED vars PROVE RInv'
  <2>1. UNCHANGED <<rollup, chain, fence, chainLock, pc, job, token, draft>>
    BY <1>3 DEF Tick, AtRest, SubscriptionMoves, vars, subVars, rowVars, lockVars, flowVars
  <2>2. now <= now'
    BY <1>3, <1>t DEF Tick, AtRest, SubscriptionMoves, vars
  <2> QED
    BY <2>1, <2>2, <1>2
<1> QED
  BY <1>1, <1>3 DEF Next, FlowStep

LEMMA RollupsStart == Init => RInv
<1> SUFFICES ASSUME Init PROVE RInv
  OBVIOUS
<1>1. \A k \in Key : chain[k].owner = Nobody
  BY DEF Init, NoChain
<1>2. Rolled
  BY <1>1, NobodyAssumption DEF Init, Rolled, Tells, NoStore
<1>3. Drafts
  BY DEF Init, Drafts
<1> QED
  BY <1>2, <1>3, TypesStart DEF RInv

\* The users row never says less or more of a rider's stores than the committed chains do,
\* however many flows with lapsed leases compute roll-ups from older readings.
THEOREM RollupsAreFaithful == Spec => []RollupFaithful
<1>1. RInv => RollupFaithful
  <2> SUFFICES ASSUME RInv, NEW r \in Rider
               PROVE  LET live == LiveChains(chain, r)
                      IN  /\ rollup[r].until > now => rollup[r].tier = StoreRollup(live).tier
                          /\ rollup[r].tier = 0 => live = {}
    BY DEF RollupFaithful
  <2> DEFINE best == StoreRollup(LiveChains(chain, r))
  <2>1. /\ chain \in [Key -> ChainType] /\ Tiered(chain) /\ now \in Nat \ {0}
        /\ rollup[r] \in RollupPair /\ Tells(rollup[r], chain, r, now)
    BY DEF RInv, TInv, Inv, Types, Others, Rolled
  <2>2. best \in RollupPair /\ Tells(best, chain, r, now)
    BY <2>1, RollupIs
  <2>3. \A k \in Key : chain[k].owner = r =>
          chain[k].tier \in {1, 2} /\ EffectiveEnd(chain[k]) \in Nat
    BY <2>1, NobodyAssumption, EndType DEF Tiered, StoreTier, ChainType
  <2>4. ASSUME rollup[r].tier = 0 PROVE LiveChains(chain, r) = {}
    BY <2>1, <2>3, <2>4 DEF Tells, LiveChains
  <2>5. ASSUME rollup[r].until > now PROVE rollup[r].tier = best.tier
    <3>1. PICK k \in Key : /\ chain[k].owner = r /\ chain[k].tier = rollup[r].tier
                           /\ EffectiveEnd(chain[k]) >= rollup[r].until
      BY <2>1, <2>5 DEF Tells
    <3>2. rollup[r].until \in Nat /\ SourceLive(chain[k], now)
      BY <2>1, <2>3, <2>5, <3>1 DEF RollupPair, NoStore, SourceLive
    <3>3. rollup[r].tier <= best.tier /\ rollup[r].tier \in {1, 2}
      BY <2>2, <2>3, <3>1, <3>2 DEF Tells
    <3>4. best.tier \in {1, 2} /\ best.until > now /\ best.until \in Nat
      BY <2>1, <2>2, <3>3, RollupIs DEF RollupPair, NoStore, StoreTier
    <3>5. PICK j \in Key : /\ chain[j].owner = r /\ chain[j].tier = best.tier
                           /\ EffectiveEnd(chain[j]) >= best.until
      BY <2>2, <3>4 DEF Tells
    <3>6. SourceLive(chain[j], now)
      BY <2>1, <2>3, <3>4, <3>5 DEF SourceLive
    <3>7. best.tier <= rollup[r].tier
      BY <2>1, <3>5, <3>6 DEF Tells
    <3> HIDE DEF best
    <3> QED
      BY <3>3, <3>4, <3>7
  <2> QED
    BY <2>4, <2>5
<1> QED
  BY <1>1, RollupsStart, RollupsKept, PTL DEF Spec

----------------------------------------------------------------------------
(* The overlaps: pairs of sources that both charge.                        *)

\* A Stripe flow of r is between its write and its sync, has died or has synced late.
Unsynced(f, r) == job[f] # NoJob /\ rider(f) = r /\ job[f].kind = "stripe"
                  /\ pc[f] \in {"stripeSync", "crashed", "late"}
Pending(r) == \E f \in Flow : Unsynced(f, r)

\* A Stripe flow has an answer of Stripe that it has not synced yet.
HasRead(f) == pc[f] \in {"settle", "stripeSync"}

\* What a Stripe flow has fetched is a subscription, which never stops being one, and
\* stays ended if it was.
Fetched ==
  \A f \in Flow :
    /\ pc[f] # "idle" /\ job[f].kind = "stripe" => sub[rider(f)].state # "none"
    /\ HasRead(f) \/ pc[f] = "fetch" => job[f].kind = "stripe"
    /\ HasRead(f) => /\ record[f].state # "none"
                     /\ record[f].state = "ended" => sub[rider(f)].state = "ended"
NoneIsNone == \A r \in Rider : sub[r].state = "none" => sub[r] = NoSub

\* No answer is of a version that does not exist yet, nor, if it is the newest flow's, older
\* than one acknowledged.
Versions ==
  /\ \A r \in Rider : acked[r] <= sub[r].version
  /\ \A f \in Flow : HasRead(f) =>
       /\ record[f].version <= sub[rider(f)].version
       /\ record[f].version = sub[rider(f)].version => record[f] = sub[rider(f)]
       /\ ~FencedOut(f) => acked[rider(f)] <= record[f].version

\* Of two flows of a rider the one that has the lock later reads the later version.
Ordered ==
  \A f \in Flow : \A g \in Flow :
    HasRead(f) /\ HasRead(g) /\ rider(f) = rider(g) /\ token[f] < token[g] =>
      record[f].version <= record[g].version

\* The row says what rec says.
Says(row, rec) == /\ row.renew <=> ~Terminal(rec) /\ rec.renew
                  /\ row.end = rec.end

\* Between its write and its sync a flow finds in the row what it wrote, while it is the
\* newest.
Mirrors ==
  \A f \in Flow : pc[f] = "stripeSync" /\ ~FencedOut(f) =>
    IF record[f].state = "ended" THEN ~stripe[rider(f)].owned
    ELSE Says(stripe[rider(f)], record[f])

\* Once a flow has written the current version, acknowledged or not yet, the row agrees with
\* a subscription that charges on.
Charges(s) == s.state \in {"unpaid", "live"} /\ s.renew
Settling(r) == \E f \in Flow : /\ pc[f] = "stripeSync" /\ rider(f) = r
                               /\ record[f].version = sub[r].version
Agreed == \A r \in Rider :
  Charges(sub[r]) /\ (acked[r] = sub[r].version \/ Settling(r)) => RowAgrees(r)

\* A Stripe side that owns the row and renews was observed by a sync, or its sync is to come.
Observed == \A r \in Rider : stripe[r].owned /\ stripe[r].renew /\ stripe[r].seen = 0 => Pending(r)

\* The rows a sweep selected and nobody has retired since are still there.
DueOpen == \A f \in Flow : pc[f] # "idle" => \A p \in due[f].rows : overlap[rider(f)][p] # 0

OInv == /\ TInv /\ Fetched /\ NoneIsNone /\ Versions /\ Ordered /\ Mirrors /\ Agreed
        /\ Observed /\ DueOpen /\ OverlapTracked

\* How a reading sees the Stripe side: from the row, or from a record it can match.
LEMMA StripeSeen ==
  ASSUME NEW view \in [Key -> ChainType], NEW r \in Rider, NEW row \in StripeType,
         NEW rec \in RecType
  PROVE  LET read == Reading(view, r, row, rec)
             fromRow == FutureBilling(StripeSource(row), now)
             fromRec == ~Terminal(rec) /\ rec.renew
                        /\ SourceLive([renew |-> TRUE, end |-> rec.end, seen |-> now], now)
             known == row.owned \/ rec.state \in {"unpaid", "live"}
         IN  /\ rec = NoSub =>
                  /\ Stripe \in read.sources <=> row.owned /\ fromRow
                  /\ read.indeterminate <=> ~row.owned /\ fromRow
                  /\ ~read.observed /\ ~read.endedMember
             /\ rec # NoSub /\ known =>
                  /\ Stripe \in read.sources <=> fromRec
                  /\ ~read.indeterminate
                  /\ read.observed <=> ~Terminal(rec)
             /\ rec # NoSub /\ ~known => Stripe \notin read.sources /\ ~read.observed
<1> DEFINE known == row.owned \/ rec.state \in {"unpaid", "live"}
           matched == rec # NoSub /\ known
           source == IF matched
                     THEN [renew |-> ~Terminal(rec) /\ rec.renew, end |-> rec.end, seen |-> now]
                     ELSE StripeSource(row)
           bills == FutureBilling(source, now)
           keys == {k \in Key : view[k].owner = r /\ FutureBilling(view[k], now)}
           read == Reading(view, r, row, rec)
           fromRec == ~Terminal(rec) /\ rec.renew
                        /\ SourceLive([renew |-> TRUE, end |-> rec.end, seen |-> now], now)
<1>1. /\ read.sources = (IF bills /\ known THEN keys \cup {Stripe} ELSE keys)
      /\ read.indeterminate = (bills /\ ~known)
      /\ read.endedMember = Terminal(rec)
      /\ read.observed = (matched /\ ~Terminal(rec))
  BY DEF Reading
<1>2. Stripe \notin keys
  BY NobodyAssumption
<1>3. matched => (bills <=> fromRec)
  BY DEF FutureBilling, SourceLive, EffectiveEnd
<1>4. ~matched => bills = FutureBilling(StripeSource(row), now)
  OBVIOUS
<1>5. rec = NoSub => ~matched /\ rec.state = "none" /\ ~Terminal(rec)
  BY DEF NoSub, Terminal
<1> HIDE DEF source, bills, read, keys, fromRec, matched
<1>6. rec = NoSub => (known <=> row.owned)
  BY <1>5
<1>7. matched <=> rec # NoSub /\ known
  BY DEF matched
<1> HIDE DEF known
<1>8. Stripe \in read.sources <=> bills /\ known
  BY <1>1, <1>2
<1>9. /\ read.indeterminate <=> bills /\ ~known
      /\ read.endedMember <=> Terminal(rec)
      /\ read.observed <=> matched /\ ~Terminal(rec)
  BY <1>1
<1>10. rec = NoSub =>
         /\ Stripe \in read.sources <=> row.owned /\ FutureBilling(StripeSource(row), now)
         /\ read.indeterminate <=> ~row.owned /\ FutureBilling(StripeSource(row), now)
         /\ ~read.observed /\ ~read.endedMember
  BY <1>4, <1>5, <1>6, <1>8, <1>9
<1>11. rec # NoSub /\ known =>
         /\ Stripe \in read.sources <=> fromRec
         /\ ~read.indeterminate
         /\ read.observed <=> ~Terminal(rec)
  BY <1>3, <1>7, <1>8, <1>9
<1>12. rec # NoSub /\ ~known => Stripe \notin read.sources /\ ~read.observed
  BY <1>7, <1>8, <1>9
<1> QED
  BY <1>10, <1>11, <1>12 DEF read, known, fromRec

\* What a sync does to one pair: a deadline if both members are seen to charge, no row if
\* one is seen to have stopped, else what was there.
LEMMA SyncedPair ==
  ASSUME TInv, NEW view \in [Key -> ChainType], NEW r \in Rider, NEW row \in StripeType,
         NEW rec \in RecType, SyncOverlaps(view, r, row, rec), NEW p \in Pairs
  PROVE  LET read == Reading(view, r, row, rec)
         IN  /\ p \subseteq read.sources => overlap'[r][p] # 0
             /\ overlap'[r][p] = 0 => overlap[r][p] = 0 \/ \E m \in p : MemberStopped(read, m)
             /\ overlap'[r][p] # 0 => overlap[r][p] # 0 \/ p \subseteq read.sources
             /\ \A q \in Rider \ {r} : overlap'[q] = overlap[q] /\ stripe'[q] = stripe[q]
             /\ stripe'[r] = [row EXCEPT !.seen = IF read.observed THEN now ELSE @]
<1> DEFINE read == Reading(view, r, row, rec)
           d == PairDeadline(view, read, now, p)
<1>1. /\ now \in Nat \ {0} /\ overlap \in [Rider -> [Pairs -> Nat]] /\ stripe \in [Rider -> StripeType]
  BY DEF TInv, Others
<1>2. d # 0
  BY <1>1, DeadlineIs
<1>3. /\ overlap' = [overlap EXCEPT ![r] = Synced(view, r, read)]
      /\ stripe' = [stripe EXCEPT ![r] = [row EXCEPT !.seen = IF read.observed THEN now ELSE @]]
  BY DEF SyncOverlaps
<1> HIDE DEF read
<1>4. overlap'[r][p] = IF \E m \in p : MemberStopped(read, m) THEN 0
                       ELSE IF p \subseteq read.sources THEN d
                       ELSE overlap[r][p]
  BY <1>1, <1>3 DEF Synced
<1>5. p \subseteq read.sources => ~\E m \in p : MemberStopped(read, m)
  BY DEF MemberStopped
<1> HIDE DEF d
<1>6. /\ \A q \in Rider \ {r} : overlap'[q] = overlap[q] /\ stripe'[q] = stripe[q]
      /\ stripe'[r] = [row EXCEPT !.seen = IF read.observed THEN now ELSE @]
  BY <1>1, <1>3
<1> QED
  BY <1>2, <1>4, <1>5, <1>6 DEF read

\* What a sweep does to one pair.
LEMMA SweptPair ==
  ASSUME TInv, NEW f \in Flow, Sweep(f), rider(f) \in Rider, NEW p \in Pairs
  PROVE  LET r == rider(f)
             read == Reading(chain, r, stripe[r], NoSub)
         IN  /\ p \subseteq read.sources => overlap[r][p] = 0 \/ overlap'[r][p] # 0
             /\ overlap'[r][p] # 0 => overlap[r][p] # 0 \/ p \in due[f].rows
             /\ overlap'[r][p] = 0 => overlap[r][p] = 0 \/ \E m \in p : MemberStopped(read, m)
             /\ p \in due[f].rows /\ due[f].at + Window > now =>
                  overlap'[r][p] = 0 \/ overlap'[r][p] > now
             /\ \A q \in Rider \ {r} : overlap'[q] = overlap[q]
<1> DEFINE r == rider(f)
           read == Reading(chain, r, stripe[r], NoSub)
           d == PairDeadline(chain, read, due[f].at, p)
<1>1. /\ now \in Nat \ {0} /\ overlap \in [Rider -> [Pairs -> Nat]] /\ stripe[r] \in StripeType
      /\ chain \in [Key -> ChainType] /\ NoSub \in RecType /\ due[f].at \in Nat
  BY DEF TInv, Others, Inv, Types, NoSub, RecType, SubStates, NoEnd, DueType
<1>2. d # 0 /\ (due[f].at + Window > now => d > now)
  BY <1>1, DeadlineIs
<1>3. overlap' = [overlap EXCEPT ![r] = Swept(f, read)]
  BY DEF Sweep
<1> HIDE DEF read
<1>4. overlap'[r][p] = IF p \notin due[f].rows THEN overlap[r][p]
                       ELSE IF \E m \in p : MemberStopped(read, m) THEN 0
                       ELSE d
  BY <1>1, <1>3 DEF Swept
<1>5. p \subseteq read.sources => ~\E m \in p : MemberStopped(read, m)
  BY DEF MemberStopped
<1>6. \A q \in Rider \ {r} : overlap'[q] = overlap[q]
  BY <1>1, <1>3
<1> HIDE DEF d
<1> QED
  BY <1>2, <1>4, <1>5, <1>6 DEF read

SameSide(a, b) == a.owned = b.owned /\ a.renew = b.renew /\ a.end = b.end

\* But for the write of a Stripe flow that is not fenced out, the row's Stripe side only
\* gets newer observations.
LEMMA RowMoves ==
  ASSUME TInv, NEW f \in Flow, FlowStep(f), NEW r \in Rider,
         ~(Settle(f) /\ ~FencedOut(f) /\ r = rider(f))
  PROVE  /\ SameSide(stripe'[r], stripe[r])
         /\ stripe'[r].seen = stripe[r].seen \/ stripe'[r].seen = now
<1> USE DEF subVars, rowVars, lockVars, flowVars
<1>0. stripe \in [Rider -> StripeType]
  BY DEF TInv, Others
<1>r. pc[f] # "idle" => rider(f) \in Rider
  BY JobFacts DEF TInv, Inv, Asked, rider
<1>1. CASE UNCHANGED stripe
  BY <1>1 DEF SameSide
<1>2. CASE CommitChain(f) \/ CommitRecompute(f) \/ StripeSync(f)
  <2>0. rider(f) \in Rider
    BY <1>2, <1>r DEF CommitChain, CommitRecompute, StripeSync
  <2>t. /\ Touched(rider(f)) \in StripeType /\ SameSide(Touched(rider(f)), stripe[rider(f)])
        /\ Touched(rider(f)).seen = stripe[rider(f)].seen /\ NoSub \in RecType
        /\ record[f] \in RecType /\ chain \in [Key -> ChainType]
    BY <2>0, <1>0 DEF Touched, StripeType, SameSide, NoSub, RecType, SubStates, NoEnd, TInv,
                      Others, Inv, Types
  <2>1. CASE CommitRecompute(f)
    BY <2>1, <2>0, <2>t, <1>0 DEF CommitRecompute, SameSide
  <2>2. ASSUME NEW view \in [Key -> ChainType], NEW row \in StripeType, NEW rec \in RecType,
               SyncOverlaps(view, rider(f), row, rec), SameSide(row, stripe[rider(f)]),
               row.seen = stripe[rider(f)].seen
        PROVE  /\ SameSide(stripe'[r], stripe[r])
               /\ stripe'[r].seen = stripe[r].seen \/ stripe'[r].seen = now
    <3> DEFINE read == Reading(view, rider(f), row, rec)
               new == [row EXCEPT !.seen = IF read.observed THEN now ELSE @]
    <3>1. stripe' = [stripe EXCEPT ![rider(f)] = new]
      BY <2>2 DEF SyncOverlaps
    <3> HIDE DEF read
    <3>2. SameSide(new, stripe[rider(f)]) /\ (new.seen = stripe[rider(f)].seen \/ new.seen = now)
      BY <2>2 DEF SameSide, StripeType
    <3> HIDE DEF new
    <3> QED
      BY <3>1, <3>2, <2>0, <1>0 DEF SameSide
  <2>3. CASE CommitChain(f)
    BY <2>3, <2>2, <2>t, VisibleIs DEF CommitChain
  <2>4. CASE StripeSync(f)
    <3>1. SameSide(stripe[rider(f)], stripe[rider(f)]) /\ stripe[rider(f)] \in StripeType
      BY <2>0, <1>0 DEF SameSide
    <3> QED
      BY <2>4, <2>2, <2>t, <3>1 DEF StripeSync
  <2> QED
    BY <1>2, <2>1, <2>3, <2>4
<1>3. CASE Settle(f) /\ ~(~FencedOut(f) /\ r = rider(f))
  <2>1. \/ UNCHANGED stripe
        \/ stripe' = [stripe EXCEPT ![rider(f)] = Settled(@, record[f])] /\ r # rider(f)
    BY <1>3 DEF Settle
  <2>2. stripe'[r] = stripe[r]
    BY <2>1, <1>0
  <2> QED
    BY <2>2 DEF SameSide
<1>4. \/ UNCHANGED stripe
      \/ CommitChain(f) \/ CommitRecompute(f) \/ StripeSync(f) \/ Settle(f)
  BY DEF FlowStep, Begin, Acquire, ChainStep, UpdateChain, UpdateMisses, Classify, InsertChain,
         InsertClashes, Disambiguate, WriteChain, RollupStep, ReadRollup, StampRollup, Sweep,
         StripeStep, Fetch, Crash
<1> QED
  BY <1>1, <1>2, <1>3, <1>4

\* What the write leaves.
LEMMA SettledIs ==
  ASSUME NEW row \in StripeType, NEW rec \in RecType
  PROVE  /\ rec.state = "ended" => ~Settled(row, rec).owned
         /\ rec.state # "ended" => Says(Settled(row, rec), rec)
  BY DEF Settled, StripeType, RecType, SubStates, Says, Terminal

\* A step of a flow that does not end an unsynced write keeps it pending.
LEMMA PendingStays ==
  ASSUME TInv, NEW f \in Flow, FlowStep(f), NEW r, Pending(r),
         ~(StripeSync(f) /\ ~FencedOut(f) /\ r = rider(f))
  PROVE  Pending(r)'
<1> USE DEF subVars, rowVars, lockVars, flowVars
<1>1. PICK g \in Flow : Unsynced(g, r)
  BY DEF Pending
<1>2. CASE g # f
  <2>1. pc'[g] = pc[g] /\ job'[g] = job[g]
    BY <1>2, Frame
  <2> QED
    BY <1>1, <2>1 DEF Unsynced, Pending, rider
<1>3. CASE g = f
  <2>1. StripeSync(f) \/ Crash(f)
    BY <1>1, <1>3 DEF Unsynced, FlowStep, Begin, Acquire, ChainStep, UpdateChain, UpdateMisses,
         Classify, InsertChain, InsertClashes, Disambiguate, RollupStep, ReadRollup, StampRollup,
         CommitChain, CommitRecompute, Sweep, StripeStep, Fetch, Settle
  <2>2. UNCHANGED job /\ pc'[f] \in {"late", "crashed"}
    <3>0. pc \in [Flow -> PCs]
      BY DEF TInv, Inv, Types
    <3>1. CASE StripeSync(f)
      <4>1. FencedOut(f)
        BY <3>1, <1>1, <1>3 DEF Unsynced
      <4> QED
        BY <3>0, <3>1, <4>1 DEF StripeSync, Goto
    <3>2. CASE Crash(f)
      BY <3>0, <3>2 DEF Crash, Goto
    <3> QED
      BY <2>1, <3>1, <3>2
  <2> QED
    BY <1>1, <1>3, <2>2 DEF Unsynced, Pending, rider
<1> QED
  BY <1>2, <1>3

LEMMA FetchedKeeps ==
  ASSUME OInv, NEW f \in Flow, FlowStep(f) PROVE Fetched' /\ NoneIsNone'
<1> USE DEF subVars, rowVars, lockVars, flowVars, HasRead
<1>0. /\ pc \in [Flow -> PCs] /\ job \in [Flow -> Jobs \cup {NoJob}] /\ record \in [Flow -> RecType]
      /\ UNCHANGED sub /\ TInv
  BY Frame DEF OInv, TInv, Inv, Types, Others
<1>1. NoneIsNone'
  BY <1>0 DEF OInv, NoneIsNone
<1> DEFINE Fine(g) ==
             /\ pc[g] # "idle" /\ job[g].kind = "stripe" => sub[rider(g)].state # "none"
             /\ HasRead(g) \/ pc[g] = "fetch" => job[g].kind = "stripe"
             /\ HasRead(g) => /\ record[g].state # "none"
                              /\ record[g].state = "ended" => sub[rider(g)].state = "ended"
<1>2. Fine(f)
  BY DEF OInv, Fetched
<1>3. ASSUME NEW g \in Flow \ {f} PROVE Fine(g)'
  <2>1. pc'[g] = pc[g] /\ job'[g] = job[g] /\ record'[g] = record[g] /\ rider(g)' = rider(g)
    BY <1>0, Frame DEF rider
  <2>2. Fine(g)
    BY DEF OInv, Fetched
  <2> QED
    BY <2>1, <2>2, <1>0
<1>4. Fine(f)'
  <2>1. CASE Begin(f)
    <3>1. PICK j \in Jobs : /\ job' = [job EXCEPT ![f] = j]
                            /\ CASE j.kind = "chain"     -> j.seen <= now
                                 [] j.kind = "recompute" -> /\ rollup[j.rider].tier # 0
                                                            /\ rollup[j.rider].until <= now
                                 [] j.kind = "sweep"     -> DuePairs(j.rider) # {}
                                 [] OTHER                -> sub[j.rider] # NoSub
      BY <2>1 DEF Begin
    <3>2. job'[f] = j /\ pc'[f] = "acquire" /\ rider(f)' = j.rider /\ j.rider \in Rider
      BY <3>1, <2>1, <1>0, JobFacts DEF Begin, Goto, rider
    <3>3. j.kind = "stripe" => sub[j.rider].state # "none"
      BY <3>1, <3>2 DEF OInv, NoneIsNone
    <3> QED
      BY <3>2, <3>3, <1>0
  <2>2. CASE Acquire(f)
    <3>1. job[f] \in Jobs /\ job[f].kind \in Kinds
      BY <2>2, <1>0, JobFacts DEF Acquire, TInv, Inv, Asked
    <3>2. /\ pc'[f] \in {"update", "rollup", "sweep", "fetch"}
          /\ pc'[f] = "fetch" => job[f].kind = "stripe"
          /\ UNCHANGED <<job, record>> /\ rider(f)' = rider(f) /\ pc[f] # "idle"
      BY <2>2, <3>1, <1>0 DEF Acquire, Goto, Kinds, rider
    <3> QED
      BY <3>2, <1>0, <1>2
  <2>3. ASSUME UNCHANGED job, NEW to, Goto(f, to),
               to \notin {"fetch", "settle", "stripeSync"}, pc[f] # "idle"
        PROVE  Fine(f)'
    <3>1. pc'[f] = to /\ rider(f)' = rider(f)
      BY <2>3, <1>0 DEF Goto, rider
    <3> QED
      BY <3>1, <2>3, <1>0, <1>2
  <2>4. CASE Fetch(f)
    <3>1. CASE FencedOut(f)
      BY <3>1, <2>4, <2>3 DEF Fetch
    <3>2. CASE ~FencedOut(f)
      <4>1. /\ pc'[f] = "settle" /\ record'[f] = sub[rider(f)] /\ UNCHANGED job /\ pc[f] = "fetch"
            /\ rider(f)' = rider(f)
        BY <3>2, <2>4, <1>0 DEF Fetch, Goto, rider
      <4> QED
        BY <4>1, <1>0, <1>2
    <3> QED
      BY <3>1, <3>2
  <2>5. CASE Settle(f)
    <3>1. /\ UNCHANGED <<job, record>> /\ pc[f] = "settle" /\ pc'[f] \in {"busy", "stripeSync"}
          /\ rider(f)' = rider(f)
      BY <2>5, <1>0 DEF Settle, Goto, rider
    <3> QED
      BY <3>1, <1>0, <1>2
  <2>6. CASE StripeSync(f)
    BY <2>6, <2>3 DEF StripeSync
  <2>7. CASE ChainStep(f)
    <3>1. UNCHANGED <<job, record>> /\ pc[f] # "idle"
      BY <2>7 DEF ChainStep, UpdateChain, UpdateMisses, Classify, InsertChain, InsertClashes,
                  Disambiguate, WriteChain, CommitChain
    <3>2. PICK to \in {"rollup", "classify", "insert", "busy", "stale", "disambiguate", "conflict",
                       "claimed"} : Goto(f, to)
      BY <2>7 DEF ChainStep, UpdateChain, UpdateMisses, Classify, InsertChain, InsertClashes,
                  Disambiguate, WriteChain, CommitChain
    <3> QED
      BY <3>1, <3>2, <2>3
  <2>8. CASE RollupStep(f)
    <3>1. UNCHANGED <<job, record>> /\ pc[f] # "idle"
      BY <2>8 DEF RollupStep, ReadRollup, StampRollup, CommitRecompute
    <3>2. PICK to \in {"stamp", "sync", "busy", "done"} : Goto(f, to)
      BY <2>8 DEF RollupStep, ReadRollup, StampRollup, CommitRecompute
    <3> QED
      BY <3>1, <3>2, <2>3
  <2>9. CASE Sweep(f)
    BY <2>9, <2>3 DEF Sweep
  <2>10. CASE Crash(f)
    BY <2>10, <2>3 DEF Crash, Running
  <2> QED
    BY <2>1, <2>2, <2>4, <2>5, <2>6, <2>7, <2>8, <2>9, <2>10 DEF FlowStep, StripeStep
<1>5. \A g \in Flow : Fine(g)'
  BY <1>3, <1>4
<1> QED
  BY <1>1, <1>5 DEF Fetched

\* The write of a Stripe flow that is not fenced out.
LEMMA SettleIs ==
  ASSUME OInv, NEW f \in Flow, Settle(f), ~FencedOut(f)
  PROVE  /\ rider(f) \in Rider /\ pc[f] = "settle" /\ pc'[f] = "stripeSync"
         /\ UNCHANGED <<overlap, chain, sub, now, fence, token, job, record>>
         /\ stripe[rider(f)] \in StripeType /\ record[f] \in RecType
         /\ stripe'[rider(f)] = Settled(stripe[rider(f)], record[f])
         /\ \A r \in Rider \ {rider(f)} : stripe'[r] = stripe[r]
         /\ \A r : r = rider(f) => Unsynced(f, r)'
<1>1. pc[f] = "settle" /\ job[f].kind = "stripe" /\ job[f] \in Jobs /\ rider(f) \in Rider
  BY JobFacts DEF Settle, HasRead, OInv, Fetched, TInv, Inv, Asked, rider
<1>2. /\ pc \in [Flow -> PCs] /\ stripe \in [Rider -> StripeType] /\ record \in [Flow -> RecType]
  BY DEF OInv, TInv, Inv, Types, Others
<1>3. /\ pc'[f] = "stripeSync" /\ UNCHANGED <<overlap, chain, sub, now, fence, token, job, record>>
      /\ stripe' = [stripe EXCEPT ![rider(f)] = Settled(@, record[f])]
  BY <1>2 DEF Settle, Goto, subVars, flowVars
<1>4. job[f] # NoJob
  BY <1>1 DEF NoJob, Kinds
<1> QED
  BY <1>1, <1>2, <1>3, <1>4 DEF Unsynced, rider

\* Who is fenced out stays so.
LEMMA FencedStays ==
  ASSUME TInv, NEW f \in Flow, FlowStep(f), NEW g \in Flow, pc[g] # "idle",
         job'[g] = job[g], token'[g] = token[g], ~FencedOut(g)'
  PROVE  ~FencedOut(g)
<1>1. rider(g) \in Rider /\ rider(g)' = rider(g)
  BY JobFacts DEF TInv, Inv, Asked, rider
<1>2. fence[rider(g)] <= fence'[rider(g)] /\ fence[rider(g)] \in Nat /\ token[g] \in Nat
  BY <1>1, Frame DEF TInv, Inv, Types
<1>3. fence'[rider(g)] \in Nat
  BY <1>1, InvKept DEF TInv, Inv, Types, Next, FlowStep
<1> QED
  BY <1>1, <1>2, <1>3 DEF FencedOut

\* Of two flows of a rider that have begun, one that is not fenced out has the newer token.
LEMMA OneNewest ==
  ASSUME Inv, NEW f \in Flow, NEW g \in Flow \ {f}, Begun(f), Begun(g), rider(f) = rider(g),
         ~FencedOut(f)
  PROVE  token[g] < token[f] /\ FencedOut(g)
<1>1. rider(f) \in Rider
  BY JobFacts DEF Inv, Asked, rider, Begun
<1>2. /\ token[f] <= fence[rider(f)] /\ token[g] <= fence[rider(f)] /\ token[f] # token[g]
      /\ token[f] \in Nat /\ token[g] \in Nat /\ fence[rider(f)] \in Nat
  BY <1>1 DEF Inv, Fences, Types
<1> QED
  BY <1>2 DEF FencedOut

\* A flow that has read Stripe had done so before the step, or reads it now.
LEMMA ReadsOn ==
  ASSUME OInv, NEW f \in Flow, FlowStep(f), NEW g \in Flow, HasRead(g)'
  PROVE  /\ rider(g)' = rider(g) /\ rider(g) \in Rider /\ token'[g] = token[g] /\ Begun(g)
         /\ \/ HasRead(g) /\ record'[g] = record[g]
            \/ g = f /\ Fetch(f) /\ ~FencedOut(f) /\ record'[g] = sub[rider(g)]
         /\ ~FencedOut(g)' => ~FencedOut(g)
         /\ pc'[g] = "stripeSync" => \/ pc[g] = "stripeSync" /\ g # f
                                     \/ g = f /\ Settle(f) /\ ~FencedOut(f)
<1> USE DEF subVars, rowVars, lockVars, flowVars, HasRead
<1>t. TInv /\ Inv /\ pc \in [Flow -> PCs] /\ record \in [Flow -> RecType]
  BY DEF OInv, TInv, Inv, Types, Others
<1>1. CASE g # f
  <2>1. /\ pc'[g] = pc[g] /\ job'[g] = job[g] /\ token'[g] = token[g] /\ record'[g] = record[g]
    BY <1>1, <1>t, Frame
  <2> QED
    BY <2>1, <1>1, <1>t, JobFacts, FencedStays DEF rider, Inv, Asked, Begun
<1>2. CASE g = f
  <2>1. Fetch(f) \/ Settle(f)
    <3>1. ASSUME NEW to, Goto(f, to), to \notin {"settle", "stripeSync"} PROVE FALSE
      BY <3>1, <1>2, <1>t DEF Goto
    <3>2. \/ Fetch(f) \/ Settle(f)
          \/ \E to \in {"acquire", "update", "rollup", "sweep", "fetch", "classify", "insert", "busy",
                         "stale", "disambiguate", "conflict", "claimed", "stamp", "sync", "done",
                         "late", "crashed"} : Goto(f, to)
      BY DEF FlowStep, Begin, Acquire, ChainStep, UpdateChain, UpdateMisses, Classify,
         InsertChain, InsertClashes, Disambiguate, WriteChain, CommitChain, RollupStep, ReadRollup,
         StampRollup, CommitRecompute, Sweep, StripeStep, StripeSync, Crash
    <3> QED
      BY <3>1, <3>2
  <2>2. ~FencedOut(f)
    BY <2>1, <1>2, <1>t DEF Fetch, Settle, Goto
  <2>3. UNCHANGED <<job, token, fence>> /\ pc[f] \in {"fetch", "settle"} /\ rider(f)' = rider(f)
    BY <2>1 DEF Fetch, Settle, rider
  <2>4. \/ HasRead(f) /\ record'[f] = record[f] /\ Settle(f)
        \/ Fetch(f) /\ record'[f] = sub[rider(f)] /\ pc'[f] = "settle"
    BY <2>1, <2>2, <1>2, <1>t DEF Fetch, Settle, Goto
  <2> QED
    BY <2>2, <2>3, <2>4, <1>2, <1>t, JobFacts DEF Inv, Asked, Begun, rider
<1> QED
  BY <1>1, <1>2

\* What an acknowledgement says.
LEMMA AckedIs ==
  ASSUME OInv, NEW f \in Flow, FlowStep(f), NEW r \in Rider
  PROVE  \/ acked'[r] = acked[r]
         \/ /\ StripeSync(f) /\ r = rider(f) /\ HasRead(f) /\ pc[f] = "stripeSync" /\ Begun(f)
            /\ acked'[r] = record[f].version
<1> USE DEF subVars, rowVars, lockVars, flowVars
<1>1. acked \in [Rider -> Nat]
  BY DEF OInv, TInv, Others
<1>2. CASE StripeSync(f)
  <2>1. /\ acked' = [acked EXCEPT ![rider(f)] = IF @ < record[f].version THEN record[f].version ELSE @]
        /\ pc[f] = "stripeSync"
    BY <1>2 DEF StripeSync
  <2> QED
    BY <2>1, <1>1, <1>2 DEF HasRead, Begun
<1>3. CASE ~StripeSync(f)
  BY <1>3 DEF FlowStep, Begin, Acquire, ChainStep, UpdateChain, UpdateMisses, Classify, InsertChain,
     InsertClashes, Disambiguate, WriteChain, CommitChain, RollupStep, ReadRollup, StampRollup,
     CommitRecompute, Sweep, StripeStep, Fetch, Settle, Crash
<1> QED
  BY <1>2, <1>3

LEMMA VersionsKeeps ==
  ASSUME OInv, NEW f \in Flow, FlowStep(f) PROVE Versions' /\ Ordered'
<1>t. /\ TInv /\ Inv /\ sub' = sub /\ sub \in [Rider -> RecType] /\ acked \in [Rider -> Nat]
      /\ record \in [Flow -> RecType] /\ token \in [Flow -> Nat] /\ fence \in [Rider -> Nat]
  BY Frame DEF OInv, TInv, Others, Inv, Types
<1>v. Versions /\ Ordered
  BY DEF OInv
<1>1. ASSUME NEW r \in Rider PROVE acked'[r] <= sub[r].version
  BY <1>v, AckedIs DEF Versions
<1>2. ASSUME NEW g \in Flow, HasRead(g)'
      PROVE  /\ record'[g].version <= sub[rider(g)'].version
             /\ record'[g].version = sub[rider(g)'].version => record'[g] = sub[rider(g)']
             /\ ~FencedOut(g)' => acked'[rider(g)'] <= record'[g].version
  <2>r. rider(g)' = rider(g) /\ rider(g) \in Rider /\ Begun(g)
    BY <1>2, ReadsOn
  <2>1. CASE HasRead(g) /\ record'[g] = record[g]
    <3>1. ASSUME ~FencedOut(g)' PROVE acked'[rider(g)] <= record[g].version
      <4>1. ~FencedOut(g)
        BY <3>1, <1>2, ReadsOn
      <4>2. CASE acked'[rider(g)] = acked[rider(g)]
        BY <4>1, <4>2, <2>1, <1>v DEF Versions
      <4>3. CASE /\ StripeSync(f) /\ rider(g) = rider(f) /\ HasRead(f) /\ Begun(f)
                 /\ acked'[rider(g)] = record[f].version
        <5>1. CASE f = g
          <6>1. record[f] \in RecType
            BY <1>t
          <6> QED
            BY <4>3, <5>1, <6>1 DEF RecType
        <5>2. CASE f # g
          <6>1. token[f] < token[g]
            BY <4>1, <4>3, <5>2, <2>r, <1>t, OneNewest
          <6> QED
            BY <6>1, <4>3, <2>1, <1>v DEF Ordered
        <5> QED
          BY <5>1, <5>2
      <4> QED
        BY <4>2, <4>3, <2>r, AckedIs
    <3> QED
      BY <2>1, <2>r, <3>1, <1>v DEF Versions
  <2>2. CASE g = f /\ Fetch(f) /\ record'[g] = sub[rider(g)]
    <3>1. sub[rider(g)] \in RecType
      BY <2>r, <1>t
    <3> QED
      BY <3>1, <2>2, <2>r, <1>1 DEF RecType
  <2> QED
    BY <1>2, <2>1, <2>2, ReadsOn
<1>3. ASSUME NEW g \in Flow, NEW h \in Flow, HasRead(g)', HasRead(h)', rider(g)' = rider(h)',
             token'[g] < token'[h]
      PROVE  record'[g].version <= record'[h].version
  <2>r. /\ rider(g) = rider(h) /\ rider(g) \in Rider /\ token[g] < token[h] /\ Begun(g) /\ Begun(h)
    BY <1>3, ReadsOn
  <2>1. CASE HasRead(g) /\ record'[g] = record[g] /\ HasRead(h) /\ record'[h] = record[h]
    BY <2>1, <2>r, <1>v DEF Ordered
  <2>2. CASE HasRead(g) /\ record'[g] = record[g] /\ record'[h] = sub[rider(h)]
    BY <2>2, <2>r, <1>v DEF Versions
  <2>3. ~(g = f /\ ~FencedOut(f) /\ Fetch(f))
    <3>1. token[g] \in Nat /\ token[h] \in Nat
      BY <1>t
    <3> QED
      BY <3>1, <2>r, <1>t, OneNewest
  <2> QED
    BY <1>3, <2>1, <2>2, <2>3, ReadsOn
<1>4. Versions'
  BY <1>t, <1>1, <1>2 DEF Versions
<1>5. Ordered'
  BY <1>3 DEF Ordered
<1> QED
  BY <1>4, <1>5

LEMMA MirrorsKeeps ==
  ASSUME OInv, NEW f \in Flow, FlowStep(f) PROVE Mirrors'
<1>t. TInv /\ Inv
  BY DEF OInv, TInv
<1> SUFFICES ASSUME NEW g \in Flow, pc'[g] = "stripeSync", ~FencedOut(g)'
             PROVE  IF record'[g].state = "ended" THEN ~stripe'[rider(g)'].owned
                    ELSE Says(stripe'[rider(g)'], record'[g])
  BY DEF Mirrors, Says
<1>r. /\ rider(g)' = rider(g) /\ rider(g) \in Rider /\ Begun(g) /\ ~FencedOut(g)
      /\ \/ pc[g] = "stripeSync" /\ g # f
         \/ g = f /\ Settle(f)
  BY ReadsOn DEF HasRead
<1>1. CASE g = f /\ Settle(f)
  BY <1>1, <1>r, SettleIs, SettledIs
<1>2. CASE pc[g] = "stripeSync" /\ g # f
  <2>1. record'[g] = record[g]
    BY <1>2, <1>t, Frame
  <2>2. IF record[g].state = "ended" THEN ~stripe[rider(g)].owned
        ELSE Says(stripe[rider(g)], record[g])
    BY <1>2, <1>r DEF OInv, Mirrors
  <2>3. ~(Settle(f) /\ ~FencedOut(f) /\ rider(g) = rider(f))
    BY <1>2, <1>r, <1>t, OneNewest DEF Settle, Begun
  <2>4. SameSide(stripe'[rider(g)], stripe[rider(g)])
    BY <1>r, <2>3, <1>t, RowMoves
  <2> QED
    BY <1>r, <2>1, <2>2, <2>4 DEF SameSide, Says
<1> QED
  BY <1>1, <1>2, <1>r

LEMMA AgreedKeeps ==
  ASSUME OInv, NEW f \in Flow, FlowStep(f) PROVE Agreed'
<1>t. /\ TInv /\ Inv /\ sub' = sub /\ sub \in [Rider -> RecType] /\ acked \in [Rider -> Nat]
      /\ record \in [Flow -> RecType] /\ Versions /\ Ordered
  BY Frame DEF OInv, TInv, Others
<1> SUFFICES ASSUME NEW r \in Rider, Charges(sub[r]), acked'[r] = sub[r].version \/ Settling(r)'
             PROVE  RowAgrees(r)'
  BY <1>t DEF Agreed, Charges
\* Whoever has written the current version in the new state had done so, or does it now.
<1>k. ASSUME Settling(r)'
      PROVE  \/ \E g \in Flow \ {f} : /\ pc[g] = "stripeSync" /\ rider(g) = r
                                       /\ record[g].version = sub[r].version
             \/ /\ rider(f) = r /\ Settle(f) /\ ~FencedOut(f)
                /\ record[f].version = sub[r].version
  <2>1. PICK g \in Flow : pc'[g] = "stripeSync" /\ rider(g)' = r /\ record'[g].version = sub[r].version
    BY <1>k, <1>t DEF Settling
  <2>2. HasRead(g)'
    BY <2>1 DEF HasRead
  <2>3. /\ rider(g) = r
        /\ \/ pc[g] = "stripeSync" /\ g # f
           \/ g = f /\ Settle(f) /\ ~FencedOut(f)
    BY <2>1, <2>2, ReadsOn
  <2>4. record'[g] = record[g]
    BY <2>3, <1>t, Frame, SettleIs
  <2> QED
    BY <2>1, <2>3, <2>4
<1>1. CASE Settle(f) /\ ~FencedOut(f) /\ r = rider(f)
  <2>0. HasRead(f) /\ Begun(f) /\ record[f] \in RecType /\ sub[r] \in RecType /\ acked'[r] = acked[r]
    BY <1>1, <1>t, AckedIs DEF Settle, HasRead, Begun, StripeSync
  <2>1. record[f].version <= sub[r].version /\ acked[r] <= record[f].version
    BY <2>0, <1>1, <1>t DEF Versions
  <2>2. record[f].version = sub[r].version
    <3>1. CASE acked'[r] = sub[r].version
      <4>1. record[f].version \in Nat /\ sub[r].version \in Nat
        BY <2>0 DEF RecType
      <4> QED
        BY <4>1, <2>0, <2>1, <3>1
    <3>2. ASSUME NEW g \in Flow \ {f}, pc[g] = "stripeSync", rider(g) = r,
                 record[g].version = sub[r].version
          PROVE  record[f].version = sub[r].version
      <4>1. HasRead(g) /\ Begun(g)
        BY <3>2 DEF HasRead, Begun
      <4>2. token[g] < token[f]
        BY <4>1, <2>0, <1>1, <3>2, <1>t, OneNewest
      <4>3. record[g].version <= record[f].version
        BY <4>1, <4>2, <2>0, <1>1, <3>2, <1>t DEF Ordered
      <4> QED
        BY <4>3, <2>0, <2>1, <3>2 DEF RecType
    <3> QED
      BY <3>1, <3>2, <1>k
  <2>3. record[f] = sub[r]
    BY <2>0, <2>2, <1>1, <1>t DEF Versions
  <2>4. stripe'[r] = Settled(stripe[r], sub[r]) /\ stripe[r] \in StripeType
    BY <1>1, <2>3, SettleIs
  <2> QED
    BY <2>0, <2>4, <1>t, SettledIs DEF RowAgrees, Says, Charges, Terminal
<1>2. CASE ~(Settle(f) /\ ~FencedOut(f) /\ r = rider(f))
  <2>1. acked[r] = sub[r].version \/ Settling(r)
    <3>1. CASE Settling(r)'
      BY <3>1, <1>k, <1>2 DEF Settling
    <3>2. CASE acked'[r] = sub[r].version
      BY <3>2, AckedIs DEF Settling
    <3> QED
      BY <3>1, <3>2
  <2>2. RowAgrees(r)
    BY <2>1 DEF OInv, Agreed
  <2>3. SameSide(stripe'[r], stripe[r])
    BY <1>2, <1>t, RowMoves
  <2> QED
    BY <2>2, <2>3, <1>t DEF RowAgrees, SameSide
<1> QED
  BY <1>1, <1>2

\* What a sync at the Stripe settle points does.
LEMMA StripeSyncIs ==
  ASSUME OInv, NEW f \in Flow, StripeSync(f)
  PROVE  LET r == rider(f)
             read == Reading(chain, r, stripe[r], record[f])
         IN  /\ r \in Rider /\ pc[f] = "stripeSync" /\ stripe[r] \in StripeType
             /\ record[f] \in RecType /\ record[f] # NoSub /\ record[f].state # "none"
             /\ pc'[f] = (IF FencedOut(f) THEN "late" ELSE "done")
             /\ SyncOverlaps(chain, r, stripe[r], record[f])
             /\ stripe'[r] = [stripe[r] EXCEPT !.seen = IF read.observed THEN now ELSE @]
             /\ UNCHANGED <<now, sub, chain, job, fence, token>>
             /\ job[f] # NoJob /\ job[f].kind = "stripe" /\ chain \in [Key -> ChainType]
<1> DEFINE r == rider(f)
           read == Reading(chain, r, stripe[r], record[f])
<1>1. pc[f] = "stripeSync" /\ job[f].kind = "stripe" /\ job[f] \in Jobs /\ rider(f) \in Rider
  BY JobFacts DEF StripeSync, HasRead, OInv, Fetched, TInv, Inv, Asked, rider
<1>2. /\ pc \in [Flow -> PCs] /\ stripe \in [Rider -> StripeType] /\ record \in [Flow -> RecType]
      /\ chain \in [Key -> ChainType]
  BY DEF OInv, TInv, Inv, Types, Others
<1>3. record[f].state # "none" /\ record[f] # NoSub
  BY <1>1 DEF OInv, Fetched, HasRead, NoSub
<1>4. /\ pc'[f] = (IF FencedOut(f) THEN "late" ELSE "done")
      /\ SyncOverlaps(chain, r, stripe[r], record[f]) /\ UNCHANGED <<now, sub, chain, job, fence, token>>
  BY <1>2 DEF StripeSync, Goto
<1>5. stripe'[r] = [stripe[r] EXCEPT !.seen = IF read.observed THEN now ELSE @]
  <2>1. stripe' = [stripe EXCEPT ![r] = [stripe[r] EXCEPT !.seen = IF read.observed THEN now ELSE @]]
    BY <1>4 DEF SyncOverlaps
  <2> HIDE DEF read
  <2> QED
    BY <2>1, <1>1, <1>2
<1> QED
  BY <1>1, <1>2, <1>3, <1>4, <1>5 DEF NoJob

LEMMA ObservedKeeps ==
  ASSUME OInv, NEW f \in Flow, FlowStep(f) PROVE Observed'
<1> SUFFICES ASSUME NEW r \in Rider, stripe'[r].owned, stripe'[r].renew, stripe'[r].seen = 0
             PROVE Pending(r)'
  BY DEF Observed
<1>t. TInv /\ now \in Nat \ {0}
  BY DEF OInv, TInv, Others
<1>1. CASE Settle(f) /\ ~FencedOut(f) /\ r = rider(f)
  BY <1>1, SettleIs DEF Pending
<1>2. CASE ~(Settle(f) /\ ~FencedOut(f) /\ r = rider(f))
  <2>1. stripe[r].owned /\ stripe[r].renew /\ stripe[r].seen = 0
    BY <1>t, <1>2, RowMoves DEF SameSide
  <2>2. Pending(r)
    BY <2>1 DEF OInv, Observed
  <2>3. CASE ~(StripeSync(f) /\ ~FencedOut(f) /\ r = rider(f))
    BY <2>2, <2>3, <1>t, PendingStays
  <2>4. CASE StripeSync(f) /\ ~FencedOut(f) /\ r = rider(f)
    <3>1. ~Terminal(record[f])
      BY <2>1, <2>4, StripeSyncIs DEF OInv, Mirrors, Says, Terminal
    <3>2. Reading(chain, r, stripe[r], record[f]).observed
      <4>1. /\ chain \in [Key -> ChainType] /\ stripe[r] \in StripeType /\ record[f] \in RecType
            /\ record[f] # NoSub
        BY <2>4, StripeSyncIs
      <4> QED
        BY <4>1, <2>1, <3>1, StripeSeen
    <3>3. stripe'[r].seen = now
      <4> DEFINE o == Reading(chain, r, stripe[r], record[f]).observed
      <4>1. stripe'[r] = [stripe[r] EXCEPT !.seen = IF o THEN now ELSE @] /\ stripe[r] \in StripeType
        BY <2>4, StripeSyncIs
      <4> HIDE DEF o
      <4> QED
        BY <4>1, <3>2 DEF StripeType, o
    <3> QED
      BY <3>3, <1>t
  <2> QED
    BY <2>3, <2>4
<1> QED
  BY <1>1, <1>2

LEMMA DueOpenKeeps ==
  ASSUME OInv, NEW f \in Flow, FlowStep(f) PROVE DueOpen'
<1> USE DEF subVars, rowVars, lockVars, flowVars
<1>0. /\ pc \in [Flow -> PCs] /\ job \in [Flow -> Jobs \cup {NoJob}] /\ due \in [Flow -> DueType]
      /\ overlap \in [Rider -> [Pairs -> Nat]] /\ TInv /\ Inv
  BY DEF OInv, TInv, Inv, Types, Others
<1>r. \A g \in Flow : pc[g] # "idle" => rider(g) \in Rider /\ job[g] \in Jobs /\ job[g] # NoJob
  BY <1>0, JobFacts DEF Inv, Asked, rider, NoJob, Kinds
<1>1. ASSUME UNCHANGED <<job, due, overlap>>, pc[f] # "idle" PROVE DueOpen'
  <2> SUFFICES ASSUME NEW g \in Flow, pc'[g] # "idle"
               PROVE  \A p \in due'[g].rows : overlap'[rider(g)'][p] # 0
    BY DEF DueOpen
  <2>1. pc[g] # "idle" /\ rider(g)' = rider(g)
    BY <1>1, <1>0, Frame DEF rider
  <2> QED
    BY <2>1, <1>1 DEF OInv, DueOpen
<1>2. ASSUME UNCHANGED job, pc[f] # "idle", Forget(rider(f)),
             \A q \in Rider \ {rider(f)} : overlap'[q] = overlap[q]
      PROVE  DueOpen'
  <2> SUFFICES ASSUME NEW g \in Flow, pc'[g] # "idle", NEW p \in due'[g].rows
               PROVE  overlap'[rider(g)'][p] # 0
    BY DEF DueOpen
  <2>1. pc[g] # "idle" /\ rider(g)' = rider(g) /\ rider(g) \in Rider /\ job[g] # NoJob
    BY <1>2, <1>0, <1>r, Frame DEF rider
  <2>2. due'[g] = IF rider(g) = rider(f)
                  THEN [due[g] EXCEPT !.rows = {x \in @ : overlap'[rider(f)][x] # 0}]
                  ELSE due[g]
    BY <1>2, <2>1 DEF Forget
  <2>3. CASE rider(g) = rider(f)
    <3>1. due[g] \in DueType
      BY <1>0
    <3>2. due'[g].rows = {x \in due[g].rows : overlap'[rider(f)][x] # 0}
      BY <3>1, <2>2, <2>3 DEF DueType
    <3> QED
      BY <3>2, <2>1, <2>3
  <2>4. CASE rider(g) # rider(f)
    BY <2>1, <2>2, <2>4, <1>2 DEF OInv, DueOpen
  <2> QED
    BY <2>3, <2>4
<1>3. CASE Begin(f)
  <2>1. PICK j \in Jobs :
          /\ job' = [job EXCEPT ![f] = j]
          /\ due' = [due EXCEPT ![f] = IF j.kind = "sweep"
                                       THEN [rows |-> DuePairs(j.rider), at |-> now] ELSE NotDue]
    BY <1>3 DEF Begin
  <2> SUFFICES ASSUME NEW g \in Flow, pc'[g] # "idle", NEW p \in due'[g].rows
               PROVE  overlap'[rider(g)'][p] # 0
    BY DEF DueOpen
  <2>2. overlap' = overlap
    BY <1>3 DEF Begin
  <2>3. CASE g = f
    <3>1. rider(f)' = j.rider /\ p \in DuePairs(j.rider)
      BY <2>1, <2>3, <1>0 DEF rider, NotDue
    <3> QED
      BY <2>2, <2>3, <3>1 DEF DuePairs
  <2>4. CASE g # f
    <3>1. pc[g] # "idle" /\ due'[g] = due[g] /\ rider(g)' = rider(g)
      BY <2>1, <2>4, <1>0, Frame DEF rider
    <3> QED
      BY <3>1, <2>2 DEF OInv, DueOpen
  <2> QED
    BY <2>3, <2>4
<1>4. CASE CommitChain(f) \/ StripeSync(f) \/ Sweep(f)
  <2>1. pc[f] # "idle" /\ UNCHANGED job /\ Forget(rider(f)) /\ rider(f) \in Rider
    BY <1>4, <1>r DEF CommitChain, StripeSync, Sweep, SyncOverlaps
  <2>2. \A q \in Rider \ {rider(f)} : overlap'[q] = overlap[q]
    <3>1. PICK v : overlap' = [overlap EXCEPT ![rider(f)] = v]
      BY <1>4, Zenon DEF CommitChain, StripeSync, Sweep, SyncOverlaps
    <3> QED
      BY <3>1, <1>0
  <2> QED
    BY <2>1, <2>2, <1>2
<1> QED
  BY <1>1, <1>3, <1>4 DEF FlowStep, Acquire, ChainStep, UpdateChain, UpdateMisses, Classify,
     InsertChain, InsertClashes, Disambiguate, WriteChain, RollupStep, ReadRollup, StampRollup,
     CommitRecompute, StripeStep, Fetch, Settle, Crash, Running

\* What the commit of a chain has in hand.
LEMMA CommitIs ==
  ASSUME OInv, NEW f \in Flow, CommitChain(f)
  PROVE  LET r == rider(f)
         IN  /\ r \in Rider /\ Visible(f) \in [Key -> ChainType] /\ Touched(r) \in StripeType
             /\ NoSub \in RecType /\ SyncOverlaps(Visible(f), r, Touched(r), NoSub)
             /\ chain' = Visible(f) /\ now' = now /\ sub' = sub
             /\ SameSide(Touched(r), stripe[r]) /\ stripe'[r] = Touched(r)
<1>1. rider(f) \in Rider /\ stripe \in [Rider -> StripeType] /\ now \in Nat \ {0} /\ TInv
  BY JobFacts DEF CommitChain, OInv, TInv, Inv, Asked, rider, Others
<1>2. /\ Touched(rider(f)) \in StripeType /\ SameSide(Touched(rider(f)), stripe[rider(f)])
      /\ NoSub \in RecType
  BY <1>1 DEF Touched, StripeType, SameSide, NoSub, RecType, SubStates, NoEnd
<1>3. /\ SyncOverlaps(Visible(f), rider(f), Touched(rider(f)), NoSub)
      /\ chain' = Visible(f) /\ now' = now /\ sub' = sub
  BY DEF CommitChain, subVars
<1>4. Visible(f) \in [Key -> ChainType]
  BY <1>1, VisibleIs
<1>5. stripe'[rider(f)] = Touched(rider(f))
  <2> DEFINE o == Reading(Visible(f), rider(f), Touched(rider(f)), NoSub).observed
  <2>1. ~o
    BY <1>1, <1>2, <1>4, StripeSeen
  <2>2. stripe' = [stripe EXCEPT ![rider(f)] =
                     [Touched(rider(f)) EXCEPT !.seen = IF o THEN now ELSE @]]
    BY <1>3 DEF SyncOverlaps
  <2> HIDE DEF o
  <2>3. [Touched(rider(f)) EXCEPT !.seen = IF o THEN now ELSE @] = Touched(rider(f))
    BY <2>1, <1>2 DEF StripeType
  <2> QED
    BY <2>2, <2>3, <1>1
<1> QED
  BY <1>1, <1>2, <1>3, <1>4, <1>5

\* What a sweep has in hand.
LEMMA SweepIs ==
  ASSUME OInv, NEW f \in Flow, Sweep(f)
  PROVE  /\ rider(f) \in Rider /\ stripe[rider(f)] \in StripeType /\ NoSub \in RecType
         /\ chain \in [Key -> ChainType] /\ UNCHANGED <<now, sub, chain, stripe>>
         /\ pc[f] = "sweep" /\ now \in Nat \ {0}
<1>1. rider(f) \in Rider /\ pc[f] = "sweep" /\ UNCHANGED <<now, sub, chain, stripe>>
  BY JobFacts DEF Sweep, subVars, rowVars, OInv, TInv, Inv, Asked, rider
<1> QED
  BY <1>1 DEF OInv, TInv, Inv, Types, Others, NoSub, RecType, SubStates, NoEnd

\* Who changes the pairs of r.
LEMMA WhoPairs ==
  ASSUME OInv, NEW f \in Flow, FlowStep(f), NEW r \in Rider, overlap'[r] # overlap[r]
  PROVE  r = rider(f) /\ (CommitChain(f) \/ StripeSync(f) \/ Sweep(f))
<1>1. overlap \in [Rider -> [Pairs -> Nat]]
  BY DEF OInv, TInv, Others
<1>2. CommitChain(f) \/ StripeSync(f) \/ Sweep(f) \/ UNCHANGED overlap
  BY DEF FlowStep, Begin, Acquire, ChainStep, UpdateChain, UpdateMisses, Classify,
     InsertChain, InsertClashes, Disambiguate, WriteChain, RollupStep, ReadRollup, StampRollup,
     CommitRecompute, StripeStep, Fetch, Settle, Crash, subVars, rowVars, lockVars, flowVars
<1>3. ASSUME CommitChain(f) \/ StripeSync(f) \/ Sweep(f)
      PROVE  \E v : overlap' = [overlap EXCEPT ![rider(f)] = v]
  BY <1>3, Zenon DEF CommitChain, StripeSync, Sweep, SyncOverlaps
<1> QED
  BY <1>1, <1>2, <1>3

\* A pair that has to have a row.
NeedsRow(r, p) == /\ \A m \in p : RowBills(r, m)
                  /\ Stripe \in p => ~Pending(r)

LEMMA TrackedIs ==
  OverlapTracked <=> \A r \in Rider : \A p \in Pairs : NeedsRow(r, p) => overlap[r][p] # 0
<1>1. \A r : ~Pending(r) <=> \A f \in Flow : job[f] # NoJob /\ rider(f) = r /\ job[f].kind = "stripe"
                                         => pc[f] \notin {"stripeSync", "crashed", "late"}
  BY DEF Pending, Unsynced
<1> QED
  BY <1>1 DEF OverlapTracked, NeedsRow

\* A reading without a Stripe record sees exactly what the row and the chains say.
LEMMA RowReading ==
  ASSUME NEW view \in [Key -> ChainType], NEW r \in Rider, NEW row \in StripeType,
         NoSub \in RecType, now \in Nat \ {0}, NEW m \in Member
  PROVE  m \in Reading(view, r, row, NoSub).sources <=>
           IF m = Stripe THEN row.owned /\ FutureBilling(StripeSource(row), now)
           ELSE view[m].owner = r /\ FutureBilling(view[m], now)
<1> DEFINE S == Reading(view, r, row, NoSub).sources
<1>1. \A k \in Key : k \in S <=> view[k].owner = r /\ FutureBilling(view[k], now)
  BY ReadingIs
<1>2. Stripe \in S <=> row.owned /\ FutureBilling(StripeSource(row), now)
  BY StripeSeen
<1> HIDE DEF S
<1>3. m # Stripe => m \in Key
  BY DEF Member
<1> QED
  BY <1>1, <1>2, <1>3 DEF S

LEMMA TrackedKeeps ==
  ASSUME OInv, NEW f \in Flow, FlowStep(f) PROVE OverlapTracked'
<1>t. /\ TInv /\ Inv /\ now' = now /\ sub' = sub /\ now \in Nat \ {0}
      /\ stripe \in [Rider -> StripeType] /\ chain \in [Key -> ChainType]
  BY Frame DEF OInv, TInv, Others, Inv, Types
<1>p. OverlapTracked' <=> (\A r \in Rider : \A p \in Pairs : NeedsRow(r, p) => overlap[r][p] # 0)'
  BY TrackedIs, PTL
<1> SUFFICES ASSUME NEW r \in Rider, NEW p \in Pairs, NeedsRow(r, p)' PROVE overlap'[r][p] # 0
  BY <1>p
<1>q. p \subseteq Member
  BY DEF Pairs
<1>b. \A m \in p : RowBills(r, m)'
  BY DEF NeedsRow
\* Nothing makes a chain of r bill but its own commit, nor the Stripe side but its write
\* and an observation.
<1>k. ASSUME NEW m \in p, m # Stripe, ~(CommitChain(f) /\ r = rider(f)) PROVE RowBills(r, m)
  <2>1. m \in Key /\ chain'[m].owner = r /\ FutureBilling(chain'[m], now)
    BY <1>b, <1>k, <1>q, <1>t DEF RowBills, Member
  <2>2. chain'[m] = chain[m]
    BY <2>1, <1>k, <1>t, Frame, OnlyTheirs
  <2> QED
    BY <2>1, <2>2, <1>k DEF RowBills
<1>1. CASE CommitChain(f) /\ r = rider(f)
  <2>1. ASSUME NEW m \in p PROVE m \in Reading(Visible(f), r, Touched(r), NoSub).sources
    <3>1. RowBills(r, m)'
      BY <1>b
    <3>2. IF m = Stripe THEN Touched(r).owned /\ FutureBilling(StripeSource(Touched(r)), now)
          ELSE Visible(f)[m].owner = r /\ FutureBilling(Visible(f)[m], now)
      BY <3>1, <1>1, CommitIs DEF RowBills
    <3> QED
      BY <3>2, <1>1, <1>q, <1>t, CommitIs, RowReading
  <2>2. p \subseteq Reading(Visible(f), r, Touched(r), NoSub).sources
    BY <2>1
  <2>3. /\ Visible(f) \in [Key -> ChainType] /\ Touched(r) \in StripeType /\ NoSub \in RecType
        /\ SyncOverlaps(Visible(f), r, Touched(r), NoSub)
    BY <1>1, CommitIs
  <2>4. TInv
    BY <1>t
  <2>5. p \subseteq Reading(Visible(f), r, Touched(r), NoSub).sources => overlap'[r][p] # 0
    BY <2>3, <2>4, SyncedPair
  <2> QED
    BY <2>2, <2>5
<1>2. CASE StripeSync(f) /\ r = rider(f)
  <2> DEFINE S == Reading(chain, r, stripe[r], record[f]).sources
  <2>1. ASSUME NEW m \in p, m # Stripe PROVE m \in S
    <3>1. m \in Key /\ chain[m].owner = r /\ FutureBilling(chain[m], now)
      BY <2>1, <1>2, <1>k, <1>q, SweepIs DEF RowBills, Member, CommitChain, StripeSync
    <3> QED
      BY <3>1, <1>2, <1>t, StripeSyncIs, ReadingIs
  <2>2. ASSUME Stripe \in p PROVE Stripe \in S
    <3>1. ~FencedOut(f)
      <4> SUFFICES ASSUME FencedOut(f) PROVE FALSE
        OBVIOUS
      <4>1. pc'[f] = "late" /\ job' = job /\ job[f] # NoJob /\ job[f].kind = "stripe"
        BY <1>2, StripeSyncIs
      <4>2. Unsynced(f, r)'
        BY <4>1, <1>2 DEF Unsynced, rider
      <4> QED
        BY <4>2, <2>2 DEF NeedsRow, Pending
    <3>2. stripe'[r].owned /\ FutureBilling(StripeSource(stripe'[r]), now)
      BY <1>b, <2>2, <1>t DEF RowBills
    <3>3. SameSide(stripe'[r], stripe[r])
      BY <1>2, <1>t, RowMoves DEF Settle, StripeSync
    <3>4. /\ ~Terminal(record[f]) /\ record[f].renew /\ stripe[r].end = record[f].end
          /\ stripe[r].owned
      BY <3>1, <3>2, <3>3, <1>2, StripeSyncIs
         DEF OInv, Mirrors, Says, SameSide, FutureBilling, StripeSource
    <3>5. stripe'[r].seen = now
      <4> DEFINE o == Reading(chain, r, stripe[r], record[f]).observed
      <4>1. /\ stripe'[r] = [stripe[r] EXCEPT !.seen = IF o THEN now ELSE @]
            /\ stripe[r] \in StripeType /\ record[f] \in RecType /\ record[f] # NoSub
        BY <1>2, StripeSyncIs
      <4>2. chain \in [Key -> ChainType]
        BY <1>t
      <4>3. o
        BY <4>1, <4>2, <3>4, StripeSeen
      <4> HIDE DEF o
      <4> QED
        BY <4>1, <4>3 DEF StripeType
    <3>6. SourceLive([renew |-> TRUE, end |-> record[f].end, seen |-> now], now)
      BY <3>2, <3>3, <3>4, <3>5, <1>t DEF FutureBilling, SourceLive, EffectiveEnd, StripeSource,
                                          SameSide
    <3>7. stripe[r] \in StripeType /\ record[f] \in RecType /\ record[f] # NoSub
      BY <1>2, StripeSyncIs
    <3> QED
      BY <3>4, <3>6, <3>7, <1>t, StripeSeen
  <2>3. p \subseteq S
    BY <2>1, <2>2
  <2>4. /\ stripe[r] \in StripeType /\ record[f] \in RecType /\ chain \in [Key -> ChainType]
        /\ SyncOverlaps(chain, r, stripe[r], record[f])
    BY <1>2, StripeSyncIs
  <2>5. TInv
    BY <1>t
  <2> HIDE DEF S
  <2>6. S = Reading(chain, r, stripe[r], record[f]).sources
    BY DEF S
  <2>7. p \subseteq Reading(chain, r, stripe[r], record[f]).sources => overlap'[r][p] # 0
    BY <2>4, <2>5, SyncedPair
  <2> QED
    BY <2>3, <2>6, <2>7
\* In every other step what bills had to have its row before.
<1>3. CASE ~(CommitChain(f) /\ r = rider(f)) /\ ~(StripeSync(f) /\ r = rider(f))
  <2>1. ASSUME Stripe \in p PROVE ~Pending(r) /\ RowBills(r, Stripe)
    <3>1. ~Pending(r)' /\ stripe'[r].owned /\ FutureBilling(StripeSource(stripe'[r]), now)
      BY <2>1, <1>b, <1>t DEF NeedsRow, RowBills
    <3>2. ~Pending(r)
      BY <3>1, <1>3, <1>t, PendingStays
    <3>3. ~(Settle(f) /\ ~FencedOut(f) /\ r = rider(f))
      BY <3>1, SettleIs DEF Pending
    <3>4. SameSide(stripe'[r], stripe[r])
      BY <3>3, <1>t, RowMoves
    <3>5. stripe[r].owned /\ stripe[r].seen # 0
      BY <3>1, <3>2, <3>4 DEF OInv, Observed, SameSide, FutureBilling, StripeSource
    <3>6. stripe'[r].seen = stripe[r].seen
      <4>1. CASE UNCHANGED stripe
        BY <4>1
      <4>2. CASE Settle(f)
        BY <4>2, <3>3, <1>t DEF Settle
      <4>3. CASE CommitRecompute(f)
        BY <4>3, <1>t DEF CommitRecompute, Touched, StripeType
      <4>4. CASE CommitChain(f) \/ StripeSync(f)
        <5>1. PICK v : stripe' = [stripe EXCEPT ![rider(f)] = v]
          BY <4>4, Zenon DEF CommitChain, StripeSync, SyncOverlaps
        <5> QED
          BY <5>1, <4>4, <1>3, <1>t
      <4> QED
        BY <4>1, <4>2, <4>3, <4>4 DEF FlowStep, Begin, Acquire, ChainStep, UpdateChain, UpdateMisses,
         Classify, InsertChain, InsertClashes, Disambiguate, WriteChain, RollupStep, ReadRollup,
         StampRollup, Sweep, StripeStep, Fetch, Crash, subVars, rowVars, lockVars, flowVars
    <3>7. StripeSource(stripe'[r]) = StripeSource(stripe[r])
      BY <3>4, <3>5, <3>6 DEF StripeSource, SameSide
    <3> QED
      BY <3>1, <3>2, <3>5, <3>7 DEF RowBills
  <2>2. NeedsRow(r, p)
    BY <2>1, <1>k, <1>3 DEF NeedsRow
  <2>3. overlap[r][p] # 0
    BY <2>2, TrackedIs DEF OInv
  <2>4. CASE overlap'[r] = overlap[r]
    BY <2>3, <2>4
  <2>5. CASE overlap'[r] # overlap[r]
    <3>1. r = rider(f) /\ Sweep(f)
      BY <2>5, <1>3, WhoPairs
    <3>2. \A m \in p : m \in Reading(chain, r, stripe[r], NoSub).sources
      BY <2>2, <3>1, <1>q, <1>t, SweepIs, RowReading DEF NeedsRow, RowBills
    <3>3. p \subseteq Reading(chain, r, stripe[r], NoSub).sources
      BY <3>2
    <3> QED
      BY <3>1, <3>3, <2>3, <1>t, SweepIs, SweptPair
  <2> QED
    BY <2>4, <2>5
<1> QED
  BY <1>1, <1>2, <1>3

LEMMA OverlapsKept == OInv /\ [Next]_vars => OInv'
<1> SUFFICES ASSUME OInv, [Next]_vars PROVE OInv'
  OBVIOUS
<1>t. TInv /\ TInv'
  BY TypesKept DEF OInv
<1>1. ASSUME NEW f \in Flow, FlowStep(f) PROVE OInv'
  BY <1>1, <1>t, FetchedKeeps, VersionsKeeps, MirrorsKeeps, AgreedKeeps, ObservedKeeps,
     DueOpenKeeps, TrackedKeeps DEF OInv
\* The clock and Stripe touch no row and no flow; a new version is nobody's answer yet, and
\* an ended subscription stays ended.
<1>2. ASSUME UNCHANGED <<acked, fence, stripe, chain, overlap, pc, job, token, record, due>>,
             now <= now',
             \A r \in Rider :
               \/ sub'[r] = sub[r]
               \/ /\ sub[r].state # "ended" /\ sub'[r].state # "none"
                  /\ sub'[r].version = sub[r].version + 1
      PROVE  OInv'
  <2>r. \A f \in Flow : pc[f] # "idle" => rider(f) \in Rider
    BY <1>t, JobFacts DEF TInv, Inv, Asked, rider
  <2>y. /\ sub \in [Rider -> RecType] /\ record \in [Flow -> RecType] /\ acked \in [Rider -> Nat]
    BY <1>t DEF TInv, Others
  <2>1. Fetched' /\ NoneIsNone'
    BY <1>2, <2>r DEF OInv, Fetched, NoneIsNone, HasRead, rider
  <2>2. Mirrors' /\ DueOpen' /\ Ordered'
    <3>1. Mirrors'
      BY <1>2, <2>r DEF OInv, Mirrors, Says, FencedOut, rider
    <3>2. DueOpen' /\ Ordered'
      BY <1>2, <2>r DEF OInv, DueOpen, Ordered, HasRead, rider
    <3> QED
      BY <3>1, <3>2
  <2>v. Versions'
    <3>1. ASSUME NEW r \in Rider
          PROVE  /\ sub[r].version <= sub'[r].version /\ sub[r].version \in Nat
                 /\ acked[r] <= sub[r].version /\ acked[r] \in Nat /\ sub'[r].version \in Nat
                 /\ sub'[r].version = sub[r].version => sub'[r] = sub[r]
      BY <1>2, <2>y DEF OInv, Versions, RecType
    <3>2. \A r \in Rider : acked'[r] <= sub'[r].version
      BY <3>1, <1>2
    <3>3. ASSUME NEW f \in Flow, HasRead(f)'
          PROVE  /\ record'[f].version <= sub'[rider(f)'].version
                 /\ record'[f].version = sub'[rider(f)'].version => record'[f] = sub'[rider(f)']
                 /\ ~FencedOut(f)' => acked'[rider(f)'] <= record'[f].version
      <4>1. /\ HasRead(f) /\ rider(f)' = rider(f) /\ rider(f) \in Rider /\ record[f].version \in Nat
            /\ FencedOut(f)' <=> FencedOut(f)
        BY <3>3, <1>2, <2>r, <2>y DEF HasRead, rider, FencedOut, RecType
      <4>2. /\ record[f].version <= sub[rider(f)].version
            /\ record[f].version = sub[rider(f)].version => record[f] = sub[rider(f)]
            /\ ~FencedOut(f) => acked[rider(f)] <= record[f].version
        BY <4>1 DEF OInv, Versions
      <4> QED
        BY <4>1, <4>2, <3>1, <1>2
    <3> QED
      BY <3>2, <3>3 DEF Versions
  <2>a. Agreed'
    <3> SUFFICES ASSUME NEW r \in Rider, Charges(sub'[r]),
                        acked[r] = sub'[r].version \/ Settling(r)'
                 PROVE  RowAgrees(r)'
      BY <1>2 DEF Agreed, Charges
    <3>1. sub'[r] = sub[r]
      <4>1. acked[r] <= sub[r].version
        BY DEF OInv, Versions
      <4>2. ASSUME Settling(r)' PROVE sub'[r].version <= sub[r].version
        <5>1. PICK f \in Flow : pc[f] = "stripeSync" /\ rider(f) = r /\ record[f].version = sub'[r].version
          BY <4>2, <1>2 DEF Settling, rider
        <5> QED
          BY <5>1 DEF OInv, Versions, HasRead
      <4> QED
        BY <4>1, <4>2, <1>2, <2>y DEF RecType
    <3>2. Settling(r)' <=> Settling(r)
      BY <3>1, <1>2 DEF Settling, rider
    <3> QED
      BY <3>1, <3>2, <1>2 DEF OInv, Agreed, RowAgrees
  <2>3. \A r : Pending(r)' <=> Pending(r)
    BY <1>2 DEF Pending, Unsynced, rider
  <2>4. Observed'
    BY <1>2, <2>3 DEF OInv, Observed
  <2>5. ASSUME NEW r \in Rider, NEW m \in Member, RowBills(r, m)' PROVE RowBills(r, m)
    <3>0. now \in Nat /\ now' \in Nat /\ stripe[r] \in StripeType /\ chain \in [Key -> ChainType]
      BY <1>t DEF TInv, Others, Inv, Types
    <3>1. ASSUME NEW s, s.end \in Nat, s.seen \in Nat, FutureBilling(s, now')
          PROVE  FutureBilling(s, now)
      BY <3>1, <3>0, <1>2, EndType DEF FutureBilling, SourceLive
    <3>2. CASE m = Stripe
      <4>1. StripeSource(stripe[r]).end \in Nat /\ StripeSource(stripe[r]).seen \in Nat
        BY <3>0 DEF StripeSource, StripeType
      <4> QED
        BY <4>1, <3>1, <3>2, <2>5, <1>2 DEF RowBills
    <3>3. CASE m # Stripe
      <4>1. m \in Key /\ chain[m].end \in Nat /\ chain[m].seen \in Nat
        BY <3>0, <3>3 DEF Member, ChainType
      <4> QED
        BY <4>1, <3>1, <3>3, <2>5, <1>2 DEF RowBills
    <3> QED
      BY <3>2, <3>3
  <2>6. OverlapTracked'
    <3>1. OverlapTracked' <=> (\A r \in Rider : \A p \in Pairs : NeedsRow(r, p) => overlap[r][p] # 0)'
      BY TrackedIs, PTL
    <3>2. ASSUME NEW r \in Rider, NEW p \in Pairs, NeedsRow(r, p)' PROVE overlap[r][p] # 0
      <4>1. NeedsRow(r, p)
        BY <3>2, <2>3, <2>5 DEF NeedsRow, Pairs
      <4> QED
        BY <4>1, TrackedIs DEF OInv
    <3> QED
      BY <3>1, <3>2, <1>2
  <2> QED
    BY <1>t, <2>1, <2>2, <2>v, <2>a, <2>4, <2>6 DEF OInv
<1>3. ASSUME NEW q \in Rider, SubscriptionMoves(q) PROVE OInv'
  <2>1. \A r \in Rider :
          \/ sub'[r] = sub[r]
          \/ /\ sub[r].state # "ended" /\ sub'[r].state # "none"
             /\ sub'[r].version = sub[r].version + 1
    <3>1. sub \in [Rider -> RecType] /\ sub[q].state # "ended"
      BY <1>3, <1>t DEF TInv, Others, SubscriptionMoves
    <3> QED
      BY <1>3, <3>1, StripeMoves
  <2> QED
    BY <1>3, <2>1, <1>2, <1>t DEF SubscriptionMoves, subVars, rowVars, flowVars, TInv, Others
<1>4. CASE Tick
  BY <1>4, <1>2, <1>t DEF Tick, subVars, rowVars, flowVars, TInv, Others
<1>5. CASE AtRest \/ UNCHANGED vars
  BY <1>5, <1>2, <1>t DEF AtRest, vars, subVars, rowVars, flowVars, TInv, Others
<1> QED
  BY <1>1, <1>3, <1>4, <1>5 DEF Next, FlowStep

LEMMA OverlapsStart == Init => OInv
<1> SUFFICES ASSUME Init PROVE OInv
  OBVIOUS
<1>1. /\ \A f \in Flow : pc[f] = "idle"
      /\ \A r \in Rider : /\ sub[r] = NoSub /\ stripe[r].owned = FALSE
                          /\ \A p \in Pairs : overlap[r][p] = 0
      /\ \A k \in Key : chain[k].owner = Nobody
  BY DEF Init, NoChain
<1>2. Fetched /\ NoneIsNone /\ Versions /\ Ordered /\ Mirrors /\ Agreed /\ Observed /\ DueOpen
  <2>1. \A r \in Rider : acked[r] = 0
    BY DEF Init
  <2>2. \A f \in Flow : ~HasRead(f) /\ pc[f] # "fetch" /\ pc[f] # "stripeSync"
    BY <1>1 DEF HasRead
  <2>3. Fetched /\ NoneIsNone /\ Mirrors /\ Observed /\ DueOpen /\ Ordered
    BY <1>1, <2>2 DEF Fetched, NoneIsNone, Mirrors, Observed, DueOpen, Ordered
  <2>4. Versions /\ Agreed
    BY <1>1, <2>1, <2>2 DEF Versions, Agreed, NoSub, Charges
  <2> QED
    BY <2>3, <2>4
<1>3. OverlapTracked
  <2> SUFFICES ASSUME NEW r \in Rider, NEW p \in Pairs, NeedsRow(r, p) PROVE FALSE
    BY TrackedIs
  <2>1. PICK m \in p : TRUE
    BY PairIs
  <2>2. m = Stripe \/ m \in Key
    BY DEF Pairs, Member
  <2>3. RowBills(r, m)
    BY DEF NeedsRow
  <2> QED
    BY <1>1, <2>2, <2>3, NobodyAssumption DEF RowBills
<1> QED
  BY <1>2, <1>3, TypesStart DEF OInv

\* Two sources of a rider that both charge again always have an unresolved overlap row, but
\* for what a dead or overtaken Stripe flow left.
THEOREM OverlapsAreTracked == Spec => []OverlapTracked
<1>1. OInv => OverlapTracked
  BY DEF OInv
<1> QED
  BY <1>1, OverlapsStart, OverlapsKept, PTL DEF Spec

\* A pair that charges twice, the Stripe subscription in the slot by Stripe's own word, has a
\* row once the event of the newest version is acknowledged.
AcknowledgedTracked ==
  \A r \in Rider : \A p \in Pairs :
    /\ Stripe \in p /\ \A m \in p : StillBills(r, m)
    /\ stripe[r].owned /\ acked[r] = sub[r].version /\ ~Pending(r)
    => overlap[r][p] # 0

\* What a reading that Stripe overtook has retired is back when the webhook has returned: the
\* exemption of RetiredOnlyIfStopped lasts no longer than the event is owed, unless a flow of
\* the rider died before its sync or synced late.
THEOREM RetiredPairsComeBack == Spec => []AcknowledgedTracked
<1>1. OInv => AcknowledgedTracked
  <2> SUFFICES ASSUME OInv, NEW r \in Rider, NEW p \in Pairs, Stripe \in p,
                      \A m \in p : StillBills(r, m), stripe[r].owned,
                      acked[r] = sub[r].version, ~Pending(r)
               PROVE  overlap[r][p] # 0
    BY DEF AcknowledgedTracked
  <2>1. StripeBills(r)
    BY DEF StillBills
  <2>2. stripe[r].renew /\ stripe[r].end = sub[r].end
    BY <2>1 DEF OInv, Agreed, StripeBills, Charges, RowAgrees
  <2>3. FutureBilling(StripeSource(stripe[r]), now)
    BY <2>1, <2>2 DEF StripeBills, FutureBilling, SourceLive, EffectiveEnd, StripeSource
  <2>4. \A m \in p : RowBills(r, m)
    BY <2>3 DEF StillBills, RowBills
  <2> QED
    BY <2>4, TrackedIs DEF OInv, NeedsRow
<1> QED
  BY <1>1, OverlapsStart, OverlapsKept, PTL DEF Spec

\* No overlap row is retired while both its members charge, but by a late sync, or on a
\* reading that Stripe has overtaken and still owes the event of.
THEOREM NoneRetiredEarly == Spec => RetiredOnlyIfStopped
<1> DEFINE Retired(r, p) == overlap[r][p] # 0 /\ overlap'[r][p] = 0
           Owes(r) == (acked[r] < sub[r].version /\ ~RowAgrees(r))'
           Fair == \A r \in Rider : \A p \in Pairs :
                     Retired(r, p) => \/ \E m \in p : ~StillBills(r, m)'
                                      \/ Stripe \in p /\ Owes(r)
                                      \/ \E f \in Flow : LateSync(f)
<1>1. OInv /\ [Next]_vars => [Fair]_vars
  <2> SUFFICES ASSUME OInv, Next, NEW r \in Rider, NEW p \in Pairs, Retired(r, p)
               PROVE  \/ \E m \in p : ~StillBills(r, m)'
                      \/ Stripe \in p /\ Owes(r)
                      \/ \E f \in Flow : LateSync(f)
    OBVIOUS
  <2>t. TInv /\ chain \in [Key -> ChainType] /\ now \in Nat \ {0} /\ NoSub \in RecType
        /\ p \subseteq Member /\ sub \in [Rider -> RecType]
    BY DEF OInv, TInv, Inv, Types, Others, NoSub, RecType, SubStates, NoEnd, Pairs
  <2>1. PICK f \in Flow : FlowStep(f)
    BY DEF Next, FlowStep, Tick, AtRest, SubscriptionMoves, vars
  <2>2. r = rider(f) /\ (CommitChain(f) \/ StripeSync(f) \/ Sweep(f))
    BY <2>1, WhoPairs
  <2>u. sub' = sub /\ now' = now
    BY <2>1, <2>t, Frame
  \* A reading that misses a Stripe side with which the row agrees is right.
  <2>a. ASSUME Stripe \in p, RowAgrees(r)' => ~StillBills(r, Stripe)'
        PROVE  (\E m \in p : ~StillBills(r, m)') \/ Owes(r)
    <3> SUFFICES ASSUME StillBills(r, Stripe)' PROVE Owes(r)
      BY <2>a
    <3>1. ~RowAgrees(r)' /\ Charges(sub'[r])
      BY <2>a DEF StillBills, StripeBills, Charges
    <3>2. Agreed' /\ Versions' /\ TInv'
      BY OverlapsKept DEF OInv
    <3>3. acked'[r] # sub'[r].version /\ acked'[r] <= sub'[r].version
      BY <3>1, <3>2 DEF Agreed, Versions, Charges
    <3>4. acked'[r] \in Nat /\ sub'[r].version \in Nat
      BY <3>2 DEF TInv, Others, RecType
    <3> QED
      BY <3>1, <3>3, <3>4
  \* A reading misses only what has stopped, by what the row and the chains say.
  <2>3. ASSUME NEW view \in [Key -> ChainType], chain' = view,
               NEW row \in StripeType, SameSide(stripe'[r], row), stripe'[r].seen = row.seen,
               stripe'[r].touched = row.touched,
               NEW m \in p, MemberStopped(Reading(view, r, row, NoSub), m)
        PROVE  (\E n \in p : ~StillBills(r, n)') \/ (Stripe \in p /\ Owes(r))
    <3>1. CASE m # Stripe
      <4>1. m \in Key /\ m \notin Reading(view, r, row, NoSub).sources
        BY <2>3, <2>t, <3>1 DEF Member, MemberStopped
      <4>2. ~(view[m].owner = r /\ FutureBilling(view[m], now))
        BY <4>1, <2>3, <2>t, ReadingIs
      <4>3. ~StillBills(r, m)'
        BY <4>2, <2>3, <2>u, <3>1 DEF StillBills
      <4> QED
        BY <4>3
    <3>2. CASE m = Stripe
      <4>1. ~FutureBilling(StripeSource(row), now)
        BY <2>3, <2>t, <3>2, StripeSeen DEF MemberStopped
      <4>2. ASSUME RowAgrees(r)' PROVE ~StillBills(r, Stripe)'
        <5>1. row.renew /\ row.end = sub[r].end
          BY <4>2, <2>3, <2>u DEF RowAgrees, SameSide
        <5>2. /\ StripeSource(stripe'[r]).end = row.end
              /\ StripeSource(stripe'[r]).seen = StripeSource(row).seen
          BY <2>3 DEF StripeSource, SameSide
        <5>3. ~SourceLive(StripeSource(stripe'[r]), now)
          BY <4>1, <5>1, <5>2 DEF FutureBilling, SourceLive, EffectiveEnd, StripeSource
        <5>4. sub[r].end # NoEnd => ~(sub[r].end > now)
          BY <5>1, <5>2, <5>3 DEF SourceLive, EffectiveEnd
        <5> QED
          BY <5>3, <5>4, <2>u DEF StillBills, StripeBills
      <4> QED
        BY <4>2, <3>2, <2>a
    <3> QED
      BY <3>1, <3>2
  <2>4. CASE CommitChain(f)
    <3>1. /\ Visible(f) \in [Key -> ChainType] /\ Touched(r) \in StripeType
          /\ SyncOverlaps(Visible(f), r, Touched(r), NoSub) /\ chain' = Visible(f)
          /\ stripe'[r] = Touched(r)
      BY <2>2, <2>4, CommitIs
    <3>2. PICK m \in p : MemberStopped(Reading(Visible(f), r, Touched(r), NoSub), m)
      <4>1. overlap'[r][p] = 0 => overlap[r][p] = 0
              \/ \E m \in p : MemberStopped(Reading(Visible(f), r, Touched(r), NoSub), m)
        BY <3>1, <2>t, SyncedPair
      <4> QED
        BY <4>1
    <3>3. SameSide(stripe'[r], Touched(r)) /\ stripe'[r].seen = Touched(r).seen
          /\ stripe'[r].touched = Touched(r).touched
      BY <3>1 DEF SameSide
    <3> QED
      BY <3>1, <3>2, <3>3, <2>3
  <2>5. CASE Sweep(f)
    <3>1. stripe[r] \in StripeType /\ chain' = chain /\ stripe' = stripe
      BY <2>2, <2>5, SweepIs
    <3>2. PICK m \in p : MemberStopped(Reading(chain, r, stripe[r], NoSub), m)
      BY <2>2, <2>5, <2>t, SweptPair
    <3>3. SameSide(stripe'[r], stripe[r])
          /\ stripe'[r].seen = stripe[r].seen /\ stripe'[r].touched = stripe[r].touched
      BY <3>1 DEF SameSide
    <3> QED
      BY <3>1, <3>2, <3>3, <2>t, <2>3
  <2>6. CASE StripeSync(f) /\ FencedOut(f)
    BY <2>6, StripeSyncIs DEF LateSync
  <2>7. CASE StripeSync(f) /\ ~FencedOut(f)
    <3> DEFINE rec == record[f]
               read == Reading(chain, r, stripe[r], rec)
    <3>1. /\ pc[f] = "stripeSync" /\ stripe[r] \in StripeType /\ rec \in RecType /\ rec # NoSub
          /\ rec.state # "none" /\ SyncOverlaps(chain, r, stripe[r], rec)
          /\ stripe'[r] = [stripe[r] EXCEPT !.seen = IF read.observed THEN now ELSE @]
          /\ chain' = chain
      BY <2>2, <2>7, StripeSyncIs
    <3>2. PICK m \in p : MemberStopped(read, m)
      <4>1. overlap'[r][p] = 0 => overlap[r][p] = 0 \/ \E m \in p : MemberStopped(read, m)
        BY <3>1, <2>t, SyncedPair
      <4> QED
        BY <4>1
    <3>3. CASE m = Stripe /\ rec.state = "ended"
      <4>1. sub[r].state = "ended"
        BY <2>2, <3>1, <3>3 DEF OInv, Fetched, HasRead
      <4>2. ~StillBills(r, m)'
        BY <4>1, <2>u, <3>3 DEF StillBills, StripeBills
      <4> QED
        BY <4>2
    <3>4. CASE m # Stripe
      <4>1. m \in Key /\ m \notin read.sources
        BY <3>2, <2>t, <3>4 DEF Member, MemberStopped
      <4>2. ~(chain[m].owner = r /\ FutureBilling(chain[m], now))
        BY <4>1, <3>1, <2>t, ReadingIs
      <4>3. ~StillBills(r, m)'
        BY <4>2, <3>1, <2>u, <3>4 DEF StillBills
      <4> QED
        BY <4>3
    <3>5. CASE m = Stripe /\ rec.state # "ended"
      <4>1. ASSUME RowAgrees(r)' PROVE ~StillBills(r, Stripe)'
        <5>1. /\ stripe'[r].renew = stripe[r].renew /\ stripe'[r].end = stripe[r].end
              /\ stripe'[r].seen = IF read.observed THEN now ELSE stripe[r].seen
          <6> HIDE DEF read
          <6> QED
            BY <3>1 DEF StripeType
        <5>2. ~Terminal(rec) /\ rec.renew /\ stripe[r].end = rec.end
          BY <2>2, <2>7, <3>1, <3>5, <4>1, <5>1 DEF OInv, Mirrors, Says, RowAgrees
        <5>3. rec.state \in {"unpaid", "live"}
          BY <3>1, <5>2 DEF RecType, SubStates, Terminal
        <5>4. Stripe \notin read.sources
          BY <3>2, <3>5 DEF MemberStopped
        <5>5. read.observed /\ ~SourceLive([renew |-> TRUE, end |-> rec.end, seen |-> now], now)
          BY <3>1, <5>2, <5>3, <5>4, <2>t, StripeSeen
        <5> HIDE DEF read
        <5>6. stripe'[r].seen = now /\ stripe'[r].end = rec.end /\ sub[r].end = rec.end
          BY <5>1, <5>2, <5>5, <4>1, <2>u DEF RowAgrees
        <5>7. ~SourceLive(StripeSource(stripe'[r]), now)
          BY <5>5, <5>6, <2>t DEF SourceLive, EffectiveEnd, StripeSource
        <5>8. sub[r].end # NoEnd => ~(sub[r].end > now)
          BY <5>5, <5>6 DEF SourceLive, EffectiveEnd
        <5> QED
          BY <5>7, <5>8, <2>u DEF StillBills, StripeBills
      <4> QED
        BY <4>1, <3>5, <2>a
    <3> QED
      BY <3>3, <3>4, <3>5
  <2> QED
    BY <2>2, <2>4, <2>5, <2>6, <2>7
<1> QED
  BY <1>1, OverlapsStart, OverlapsKept, PTL DEF Spec, RetiredOnlyIfStopped

\* A row that a sweep has judged is no longer due, provided that no sweep waits for the
\* lock as long as a source of unknown end is trusted.
THEOREM SweptRowsMoveOn ==
  Spec /\ [](\A f \in Flow : pc[f] = "sweep" => now < due[f].at + Window) => SweptRowsYield
<1> DEFINE Prompt == \A f \in Flow : pc[f] = "sweep" => now < due[f].at + Window
           Yield == \A f \in Flow : pc[f] = "sweep" /\ pc'[f] = "done" =>
             \A p \in due[f].rows : overlap'[rider(f)][p] = 0 \/ overlap'[rider(f)][p] > now
<1>1. OInv /\ Prompt /\ [Next]_vars => [Yield]_vars
  <2> SUFFICES ASSUME OInv, Prompt, Next, NEW f \in Flow, pc[f] = "sweep", pc'[f] = "done",
                      NEW p \in due[f].rows
               PROVE  overlap'[rider(f)][p] = 0 \/ overlap'[rider(f)][p] > now
    OBVIOUS
  <2>0. TInv /\ p \in Pairs /\ due[f].at \in Nat /\ now \in Nat /\ pc \in [Flow -> PCs]
    BY DEF OInv, TInv, Inv, Types, Others, DueType
  <2>1. PICK g \in Flow : FlowStep(g)
    BY DEF Next, FlowStep, Tick, AtRest, SubscriptionMoves, vars
  <2>2. g = f
    BY <2>0, <2>1, Frame
  <2>3. Sweep(f)
    BY <2>0, <2>1, <2>2 DEF FlowStep, Begin, Acquire, ChainStep, UpdateChain, UpdateMisses,
       Classify, InsertChain, InsertClashes, Disambiguate, RollupStep, ReadRollup, StampRollup,
       CommitChain, CommitRecompute, StripeStep, Fetch, Settle, StripeSync, Crash, Goto
  <2>4. due[f].at + Window > now
    BY <2>0, WindowAssumption
  <2> QED
    BY <2>0, <2>3, <2>4, SweepIs, SweptPair
<1> HIDE DEF Prompt
<1>2. Spec /\ []Prompt => [][Yield]_vars
  BY <1>1, OverlapsStart, OverlapsKept, PTL DEF Spec
<1> QED
  BY <1>2, PTL DEF Prompt, SweptRowsYield

\* The row is a fenced one, as FencedRow has it: an acquisition numbers itself above all
\* before it and writes nothing else, and the roll-up and the Stripe side are written only
\* by the newest acquisition.  (The rows of overlaps are behind no fence.)
THEOREM OnlyTheNewestWritesTheRow ==
  Spec => [][\A r \in Rider :
               \/ /\ fence'[r] > fence[r]
                  /\ rollup'[r] = rollup[r] /\ SameSide(stripe'[r], stripe[r])
               \/ /\ fence'[r] = fence[r]
                  /\ rollup'[r] # rollup[r] \/ ~SameSide(stripe'[r], stripe[r]) =>
                       \E f \in Flow : rider(f) = r /\ token[f] = fence[r]
                                       /\ pc[f] \in {"sync", "settle"}]_vars
<1> DEFINE Fenced(r) ==
             \/ /\ fence'[r] > fence[r]
                /\ rollup'[r] = rollup[r] /\ SameSide(stripe'[r], stripe[r])
             \/ /\ fence'[r] = fence[r]
                /\ rollup'[r] # rollup[r] \/ ~SameSide(stripe'[r], stripe[r]) =>
                     \E f \in Flow : rider(f) = r /\ token[f] = fence[r]
                                     /\ pc[f] \in {"sync", "settle"}
<1>1. OInv /\ [Next]_vars => [\A r \in Rider : Fenced(r)]_vars
  <2> SUFFICES ASSUME OInv, Next, NEW r \in Rider PROVE Fenced(r)
    OBVIOUS
  <2>0. /\ TInv /\ Inv /\ seq \in Nat /\ fence \in [Rider -> Nat] /\ token \in [Flow -> Nat]
        /\ rollup \in [Rider -> RollupPair] /\ \A q \in Rider : fence[q] <= seq
        /\ \A f \in Flow : pc[f] # "idle" => rider(f) \in Rider
    BY JobFacts DEF OInv, TInv, Inv, Types, Others, Fences, Asked, rider
  <2>1. CASE Tick \/ AtRest \/ \E q \in Rider : SubscriptionMoves(q)
    BY <2>1 DEF Tick, AtRest, SubscriptionMoves, vars, subVars, rowVars, SameSide
  <2>2. ASSUME NEW f \in Flow, Acquire(f) PROVE Fenced(r)
    <3>1. fence' = [fence EXCEPT ![rider(f)] = seq + 1] /\ UNCHANGED <<rollup, stripe>>
      BY <2>2 DEF Acquire
    <3>2. fence'[r] = fence[r] \/ fence'[r] > fence[r]
      BY <3>1, <2>0
    <3> QED
      BY <3>1, <3>2 DEF SameSide
  <2>3. ASSUME NEW f \in Flow, FlowStep(f), ~Acquire(f) PROVE Fenced(r)
    <3>1. UNCHANGED fence
      BY <2>3 DEF FlowStep, Begin, ChainStep, UpdateChain, UpdateMisses, Classify, InsertChain,
         InsertClashes, Disambiguate, WriteChain, CommitChain, RollupStep, ReadRollup, StampRollup,
         CommitRecompute, Sweep, StripeStep, Fetch, Settle, StripeSync, Crash, subVars, rowVars
    <3>2. ASSUME rollup'[r] # rollup[r]
          PROVE  rider(f) = r /\ token[f] = fence[r] /\ pc[f] \in {"sync", "settle"}
      <4>1. CommitChain(f) \/ CommitRecompute(f)
        BY <2>0, <2>3, <3>2, Frame
      <4>2. pc[f] = "sync" /\ rollup' = [rollup EXCEPT ![rider(f)] = draft[f]]
        BY <4>1 DEF CommitChain, CommitRecompute
      <4> QED
        BY <4>2, <3>2, <2>0 DEF Inv, RowHeld
    <3>3. ASSUME ~SameSide(stripe'[r], stripe[r])
          PROVE  rider(f) = r /\ token[f] = fence[r] /\ pc[f] \in {"sync", "settle"}
      <4>1. Settle(f) /\ ~FencedOut(f) /\ r = rider(f)
        BY <2>0, <2>3, <3>3, RowMoves
      <4>2. pc[f] = "settle" /\ Begun(f)
        BY <4>1 DEF Settle, Begun
      <4>3. token[f] <= fence[r] /\ ~(fence[r] > token[f])
        BY <4>1, <4>2, <2>0 DEF Inv, Fences, FencedOut
      <4> QED
        BY <4>1, <4>2, <4>3, <2>0
    <3> QED
      BY <3>1, <3>2, <3>3
  <2> QED
    BY <2>1, <2>2, <2>3 DEF Next, FlowStep
<1> QED
  BY <1>1, OverlapsStart, OverlapsKept, PTL DEF Spec
============================================================================
