-------------------------- MODULE StripeFlowProofs --------------------------
(***************************************************************************)
(* Theorems of StripeFlow: its types, no second trial, no grant lost, no   *)
(* winner cancelled, no untrue notice, and at rest a row that agrees with  *)
(* Stripe and forgets no trial, for every set of subscriptions, flows and  *)
(* worlds.                                                                 *)
(*                                                                         *)
(* TInv is the type invariant with what a flow is about; RInv says what    *)
(* the row may look like, whoever wrote it; FInv what the newest flow may  *)
(* rely on between its steps, for nobody else writes the row meanwhile but *)
(* a completed checkout, which only fills a free slot.  DInv adds what is  *)
(* owed: about whatever the row is wrong, an event is not acknowledged.    *)
(***************************************************************************)
EXTENDS StripeFlow, TLAPS

Carrying == {"match", "send"}
FlowTypes ==
  /\ holder \in Flow \cup {None} /\ newest \in Flow \cup {None}
  /\ pc \in [Flow -> PCs]
  /\ on \in [Flow -> Sub \cup Notice \cup {None}]
  /\ heard \in [Flow -> BOOLEAN]
  /\ snap \in [Flow -> Row] /\ rec \in [Flow -> Record]
  /\ stored \in [Flow -> Sub \cup {None}]
Tables ==
  /\ owed \in [Sub -> BOOLEAN]
  /\ open \subseteq {"exclusivity_conflict", "ineligible_trial_rejected"} \X Sub
  /\ mail \subseteq Notice
  /\ ours \subseteq Sub /\ refunded \subseteq Sub
  /\ slips \subseteq {"stamp", "reclaim"} \X Sub
DataTypes ==
  /\ world \in Worlds /\ faults \in 0..world.faults
  /\ row \in Row /\ stripe \in [Sub -> Record]
  /\ Tables

\* What each flow is about: an event's subscription or a notice.
Abouts ==
  \A f \in Flow : /\ pc[f] \in Carrying => on[f] \in Notice
                  /\ pc[f] \notin Carrying \cup {"idle"} => on[f] \in Sub

TInv == DataTypes /\ FlowTypes /\ Abouts

LEMMA TypeParts == TypeOK <=> DataTypes /\ FlowTypes
  BY DEF TypeOK, DataTypes, Tables, FlowTypes

----------------------------------------------------------------------------
(* Types.                                                                    *)

LEMMA NoneFacts ==
  /\ NoRow \in Row /\ NoRec \in Record
  /\ None \notin Sub /\ None \notin Flow /\ Store \notin Sub /\ Store # None
  BY NoneAssumption DEF NoRow, NoRec, Row, Record, Status, StripeStatus

LEMMA StatusFacts ==
  ASSUME NEW st \in StripeStatus
  PROVE  /\ statusFromSubscription(st) \in Status
         /\ statusFromSubscription(st) = "trialing" <=> st = "trialing"
         /\ statusFromSubscription(st) \in Live <=> st \in Live
  BY DEF statusFromSubscription, StripeStatus, Status, Live

\* The trial stamp touches the marker only, and only an empty one.
LEMMA StampFacts ==
  ASSUME TInv, NEW f \in Flow, on[f] \in Sub, NEW r \in Row
  PROVE  /\ Stamped(r, f) \in Row
         /\ Stamped(r, f).provider = r.provider /\ Stamped(r, f).sub = r.sub
         /\ Stamped(r, f).status = r.status /\ Stamped(r, f).tier = r.tier
         /\ Stamped(r, f).source = r.source
         /\ Stamped(r, f).trialOf =
              IF Consumed(f) /\ r.trialOf = None THEN on[f] ELSE r.trialOf
  BY DEF Stamped, Row

LEMMA NewFacts ==
  ASSUME TInv, NEW f \in Flow
  PROVE  /\ NewTier(f) \in {"free", "paid"} /\ NewSource(f) \in {"none", "subscription", "grant"}
         /\ NewStatus(f) \in Status
         /\ rec[f] \in Record /\ rec[f].st \in StripeStatus /\ snap[f] \in Row
<1>1. rec[f] \in Record /\ rec[f].st \in StripeStatus /\ snap[f] \in Row
  BY DEF TInv, FlowTypes, Record
<1>2. NewStatus(f) \in Status
  BY <1>1, StatusFacts DEF NewStatus
<1> QED
  BY <1>1, <1>2 DEF NewTier, NewSource, Row

\* What a claim writes.
LEMMA ClaimedFacts ==
  ASSUME TInv, NEW f \in Flow, on[f] \in Sub
  PROVE  /\ Claimed(row, f) \in Row
         /\ Claimed(row, f).provider = IF Keeps(f) THEN row.provider ELSE "stripe"
         /\ Claimed(row, f).sub = IF Keeps(f) THEN row.sub ELSE on[f]
         /\ Claimed(row, f).status = row.status
         /\ Claimed(row, f).tier = NewTier(f) /\ Claimed(row, f).source = NewSource(f)
         /\ Claimed(row, f).trialOf = row.trialOf
<1>1. row \in Row
  BY DEF TInv, DataTypes
<1> QED
  BY <1>1, NewFacts DEF Claimed, Row

\* Another status.
WithStatus(r, st) == [r EXCEPT !.status = st]

LEMMA StatusSet ==
  ASSUME NEW r \in Row, NEW st \in Status
  PROVE  /\ WithStatus(r, st) \in Row /\ WithStatus(r, st).status = st
         /\ WithStatus(r, st).provider = r.provider /\ WithStatus(r, st).sub = r.sub
         /\ WithStatus(r, st).tier = r.tier /\ WithStatus(r, st).source = r.source
         /\ WithStatus(r, st).trialOf = r.trialOf
  BY DEF Row, WithStatus

\* A flow that ends, and one that goes on with its event.
LEMMA Ends ==
  ASSUME TInv, NEW f \in Flow, Leave(f)
  PROVE  /\ FlowTypes' /\ Abouts' /\ pc'[f] = "idle" /\ newest' = newest
         /\ holder' \in {None, holder} /\ holder' # f
         /\ \A g \in Flow \ {f} :
              /\ pc'[g] = pc[g] /\ on'[g] = on[g] /\ snap'[g] = snap[g] /\ rec'[g] = rec[g]
              /\ stored'[g] = stored[g]
<1>1. FlowTypes'
  BY NoneFacts DEF TInv, FlowTypes, Leave, Goto, PCs
<1>2. \A g \in Flow \ {f} :
        /\ pc'[g] = pc[g] /\ on'[g] = on[g] /\ snap'[g] = snap[g] /\ rec'[g] = rec[g]
        /\ stored'[g] = stored[g]
  BY DEF TInv, FlowTypes, Leave, Goto
<1>3. pc'[f] = "idle" /\ newest' = newest /\ holder' \in {None, holder} /\ holder' # f
  BY NoneFacts DEF TInv, FlowTypes, Leave, Goto
<1>4. Abouts'
  BY <1>2, <1>3 DEF TInv, Abouts, Carrying
<1> QED
  BY <1>1, <1>2, <1>3, <1>4

LEMMA GoesOn ==
  ASSUME TInv, NEW f \in Flow, NEW to \in PCs, Goto(f, to), UNCHANGED <<lockVars, on>>,
         heard' \in [Flow -> BOOLEAN], snap' \in [Flow -> Row], rec' \in [Flow -> Record],
         stored' \in [Flow -> Sub \cup {None}],
         pc[f] # "idle",  pc[f] \in Carrying <=> to \in Carrying
  PROVE  /\ FlowTypes' /\ Abouts' /\ pc'[f] = to
         /\ \A g \in Flow \ {f} : pc'[g] = pc[g]
  BY DEF TInv, FlowTypes, Abouts, Goto, lockVars, Carrying

\* An event's step ends its flow or takes it on to another place.
Onward(f) ==
  \E to \in PCs \ (Carrying \cup {"idle"}) :
    /\ Goto(f, to) /\ UNCHANGED <<lockVars, on>>
    /\ heard' \in [Flow -> BOOLEAN] /\ snap' \in [Flow -> Row]
    /\ rec' \in [Flow -> Record] /\ stored' \in [Flow -> Sub \cup {None}]

LEMMA Shapes ==
  ASSUME TInv, NEW f \in Flow, EventStep(f)
  PROVE  /\ pc[f] \notin Carrying \cup {"idle"} /\ on[f] \in Sub
         /\ Leave(f) \/ Onward(f)
<1> DEFINE Shape == Leave(f) \/ Onward(f)
<1>t. /\ heard \in [Flow -> BOOLEAN] /\ snap \in [Flow -> Row]
      /\ rec \in [Flow -> Record] /\ stored \in [Flow -> Sub \cup {None}]
      /\ row \in Row /\ stripe \in [Sub -> Record]
  BY DEF TInv, FlowTypes, DataTypes
<1>s. pc[f] \notin Carrying \cup {"idle"}
  BY DEF EventStep, Read, Fetch, StampEnded, Clear, ClaimActive, Recheck, ClaimPastDue,
         Retire, Claim, Flush, Dedup, StampStale, ReadStored, AskStored, Reclaim, Reread,
         Cancel, Refund, OpenConflict, Reject, EndTrial, OpenRejection, Enqueue, Carrying
<1>a. on[f] \in Sub
  BY <1>s DEF TInv, Abouts
<1>1. ASSUME Read(f) PROVE Shape
  BY <1>1, <1>t, <1>a DEF Read, Ack, Abort, Onward, PCs, Carrying, locals, lockVars
<1>2. ASSUME Fetch(f) PROVE Shape
  BY <1>2, <1>t, <1>a DEF Fetch, Ack, Abort, Onward, PCs, Carrying, locals, lockVars
<1>3. ASSUME StampEnded(f) PROVE Shape
  BY <1>3, <1>t, <1>a DEF StampEnded, Ack, Abort, Onward, PCs, Carrying, locals, lockVars
<1>4. ASSUME Clear(f) PROVE Shape
  BY <1>4, <1>t, <1>a DEF Clear, Ack, Abort, Onward, PCs, Carrying, locals, lockVars
<1>5. ASSUME ClaimActive(f) PROVE Shape
  BY <1>5, <1>t, <1>a DEF ClaimActive, Ack, Abort, Onward, PCs, Carrying, locals, lockVars
<1>6. ASSUME Recheck(f) PROVE Shape
  BY <1>6, <1>t, <1>a DEF Recheck, Ack, Abort, Onward, PCs, Carrying, locals, lockVars
<1>7. ASSUME ClaimPastDue(f) PROVE Shape
  BY <1>7, <1>t, <1>a DEF ClaimPastDue, Ack, Abort, Onward, PCs, Carrying, locals, lockVars
<1>8. ASSUME Retire(f) PROVE Shape
  BY <1>8, <1>t, <1>a DEF Retire, Ack, Abort, Onward, PCs, Carrying, locals, lockVars
<1>9. ASSUME Claim(f) PROVE Shape
  BY <1>9, <1>t, <1>a DEF Claim, Ack, Abort, Onward, PCs, Carrying, locals, lockVars
<1>10. ASSUME Flush(f) PROVE Shape
  BY <1>10, <1>t, <1>a DEF Flush, Ack, Abort, Onward, PCs, Carrying, locals, lockVars
<1>11. ASSUME Dedup(f) PROVE Shape
  BY <1>11, <1>t, <1>a DEF Dedup, Ack, Abort, Onward, PCs, Carrying, locals, lockVars
<1>12. ASSUME StampStale(f) PROVE Shape
  BY <1>12, <1>t, <1>a DEF StampStale, Ack, Abort, Onward, PCs, Carrying, locals, lockVars
<1>13. ASSUME ReadStored(f) PROVE Shape
  BY <1>13, <1>t, <1>a DEF ReadStored, Ack, Abort, Onward, PCs, Carrying, locals, lockVars, Row
<1>14. ASSUME AskStored(f) PROVE Shape
  BY <1>14, <1>t, <1>a DEF AskStored, Ack, Abort, Onward, PCs, Carrying, locals, lockVars
<1>15. ASSUME Reclaim(f) PROVE Shape
  BY <1>15, <1>t, <1>a DEF Reclaim, Ack, Abort, Onward, PCs, Carrying, locals, lockVars
<1>16. ASSUME Reread(f) PROVE Shape
  BY <1>16, <1>t, <1>a DEF Reread, Ack, Abort, Onward, PCs, Carrying, locals, lockVars
<1>17. ASSUME Cancel(f) PROVE Shape
  BY <1>17, <1>t, <1>a DEF Cancel, Ack, Abort, Onward, PCs, Carrying, locals, lockVars, Changed
<1>18. ASSUME Refund(f) PROVE Shape
  BY <1>18, <1>t, <1>a DEF Refund, Ack, Abort, Onward, PCs, Carrying, locals, lockVars
<1>19. ASSUME OpenConflict(f) PROVE Shape
  BY <1>19, <1>t, <1>a DEF OpenConflict, Ack, Abort, Onward, PCs, Carrying, locals, lockVars
<1>20. ASSUME Reject(f) PROVE Shape
  BY <1>20, <1>t, <1>a DEF Reject, Ack, Abort, Onward, PCs, Carrying, locals, lockVars
<1>21. ASSUME EndTrial(f) PROVE Shape
  BY <1>21, <1>t, <1>a DEF EndTrial, Ack, Abort, Onward, PCs, Carrying, locals, lockVars, Changed
<1>22. ASSUME OpenRejection(f) PROVE Shape
  BY <1>22, <1>t, <1>a DEF OpenRejection, Ack, Abort, Onward, PCs, Carrying, locals, lockVars
<1>23. ASSUME Enqueue(f) PROVE Shape
  BY <1>23, <1>t, <1>a DEF Enqueue, Ack, Abort, Onward, PCs, Carrying, locals, lockVars
<1> HIDE DEF Shape
<1>q. Shape
  BY <1>1, <1>2, <1>3, <1>4, <1>5, <1>6, <1>7, <1>8, <1>9, <1>10, <1>11, <1>12, <1>13, <1>14,
     <1>15, <1>16, <1>17, <1>18, <1>19, <1>20, <1>21, <1>22, <1>23 DEF EventStep
<1> QED
  BY <1>q, <1>s, <1>a DEF Shape

----------------------------------------------------------------------------
(* What a flow does to the row, field by field.                              *)

Claiming == {"activate", "pastDue", "claim", "reclaim"}

\* The stamp of a trial.
Stamps(f) ==
  /\ row'.provider = row.provider /\ row'.sub = row.sub /\ row'.status = row.status
  /\ row'.tier = row.tier /\ row'.source = row.source
  /\ row'.trialOf = row.trialOf \/ row.trialOf = None
  /\ pc[f] \in {"stamp", "flush", "flushWon", "stale"}

\* The slot is emptied.
Clears(f) ==
  /\ row'.provider = "none" /\ row'.status = "canceled"
  /\ row'.tier = IF KeepsGrant(f) THEN row.tier ELSE "free"
  /\ row'.source = IF KeepsGrant(f) THEN row.source ELSE "none"
  /\ pc[f] = "clear" /\ row.provider = "stripe"

\* The slot is claimed; a trial becomes the rider's only if it was or if no other was.
Claims(f) ==
  /\ pc[f] \in Claiming /\ row.provider # "store"
  /\ row'.provider = IF Keeps(f) THEN row.provider ELSE "stripe"
  /\ row'.sub = IF Keeps(f) THEN row.sub ELSE on[f]
  /\ row'.tier = NewTier(f) /\ row'.source = NewSource(f)
  /\ row'.status = "trialing" =>
       \/ /\ row.status = "trialing" /\ row.sub \in {None, on[f]}
          /\ row'.trialOf = row.trialOf
       \/ ~Keeps(f) /\ row'.trialOf = on[f]

Writes(f) ==
  /\ row' \in Row
  /\ row' = row \/ (Current(f) /\ (Stamps(f) \/ Clears(f) \/ Claims(f)))

\* The two claims that also stamp.
LEMMA ClaimedStamped ==
  ASSUME TInv, NEW f \in Flow, on[f] \in Sub, Eligible(f),
         row' = WithStatus(Stamped(Claimed(row, f), f), NewStatus(f))
  PROVE  /\ row' \in Row
         /\ row'.provider = IF Keeps(f) THEN row.provider ELSE "stripe"
         /\ row'.sub = IF Keeps(f) THEN row.sub ELSE on[f]
         /\ row'.tier = NewTier(f) /\ row'.source = NewSource(f)
         /\ row'.status = NewStatus(f)
         /\ row'.status = "trialing" => ~Keeps(f) /\ row'.trialOf = on[f]
         /\ Consumed(f) => row'.trialOf # None
         /\ row.trialOf # None => row'.trialOf = row.trialOf
<1> DEFINE c == Claimed(row, f)
           w == Stamped(c, f)
<1>1. /\ c \in Row /\ c.provider = IF Keeps(f) THEN row.provider ELSE "stripe"
      /\ c.sub = IF Keeps(f) THEN row.sub ELSE on[f]
      /\ c.tier = NewTier(f) /\ c.source = NewSource(f) /\ c.trialOf = row.trialOf
  BY ClaimedFacts
<1> HIDE DEF c
<1>2. /\ w \in Row /\ w.provider = c.provider /\ w.sub = c.sub
      /\ w.tier = c.tier /\ w.source = c.source
      /\ w.trialOf = IF Consumed(f) /\ c.trialOf = None THEN on[f] ELSE c.trialOf
  BY <1>1, StampFacts
<1>3. NewStatus(f) \in Status /\ rec[f].st \in StripeStatus
  BY NewFacts
<1>4. row' = WithStatus(w, NewStatus(f))
  BY DEF c
<1> HIDE DEF w
<1>5. /\ row' \in Row /\ row'.status = NewStatus(f)
      /\ row'.provider = w.provider /\ row'.sub = w.sub /\ row'.tier = w.tier
      /\ row'.source = w.source /\ row'.trialOf = w.trialOf
  BY <1>2, <1>3, <1>4, StatusSet
<1>6. ASSUME NewStatus(f) = "trialing" PROVE ~Keeps(f) /\ w.trialOf = on[f]
  <2>1. rec[f].st = "trialing"
    BY <1>3, <1>6, StatusFacts DEF NewStatus
  <2>2. Consumed(f) /\ ~Keeps(f) /\ row.trialOf = None
    BY <2>1 DEF Consumed, Trialing, NeverEntitled, Keeps, Entitling, Eligible
  <2> QED
    BY <2>2, <1>1, <1>2
<1>7. on[f] # None
  BY NoneFacts
<1> QED
  BY <1>1, <1>2, <1>5, <1>6, <1>7

LEMMA Written ==
  ASSUME TInv, NEW f \in Flow, EventStep(f)
  PROVE  Writes(f)
<1>a. on[f] \in Sub
  BY Shapes
<1>r. row \in Row
  BY DEF TInv, DataTypes
<1>n. NewStatus(f) \in Status
  BY NewFacts
<1> DEFINE Same == row' = row
           Touches == /\ pc[f] \in {"stamp", "flush", "flushWon", "stale"}
                      /\ row' = IF Current(f) THEN Stamped(row, f) ELSE row
<1>1. ASSUME Same PROVE Writes(f)
  BY <1>1, <1>r DEF Writes
<1>2. ASSUME Touches PROVE Writes(f)
  BY <1>2, <1>a, <1>r, StampFacts DEF Writes, Stamps
<1>3. ASSUME Clear(f) PROVE Writes(f)
  <2>1. CASE ~(Current(f) /\ Owns(f))
    BY <2>1, <1>1, <1>3 DEF Clear
  <2>2. CASE Current(f) /\ Owns(f)
    <3>1. row' = [row EXCEPT !.provider = "none", !.sub = None, !.status = "canceled",
                     !.tier = IF KeepsGrant(f) THEN @ ELSE "free",
                     !.source = IF KeepsGrant(f) THEN @ ELSE "none"]
      BY <1>3, <2>2 DEF Clear
    <3>2. row' \in Row /\ row'.provider = "none" /\ row'.status = "canceled"
      BY <3>1, <1>r DEF Row, Status
    <3>3. /\ row'.tier = IF KeepsGrant(f) THEN row.tier ELSE "free"
          /\ row'.source = IF KeepsGrant(f) THEN row.source ELSE "none"
      BY <3>1, <1>r DEF Row
    <3> QED
      BY <3>2, <3>3, <2>2, <1>3 DEF Writes, Clears, Clear, Owns
  <2> QED
    BY <2>1, <2>2
<1>4. ASSUME ClaimActive(f) PROVE Writes(f)
  <2> DEFINE Mine == Current(f) /\ row.status \notin Live /\ Claimable(row, on[f]) /\ Eligible(f)
  <2>1. CASE ~Mine
    BY <2>1, <1>1, <1>4 DEF ClaimActive
  <2>2. CASE Mine
    <3>1. row' = WithStatus(Stamped(Claimed(row, f), f), NewStatus(f))
      BY <1>4, <2>2 DEF ClaimActive, WithStatus
    <3> QED
      BY <3>1, <2>2, <1>a, <1>4, ClaimedStamped
         DEF Writes, Claims, Claiming, ClaimActive, Claimable
  <2> QED
    BY <2>1, <2>2
<1>5. ASSUME ClaimPastDue(f) PROVE Writes(f)
  <2> DEFINE Mine == Current(f) /\ row.status # "past_due" /\ Claimable(row, on[f])
  <2>1. CASE ~Mine
    BY <2>1, <1>1, <1>5 DEF ClaimPastDue
  <2>2. CASE Mine
    <3>1. row' = [Claimed(row, f) EXCEPT !.status = "past_due"]
      BY <1>5, <2>2 DEF ClaimPastDue
    <3>2. "past_due" \in Status
      BY DEF Status
    <3> DEFINE c == Claimed(row, f)
    <3>3. /\ c \in Row /\ c.provider = IF Keeps(f) THEN row.provider ELSE "stripe"
          /\ c.sub = IF Keeps(f) THEN row.sub ELSE on[f]
          /\ c.tier = NewTier(f) /\ c.source = NewSource(f)
      BY <1>a, ClaimedFacts
    <3>4. row' = WithStatus(c, "past_due")
      BY <3>1 DEF WithStatus
    <3> HIDE DEF c
    <3>5. /\ row' \in Row /\ row'.status = "past_due" /\ row'.provider = c.provider
          /\ row'.sub = c.sub /\ row'.tier = c.tier /\ row'.source = c.source
      BY <3>2, <3>3, <3>4, StatusSet
    <3> QED
      BY <3>3, <3>5, <2>2, <1>5 DEF Writes, Claims, Claiming, ClaimPastDue, Claimable
  <2> QED
    BY <2>1, <2>2
<1>6. ASSUME Claim(f) PROVE Writes(f)
  <2> DEFINE Mine == Current(f) /\ Claimable(row, on[f])
  <2>1. CASE ~Mine
    BY <2>1, <1>1, <1>6 DEF Claim
  <2>2. CASE Mine
    <3> DEFINE c == Claimed(row, f)
               st == IF NewStatus(f) = "canceled" THEN "canceled" ELSE c.status
    <3>1. row' = WithStatus(c, st)
      BY <1>6, <2>2 DEF Claim, WithStatus
    <3>3. /\ c \in Row /\ c.provider = IF Keeps(f) THEN row.provider ELSE "stripe"
          /\ c.sub = (IF Keeps(f) THEN row.sub ELSE on[f]) /\ c.status = row.status
          /\ c.tier = NewTier(f) /\ c.source = NewSource(f)
      BY <1>a, ClaimedFacts
    <3> HIDE DEF c
    <3>t. c.trialOf = row.trialOf
      BY <1>a, ClaimedFacts DEF c
    <3>s. c.status \in Status /\ "canceled" \in Status
      BY <3>3 DEF Row, Status
    <3>4. st \in Status /\ (st = "trialing" => row.status = "trialing")
      BY <3>3, <3>s
    <3> HIDE DEF st
    <3>5. /\ row' \in Row /\ row'.status = st /\ row'.provider = c.provider
          /\ row'.sub = c.sub /\ row'.tier = c.tier /\ row'.source = c.source
          /\ row'.trialOf = c.trialOf
      BY <3>1, <3>3, <3>4, StatusSet
    <3> QED
      BY <3>3, <3>4, <3>5, <3>t, <2>2, <1>6 DEF Writes, Claims, Claiming, Claim, Claimable
  <2> QED
    BY <2>1, <2>2
<1>7. ASSUME Reclaim(f) PROVE Writes(f)
  <2> DEFINE Mine == /\ Current(f) /\ row.sub = stored[f] /\ row.provider # "store"
                     /\ Eligible(f)
  <2>1. CASE ~Mine
    BY <2>1, <1>1, <1>7 DEF Reclaim
  <2>2. CASE Mine
    <3>1. row' = WithStatus(Stamped(Claimed(row, f), f), NewStatus(f))
      BY <1>7, <2>2 DEF Reclaim, WithStatus
    <3> QED
      BY <3>1, <2>2, <1>a, <1>7, ClaimedStamped DEF Writes, Claims, Claiming, Reclaim
  <2> QED
    BY <2>1, <2>2
<1>8. ASSUME StampEnded(f) \/ Flush(f) \/ StampStale(f) PROVE Touches
  BY <1>8 DEF StampEnded, Flush, StampStale
<1>9. ASSUME \/ Read(f) \/ Fetch(f) \/ Recheck(f) \/ Retire(f) \/ Dedup(f) \/ ReadStored(f)
             \/ AskStored(f) \/ Reread(f) \/ Cancel(f) \/ Refund(f) \/ OpenConflict(f)
             \/ Reject(f) \/ EndTrial(f) \/ OpenRejection(f) \/ Enqueue(f)
      PROVE Same
  BY <1>9 DEF Read, Fetch, Recheck, Retire, Dedup, ReadStored, AskStored, Reread, Cancel,
              Refund, OpenConflict, Reject, EndTrial, OpenRejection, Enqueue
<1> HIDE DEF Same, Touches
<1> QED
  BY <1>1, <1>2, <1>3, <1>4, <1>5, <1>6, <1>7, <1>8, <1>9 DEF EventStep

----------------------------------------------------------------------------
(* Types are kept.                                                           *)

\* What an event's step does to everything but the row and the flows.
LEMMA TablesKept ==
  ASSUME TInv, NEW f \in Flow, EventStep(f)
  PROVE  Tables' /\ stripe' \in [Sub -> Record] /\ UNCHANGED frame
<1> DEFINE Kept == Tables' /\ stripe' \in [Sub -> Record] /\ UNCHANGED frame
<1>t. Tables /\ stripe \in [Sub -> Record]
  BY DEF TInv, DataTypes
<1>a. on[f] \in Sub
  BY Shapes
<1>o. /\ on \in [Flow -> Sub \cup Notice \cup {None}] /\ heard \in [Flow -> BOOLEAN]
  BY DEF TInv, FlowTypes
<1>1. ASSUME Read(f) PROVE Kept
  BY <1>1, <1>t, <1>a DEF Read, Tables, stripeVars, frame, Abort
<1>2. ASSUME Fetch(f) PROVE Kept
  BY <1>2, <1>t, <1>a DEF Fetch, Tables, stripeVars, frame
<1>3. ASSUME StampEnded(f) PROVE Kept
  BY <1>3, <1>t, <1>a DEF StampEnded, Tables, stripeVars, frame
<1>4. ASSUME Clear(f) PROVE Kept
  BY <1>4, <1>t, <1>a DEF Clear, Tables, stripeVars, frame, Ack, Abort
<1>5. ASSUME ClaimActive(f) PROVE Kept
  BY <1>5, <1>t, <1>a DEF ClaimActive, Tables, stripeVars, frame
<1>6. ASSUME Recheck(f) PROVE Kept
  BY <1>6, <1>t, <1>a DEF Recheck, Tables, stripeVars, frame
<1>7. ASSUME ClaimPastDue(f) PROVE Kept
  BY <1>7, <1>t, <1>a DEF ClaimPastDue, Tables, stripeVars, frame
<1>8. ASSUME Retire(f) PROVE Kept
  BY <1>8, <1>t, <1>a DEF Retire, Tables, stripeVars, frame, Retired
<1>9. ASSUME Claim(f) PROVE Kept
  BY <1>9, <1>t, <1>a DEF Claim, Tables, stripeVars, frame, Retired, Abort
<1>10. ASSUME Flush(f) PROVE Kept
  <2>1. slips' \subseteq {"stamp", "reclaim"} \X Sub
    <3>1. slips' \subseteq slips \cup {<<"stamp", on[f]>>}
      BY <1>10 DEF Flush
    <3>2. <<"stamp", on[f]>> \in {"stamp", "reclaim"} \X Sub
      BY <1>a
    <3> QED
      BY <3>1, <3>2, <1>t DEF Tables
  <2>2. owed' \in [Sub -> BOOLEAN] /\ UNCHANGED <<stripe, ours, refunded, open, mail, frame>>
    BY <1>10, <1>t, <1>a DEF Flush, Tables, Ack, frame
  <2> QED
    BY <2>1, <2>2, <1>t DEF Tables
<1>11. ASSUME Dedup(f) PROVE Kept
  BY <1>11, <1>t, <1>a DEF Dedup, Tables, stripeVars, frame, Ack
<1>12. ASSUME StampStale(f) PROVE Kept
  BY <1>12, <1>t, <1>a DEF StampStale, Tables, stripeVars, frame, Ack, Abort
<1>13. ASSUME ReadStored(f) PROVE Kept
  BY <1>13, <1>t, <1>a DEF ReadStored, Tables, stripeVars, frame
<1>14. ASSUME AskStored(f) PROVE Kept
  BY <1>14, <1>t, <1>a DEF AskStored, Tables, stripeVars, frame, Abort
<1>15. ASSUME Reclaim(f) PROVE Kept
  BY <1>15, <1>t, <1>a DEF Reclaim, Tables, stripeVars, frame, Ack
<1>16. ASSUME Reread(f) PROVE Kept
  <2>1. slips' \subseteq {"stamp", "reclaim"} \X Sub
    <3>1. slips' \subseteq slips \cup {<<"reclaim", on[f]>>}
      BY <1>16 DEF Reread
    <3>2. <<"reclaim", on[f]>> \in {"stamp", "reclaim"} \X Sub
      BY <1>a
    <3> QED
      BY <3>1, <3>2, <1>t DEF Tables
  <2>2. owed' \in [Sub -> BOOLEAN] /\ UNCHANGED <<stripe, ours, refunded, open, mail, frame>>
    BY <1>16, <1>t, <1>a DEF Reread, Tables, Ack, frame
  <2> QED
    BY <2>1, <2>2, <1>t DEF Tables
<1>17. ASSUME Cancel(f) PROVE Kept
  <2>1. stripe' \in [Sub -> Record]
    BY <1>17, <1>t, <1>a DEF Cancel, Record, StripeStatus
  <2>2. slips' \subseteq slips /\ owed' \in [Sub -> BOOLEAN]
    BY <1>17, <1>t, <1>a DEF Cancel, Abort, Changed, Tables
  <2>3. ours' \subseteq Sub /\ UNCHANGED <<refunded, open, mail, frame>>
    BY <1>17, <1>t, <1>a DEF Cancel, Tables, frame
  <2> QED
    BY <2>1, <2>2, <2>3, <1>t DEF Tables
<1>18. ASSUME Refund(f) PROVE Kept
  BY <1>18, <1>t, <1>a DEF Refund, Tables, stripeVars, frame, Abort
<1>19. ASSUME OpenConflict(f) PROVE Kept
  BY <1>19, <1>t, <1>a DEF OpenConflict, Tables, stripeVars, frame, Ack
<1>20. ASSUME Reject(f) PROVE Kept
  BY <1>20, <1>t, <1>a DEF Reject, Tables, stripeVars, frame, Ack, Abort
<1>21. ASSUME EndTrial(f) PROVE Kept
  <2>1. stripe' \in [Sub -> Record]
    BY <1>21, <1>t, <1>a DEF EndTrial, Record, StripeStatus
  <2>2. slips' \subseteq slips /\ owed' \in [Sub -> BOOLEAN]
    BY <1>21, <1>t, <1>a DEF EndTrial, Abort, Changed, Tables
  <2>3. ours' \subseteq Sub /\ UNCHANGED <<refunded, open, mail, frame>>
    BY <1>21, <1>t, <1>a DEF EndTrial, Tables, frame
  <2> QED
    BY <2>1, <2>2, <2>3, <1>t DEF Tables
<1>22. ASSUME OpenRejection(f) PROVE Kept
  BY <1>22, <1>t, <1>a DEF OpenRejection, Tables, stripeVars, frame, Ack
<1>23. ASSUME Enqueue(f) PROVE Kept
  <2>1. mail' \subseteq Notice
    <3>1. \A m \in Notice : [m EXCEPT !.fresh = FALSE] \in Notice
      BY DEF Notice
    <3>2. NoticeKind(f) \in Kinds
      BY DEF NoticeKind, Kinds
    <3>3. [kind |-> NoticeKind(f), sub |-> on[f], fresh |-> TRUE] \in Notice
      BY <3>2, <1>a DEF Notice
    <3> DEFINE job0 == {[kind |-> NoticeKind(f), sub |-> on[f], fresh |-> TRUE]}
               old == {[m EXCEPT !.fresh = FALSE] : m \in mail}
    <3>4. old \subseteq Notice /\ job0 \subseteq Notice
      BY <3>1, <3>3, <1>t DEF Tables
    <3>5. (\E job \in SUBSET job0 : mail' = old \cup job) \/ mail' = mail
      BY <1>23 DEF Enqueue
    <3> HIDE DEF job0, old
    <3> QED
      BY <3>4, <3>5, <1>t DEF Tables
  <2> QED
    BY <2>1, <1>23, <1>t DEF Enqueue, Tables, Ack, Abort, frame
<1> HIDE DEF Kept
<1>q. Kept
  BY <1>1, <1>2, <1>3, <1>4, <1>5, <1>6, <1>7, <1>8, <1>9, <1>10, <1>11, <1>12, <1>13, <1>14,
     <1>15, <1>16, <1>17, <1>18, <1>19, <1>20, <1>21, <1>22, <1>23 DEF EventStep
<1> QED
  BY <1>q DEF Kept

LEMMA TypesStart == Init => TInv
<1> SUFFICES ASSUME Init PROVE TInv
  OBVIOUS
<1>1. row \in Row /\ faults \in 0..world.faults
  BY WorldsAssumption DEF Init
<1>2. stripe \in [Sub -> Record] /\ Tables
  BY NoneFacts DEF Init, Tables
<1>3. FlowTypes /\ Abouts
  BY NoneFacts DEF Init, FlowTypes, Abouts, PCs, Carrying
<1> QED
  BY <1>1, <1>2, <1>3 DEF TInv, DataTypes, Init

LEMMA TypesKept == TInv /\ [Next]_vars => TInv'
<1> SUFFICES ASSUME TInv, [Next]_vars PROVE TInv'
  OBVIOUS
<1>d. DataTypes /\ FlowTypes /\ Abouts
  BY DEF TInv
<1>w. world \in Worlds /\ world.faults \in Nat
  BY <1>d, WorldsAssumption DEF DataTypes
<1>f. ASSUME NEW fault, Strikes(fault), UNCHANGED world
      PROVE  faults' \in 0..world'.faults
  BY <1>f, <1>w, <1>d DEF Strikes, DataTypes
<1>1. ASSUME NEW f \in Flow, EventStep(f) PROVE TInv'
  <2>1. FlowTypes' /\ Abouts'
    <3>1. CASE Leave(f)
      BY <3>1, Ends
    <3>2. CASE Onward(f)
      BY <3>2, <1>1, Shapes, GoesOn DEF Onward
    <3> QED
      BY <3>1, <3>2, <1>1, Shapes
  <2>2. row' \in Row
    BY <1>1, Written DEF Writes
  <2>3. Tables' /\ stripe' \in [Sub -> Record] /\ UNCHANGED frame
    BY <1>1, TablesKept
  <2> QED
    BY <2>1, <2>2, <2>3, <1>d DEF TInv, DataTypes, frame
<1>2. ASSUME NEW f \in Flow, Match(f) \/ Send(f) \/ Fail(f) PROVE TInv'
  <2>1. FlowTypes' /\ Abouts'
    <3>1. CASE Leave(f)
      BY <3>1, Ends
    <3>2. CASE /\ pc[f] = "match" /\ Goto(f, "send")
              /\ UNCHANGED <<lockVars, on, heard, locals>>
      BY <3>2, <1>d, GoesOn DEF FlowTypes, PCs, Carrying, locals
    <3> QED
      BY <3>1, <3>2, <1>2 DEF Match, Send, Fail, Abort
  <2>2. Tables' /\ UNCHANGED <<row, stripe, world>>
    BY <1>2, <1>d DEF Match, Send, Fail, Abort, DataTypes, Tables, frame
  <2>3. faults' \in 0..world'.faults
    <3>1. CASE Fail(f)
      BY <3>1, <1>f DEF Fail
    <3>2. CASE Match(f) \/ Send(f)
      BY <3>2, <1>d DEF Match, Send, frame, DataTypes
    <3> QED
      BY <3>1, <3>2, <1>2
  <2> QED
    BY <2>1, <2>2, <2>3, <1>d DEF TInv, DataTypes
<1>3. ASSUME NEW f \in Flow, NEW s \in Sub, Deliver(f, s) PROVE TInv'
  <2>1. FlowTypes'
    BY <1>3, <1>d DEF Deliver, FlowTypes, Goto, PCs, locals
  <2>2. Abouts'
    BY <1>3, <1>d DEF Deliver, Abouts, FlowTypes, Goto, Carrying
  <2> QED
    BY <2>1, <2>2, <1>3, <1>d DEF TInv, DataTypes, Tables, Deliver, frame, stripeVars
<1>4. ASSUME NEW f \in Flow, NEW m \in mail, Take(f, m) PROVE TInv'
  <2>0. m \in Notice
    BY <1>d DEF DataTypes, Tables
  <2>1. FlowTypes'
    BY <1>4, <2>0, <1>d DEF Take, FlowTypes, Goto, PCs, locals
  <2>2. Abouts'
    BY <1>4, <2>0, <1>d DEF Take, Abouts, FlowTypes, Goto, Carrying
  <2> QED
    BY <2>1, <2>2, <1>4, <1>d DEF TInv, DataTypes, Tables, Take, frame, stripeVars
<1>5. ASSUME NEW s \in Sub, StripeMoves(s) PROVE TInv'
  <2>1. stripe' \in [Sub -> Record]
    <3>1. PICK m \in world.moves :
            stripe' = [stripe EXCEPT ![s].st = m[2], ![s].tried = @ \/ m[2] = "trialing"]
      BY <1>5 DEF StripeMoves
    <3>2. m[2] \in StripeStatus
      BY <3>1, <1>w, WorldsAssumption
    <3> QED
      BY <3>1, <3>2, <1>d DEF DataTypes, Record
  <2>2. slips' \subseteq slips /\ owed' \in [Sub -> BOOLEAN] /\ heard' \in [Flow -> BOOLEAN]
    BY <1>5, <1>d DEF StripeMoves, Changed, DataTypes, Tables, FlowTypes
  <2>3. UNCHANGED <<frame, row, ours, refunded, open, mail, lockVars, pc, on, locals>>
    BY <1>5 DEF StripeMoves
  <2> QED
    BY <2>1, <2>2, <2>3, <1>d
       DEF TInv, DataTypes, Tables, FlowTypes, Abouts, frame, lockVars, locals
<1>6. ASSUME NEW s \in Sub, CheckoutCompleted(s) PROVE TInv'
  <2>1. row' \in Row
    BY <1>6, <1>d DEF CheckoutCompleted, DataTypes, Row
  <2> QED
    BY <2>1, <1>6, <1>d DEF CheckoutCompleted, TInv, DataTypes, Tables, FlowTypes, Abouts,
                            frame, stripeVars, lockVars, locals
<1>7. ASSUME StoreTrial PROVE TInv'
  <2>1. row' \in Row
    BY <1>7, <1>d DEF StoreTrial, DataTypes, Row
  <2>2. faults' \in 0..world'.faults
    BY <1>7, <1>f DEF StoreTrial
  <2>3. newest' = None /\ UNCHANGED <<world, stripeVars, open, mail, holder, pc, on, heard, locals>>
    BY <1>7 DEF StoreTrial
  <2> QED
    BY <2>1, <2>2, <2>3, <1>d DEF TInv, DataTypes, Tables, FlowTypes, Abouts, stripeVars, locals
<1>8. ASSUME Lapse PROVE TInv'
  <2>1. faults' \in 0..world'.faults
    BY <1>8, <1>f DEF Lapse
  <2>2. holder' = None /\ UNCHANGED <<world, row, stripeVars, open, mail, newest, pc, on, heard, locals>>
    BY <1>8 DEF Lapse
  <2> QED
    BY <2>1, <2>2, <1>d DEF TInv, DataTypes, Tables, FlowTypes, Abouts, stripeVars, locals
<1>9. CASE UNCHANGED vars
  BY <1>9, <1>d DEF vars, TInv, DataTypes, Tables, FlowTypes, Abouts, frame, stripeVars,
                    lockVars, locals
<1> QED
  BY <1>1, <1>2, <1>3, <1>4, <1>5, <1>6, <1>7, <1>8, <1>9 DEF Next

\* Every variable keeps its type, in every world.
THEOREM TypeCorrect == Spec => []TypeOK
<1>1. TInv => TypeOK
  BY TypeParts DEF TInv
<1> QED
  BY TypesStart, TypesKept, <1>1, PTL DEF Spec

----------------------------------------------------------------------------
(* What the row and the newest flow can rely on.                             *)

\* The row, whoever wrote it: a slot of Stripe's names its subscription, one that
\* entitles without a subscription stands beside a grant, and a trial is the one
\* the marker was set for.
RInv ==
  /\ row.provider = "stripe" => row.sub # None
  /\ row.sub = None /\ row.provider # "store" /\ row.status \in Entitling => row.source = "grant"
  /\ row.status = "trialing" /\ row.provider # "store" =>
       row.provider = "stripe" /\ row.trialOf = row.sub

Deciding == {"fetch", "stamp", "clear", "activate", "recheck", "pastDue", "claim", "dedup",
             "stale", "stored", "ask", "reclaim"}
Losing   == {"dedup", "stored", "ask", "reclaim", "reread", "cancel"}
Taking   == {"activate", "pastDue", "retire", "flushWon"}

\* The newest flow's snapshot still tells tier and provenance.
Knows(f) ==
  newest = f /\ pc[f] \in Deciding => row.tier = snap[f].tier /\ row.source = snap[f].source
\* The slot is another's as long as the newest flow takes it to be.
Loses(f) == newest = f /\ pc[f] \in Losing => ~Claimable(row, on[f])
\* A checked notice is true until it is sent.
TrueOf(m) == Announces(m, row) \/ (m.kind = "billing_failed" /\ row.status = "past_due")
Announced(f) == newest = f /\ pc[f] = "send" => TrueOf(on[f])
\* Only a subscription that has not ended is taken for the rider's.
Lives(f) == pc[f] \in Taking => rec[f].st \notin Terminal
\* A cancellation is announced only where no grant is left, and none comes back.
NoGrant(f) ==
  \/ pc[f] = "notice" /\ rec[f].st \in Terminal
  \/ pc[f] \in Carrying /\ on[f].kind = "cancelled"
  => row.source # "grant"

FInv(f) == Knows(f) /\ Loses(f) /\ Announced(f) /\ Lives(f) /\ NoGrant(f)
Holding == holder # None => newest = holder
Mails   == \A m \in mail : m.kind = "cancelled" => row.source # "grant"

SInv == TInv /\ RInv /\ Holding /\ Mails /\ \A f \in Flow : FInv(f)

LEMMA StartFacts == Init => SInv
<1> SUFFICES ASSUME Init PROVE SInv
  OBVIOUS
<1>1. RInv
  BY RowsAssumption DEF Init, RInv, Entitling
<1>2. Holding /\ Mails
  BY DEF Init, Holding, Mails
<1>3. \A f \in Flow : FInv(f)
  BY DEF Init, FInv, Knows, Loses, Announced, Lives, NoGrant, Deciding, Losing, Taking, Carrying
<1> QED
  BY <1>1, <1>2, <1>3, TypesStart DEF SInv

\* What a claim writes in terms of the row it was decided on.
LEMMA ClaimKeeps ==
  ASSUME SInv, NEW f \in Flow, Current(f), Claims(f)
  PROVE  /\ row.source = "grant" /\ row.tier = "paid" =>
              row'.tier = "paid" /\ row'.source \in {"grant", "subscription"}
         /\ row.source # "grant" => row'.source # "grant"
         /\ Keeps(f) => row'.source = "grant" /\ row.source = "grant"
<1>1. row.tier = snap[f].tier /\ row.source = snap[f].source
  BY DEF SInv, FInv, Knows, Current, Claims, Claiming, Deciding
<1>2. row'.tier = NewTier(f) /\ row'.source = NewSource(f)
  BY DEF Claims
<1> QED
  BY <1>1, <1>2 DEF NewTier, NewSource, Keeps

LEMMA GrantKept ==
  ASSUME SInv, NEW f \in Flow, EventStep(f)
  PROVE  /\ row.source = "grant" /\ row.tier = "paid" =>
              row'.tier = "paid" /\ row'.source \in {"grant", "subscription"}
         /\ row.source # "grant" => row'.source # "grant"
<1>1. CASE row' = row
  BY <1>1
<1>2. CASE Current(f) /\ Stamps(f)
  BY <1>2 DEF Stamps
<1>3. CASE Current(f) /\ Clears(f)
  <2>1. row.source = snap[f].source
    BY <1>3 DEF SInv, FInv, Knows, Current, Clears, Deciding
  <2> QED
    BY <2>1, <1>3 DEF Clears, KeepsGrant
<1>4. CASE Current(f) /\ Claims(f)
  BY <1>4, ClaimKeeps
<1> QED
  BY <1>1, <1>2, <1>3, <1>4, Written DEF Writes, SInv

LEMMA RowKept ==
  ASSUME SInv, NEW f \in Flow, EventStep(f)
  PROVE  RInv'
<1>a. on[f] \in Sub /\ on[f] # None
  BY Shapes, NoneFacts DEF SInv
<1>1. CASE row' = row
  BY <1>1 DEF RInv, SInv
<1>2. CASE Current(f) /\ Stamps(f)
  BY <1>2, NoneFacts DEF Stamps, RInv, SInv
<1>3. CASE Current(f) /\ Clears(f)
  BY <1>3 DEF Clears, RInv, Entitling
<1>4. CASE Current(f) /\ Claims(f)
  <2>1. Keeps(f) => row'.source = "grant"
    BY <1>4, ClaimKeeps
  <2>2. /\ row'.provider = (IF Keeps(f) THEN row.provider ELSE "stripe")
        /\ row'.sub = (IF Keeps(f) THEN row.sub ELSE on[f]) /\ row.provider # "store"
    BY <1>4 DEF Claims
  <2>3. row'.provider = "stripe" => row'.sub # None
    BY <2>2, <1>a DEF RInv, SInv
  <2>4. row'.sub = None => row'.source = "grant"
    BY <2>1, <2>2, <1>a
  <2>5. row'.status = "trialing" => row'.provider = "stripe" /\ row'.trialOf = row'.sub
    <3>1. CASE ~Keeps(f) /\ row'.trialOf = on[f]
      BY <3>1, <2>2
    <3>2. CASE /\ row.status = "trialing" /\ row.sub \in {None, on[f]}
              /\ row'.trialOf = row.trialOf
      BY <3>2, <2>2 DEF RInv, SInv
    <3> QED
      BY <3>1, <3>2, <1>4 DEF Claims
  <2> QED
    BY <2>3, <2>4, <2>5 DEF RInv
<1> QED
  BY <1>1, <1>2, <1>3, <1>4, Written DEF Writes, SInv

\* Where an event's flow goes, and what it knows there.
Moved(f) ==
  /\ pc'[f] \in Deciding =>
       \/ snap'[f] = row /\ row' = row
       \/ /\ pc[f] \in Deciding /\ snap'[f] = snap[f]
          /\ row'.tier = row.tier /\ row'.source = row.source
  /\ pc'[f] \in Losing => row' = row /\ (pc[f] \in Losing \/ ~Claimable(row, on[f]))
  /\ pc'[f] \in Taking => rec'[f].st \notin Terminal
  /\ pc'[f] = "notice" /\ rec'[f].st \in Terminal => row'.source # "grant"

LEMMA Moves ==
  ASSUME SInv, NEW f \in Flow, EventStep(f), ~Leave(f)
  PROVE  Moved(f)
<1>t. /\ pc \in [Flow -> PCs] /\ snap \in [Flow -> Row] /\ rec \in [Flow -> Record]
      /\ row \in Row /\ on[f] \in Sub /\ stripe \in [Sub -> Record]
  BY Shapes DEF SInv, TInv, FlowTypes, DataTypes
<1>s. /\ Stamped(row, f).tier = row.tier /\ Stamped(row, f).source = row.source
  BY <1>t, StampFacts DEF SInv
<1>l. Lives(f)
  BY DEF SInv, FInv
<1>1. ASSUME Read(f) PROVE Moved(f)
  BY <1>1, <1>t DEF Read, Goto, Moved, Deciding, Losing, Taking, Abort
<1>2. ASSUME Fetch(f) PROVE Moved(f)
  <2> DEFINE st == stripe[on[f]].st
             to == CASE st \in Terminal -> "stamp"
                     [] st \in Live -> "activate"
                     [] statusFromSubscription(st) = "past_due" -> "pastDue"
                     [] OTHER -> "claim"
  <2>1. /\ pc[f] = "fetch" /\ pc' = [pc EXCEPT ![f] = to]
        /\ rec' = [rec EXCEPT ![f] = stripe[on[f]]] /\ UNCHANGED <<row, snap>>
    BY <1>2 DEF Fetch, Goto
  <2>2. st \in StripeStatus
    BY <1>t DEF Record
  <2>3. /\ to \in {"stamp", "activate", "pastDue", "claim"}
        /\ to \in {"activate", "pastDue"} => st \notin Terminal
    BY <2>2 DEF Live, Terminal, statusFromSubscription
  <2>4. pc'[f] = to /\ rec'[f].st = st
    BY <2>1, <1>t
  <2> HIDE DEF to, st
  <2> QED
    BY <2>1, <2>3, <2>4 DEF Moved, Deciding, Losing, Taking
<1>3. ASSUME StampEnded(f) PROVE Moved(f)
  BY <1>3, <1>t, <1>s DEF StampEnded, Goto, Moved, Deciding, Losing, Taking, locals
<1>4. ASSUME Clear(f) PROVE Moved(f)
  <2>1. /\ pc' = [pc EXCEPT ![f] = "notice"] /\ ~KeepsGrant(f)
        /\ row' = [row EXCEPT !.provider = "none", !.sub = None, !.status = "canceled",
                     !.tier = IF KeepsGrant(f) THEN @ ELSE "free",
                     !.source = IF KeepsGrant(f) THEN @ ELSE "none"]
    BY <1>4 DEF Clear, Goto, Ack, Abort
  <2>2. row'.source = "none" /\ pc'[f] = "notice"
    BY <2>1, <1>t DEF Row
  <2> QED
    BY <2>2 DEF Moved, Deciding, Losing, Taking
<1>5. ASSUME ClaimActive(f) PROVE Moved(f)
  BY <1>5, <1>t, <1>l DEF ClaimActive, Goto, Moved, Deciding, Losing, Taking, locals, Lives
<1>6. ASSUME Recheck(f) PROVE Moved(f)
  BY <1>6, <1>t DEF Recheck, Goto, Moved, Deciding, Losing, Taking, locals
<1>7. ASSUME ClaimPastDue(f) PROVE Moved(f)
  BY <1>7, <1>t, <1>l DEF ClaimPastDue, Goto, Moved, Deciding, Losing, Taking, locals, Lives
<1>8. ASSUME Retire(f) PROVE Moved(f)
  BY <1>8, <1>t, <1>l DEF Retire, Goto, Moved, Deciding, Losing, Taking, locals, Lives
<1>9. ASSUME Claim(f) PROVE Moved(f)
  BY <1>9, <1>t DEF Claim, Goto, Moved, Deciding, Losing, Taking, Abort, locals
<1>10. ASSUME Flush(f) PROVE Moved(f)
  BY <1>10, <1>t, <1>s, <1>l DEF Flush, Goto, Moved, Deciding, Losing, Taking, Ack, locals, Lives
<1>11. ASSUME Dedup(f) PROVE Moved(f)
  BY <1>11, <1>t DEF Dedup, Goto, Moved, Deciding, Losing, Taking, Ack, locals
<1>12. ASSUME StampStale(f) PROVE Moved(f)
  BY <1>12, <1>t DEF StampStale, Goto, Moved, Deciding, Losing, Taking, Ack, Abort
<1>13. ASSUME ReadStored(f) PROVE Moved(f)
  BY <1>13, <1>t DEF ReadStored, Goto, Moved, Deciding, Losing, Taking
<1>14. ASSUME AskStored(f) PROVE Moved(f)
  BY <1>14, <1>t DEF AskStored, Goto, Moved, Deciding, Losing, Taking, Abort, locals
<1>15. ASSUME Reclaim(f) PROVE Moved(f)
  <2>1. \/ pc' = [pc EXCEPT ![f] = "notice"] /\ rec' = rec /\ NewStatus(f) \in Live
        \/ pc' = [pc EXCEPT ![f] = "reread"] /\ rec' = rec /\ row' = row /\ pc[f] = "reclaim"
    BY <1>15 DEF Reclaim, Goto, Ack, locals
  <2>2. NewStatus(f) \in Live => rec[f].st \notin Terminal
    BY NewFacts, StatusFacts DEF NewStatus, SInv, Live, Terminal
  <2>3. CASE pc'[f] = "notice" /\ rec' = rec /\ NewStatus(f) \in Live
    BY <2>2, <2>3 DEF Moved, Deciding, Losing, Taking
  <2>4. CASE pc'[f] = "reread" /\ row' = row /\ pc[f] = "reclaim"
    BY <2>4 DEF Moved, Deciding, Losing, Taking
  <2> QED
    BY <2>1, <2>3, <2>4, <1>t
<1>16. ASSUME Reread(f) PROVE Moved(f)
  BY <1>16, <1>t DEF Reread, Goto, Moved, Deciding, Losing, Taking, Ack, locals
<1>17. ASSUME Cancel(f) PROVE Moved(f)
  BY <1>17, <1>t DEF Cancel, Goto, Moved, Deciding, Losing, Taking, Abort, locals
<1>18. ASSUME Refund(f) PROVE Moved(f)
  BY <1>18, <1>t DEF Refund, Goto, Moved, Deciding, Losing, Taking, Abort, locals
<1>19. ASSUME OpenConflict(f) PROVE Moved(f)
  BY <1>19, <1>t DEF OpenConflict, Goto, Moved, Deciding, Losing, Taking, Ack
<1>20. ASSUME Reject(f) PROVE Moved(f)
  BY <1>20, <1>t DEF Reject, Goto, Moved, Deciding, Losing, Taking, Ack, Abort, locals
<1>21. ASSUME EndTrial(f) PROVE Moved(f)
  BY <1>21, <1>t DEF EndTrial, Goto, Moved, Deciding, Losing, Taking, Abort, locals
<1>22. ASSUME OpenRejection(f) PROVE Moved(f)
  BY <1>22, <1>t DEF OpenRejection, Goto, Moved, Deciding, Losing, Taking, Ack
<1>23. ASSUME Enqueue(f) PROVE Moved(f)
  BY <1>23, <1>t DEF Enqueue, Goto, Moved, Deciding, Losing, Taking, Ack, Abort
<1> QED
  BY <1>1, <1>2, <1>3, <1>4, <1>5, <1>6, <1>7, <1>8, <1>9, <1>10, <1>11, <1>12, <1>13, <1>14,
     <1>15, <1>16, <1>17, <1>18, <1>19, <1>20, <1>21, <1>22, <1>23 DEF EventStep

\* A flow between its steps, while the row stays or the row is not its to know.
LEMMA Rests ==
  ASSUME SInv, NEW g \in Flow,
         pc'[g] = pc[g], on'[g] = on[g], snap'[g] = snap[g], rec'[g] = rec[g],
         newest' = g => newest = g /\ row' = row, row.source # "grant" => row'.source # "grant"
  PROVE  FInv(g)'
<1>1. FInv(g)
  BY DEF SInv
<1>2. Knows(g)' /\ Loses(g)'
  BY <1>1 DEF FInv, Knows, Loses, Claimable
<1>3. Announced(g)'
  BY <1>1 DEF FInv, Announced, TrueOf, Announces
<1> QED
  BY <1>1, <1>2, <1>3 DEF FInv, Lives, NoGrant

\* One that is over, or has just begun.
LEMMA Fresh ==
  ASSUME NEW f \in Flow, pc'[f] \in {"idle", "read"}
  PROVE  FInv(f)'
  BY DEF FInv, Knows, Loses, Announced, Lives, NoGrant, Deciding, Losing, Taking, Carrying

\* The event's flow itself.
LEMMA Own ==
  ASSUME SInv, NEW f \in Flow, EventStep(f)
  PROVE  FInv(f)'
<1>1. CASE Leave(f)
  BY <1>1, Ends, Fresh DEF SInv
<1>2. CASE ~Leave(f)
  <2>1. Moved(f)
    BY <1>2, Moves
  <2>2. Onward(f)
    BY <1>2, Shapes DEF SInv
  <2>3. newest' = newest /\ on' = on /\ pc'[f] \notin Carrying
    BY <2>2 DEF Onward, lockVars, Goto, SInv, TInv, FlowTypes
  <2>4. FInv(f)
    BY DEF SInv
  <2>5. Knows(f)'
    BY <2>1, <2>3, <2>4 DEF Moved, FInv, Knows
  <2>6. Loses(f)'
    BY <2>1, <2>3, <2>4 DEF Moved, FInv, Loses, Claimable
  <2>7. Announced(f)' /\ Lives(f)' /\ NoGrant(f)'
    BY <2>1, <2>3 DEF Moved, Announced, Lives, NoGrant, Carrying
  <2> QED
    BY <2>5, <2>6, <2>7 DEF FInv
<1> QED
  BY <1>1, <1>2

\* The other flows stay where they are, with what they read.
LEMMA Untouched ==
  ASSUME SInv, NEW f \in Flow, EventStep(f), NEW g \in Flow, g # f
  PROVE  /\ newest' = newest /\ pc'[g] = pc[g] /\ on'[g] = on[g]
         /\ snap'[g] = snap[g] /\ rec'[g] = rec[g] /\ stored'[g] = stored[g]
<1>1. /\ newest' = newest /\ pc'[g] = pc[g] /\ on'[g] = on[g]
  <2>1. CASE Leave(f)
    BY <2>1, Ends DEF SInv
  <2>2. CASE Onward(f)
    BY <2>2 DEF Onward, Goto, lockVars, SInv, TInv, FlowTypes
  <2> QED
    BY <2>1, <2>2, Shapes DEF SInv
<1>2. snap'[g] = snap[g] /\ rec'[g] = rec[g] /\ stored'[g] = stored[g]
  <2>1. CASE Leave(f)
    BY <2>1, Ends DEF SInv
  <2>2. CASE ~Leave(f)
    <3>1. \/ UNCHANGED <<snap, rec, stored>>
          \/ snap' = [snap EXCEPT ![f] = row] /\ UNCHANGED <<rec, stored>>
          \/ (\E r : rec' = [rec EXCEPT ![f] = r]) /\ UNCHANGED <<snap, stored>>
          \/ stored' = [stored EXCEPT ![f] = row.sub] /\ UNCHANGED <<snap, rec>>
      <4>1. CASE Read(f)
        BY <4>1, <2>2 DEF Read, Abort
      <4>2. CASE Fetch(f)
        BY <4>2 DEF Fetch
      <4>3. CASE \/ StampEnded(f) \/ Clear(f) \/ ClaimActive(f) \/ Recheck(f)
                \/ ClaimPastDue(f) \/ Retire(f) \/ Claim(f) \/ Flush(f)
        BY <4>3, <2>2 DEF StampEnded, Clear, ClaimActive, Recheck, ClaimPastDue, Retire, Claim,
                          Flush, Ack, Abort, locals
      <4>4. CASE \/ Dedup(f) \/ StampStale(f) \/ ReadStored(f) \/ AskStored(f) \/ Reclaim(f)
                \/ Reread(f) \/ Cancel(f) \/ Refund(f)
        BY <4>4, <2>2 DEF Dedup, StampStale, ReadStored, AskStored, Reclaim, Reread, Cancel,
                          Refund, Ack, Abort, locals
      <4>5. CASE \/ OpenConflict(f) \/ Reject(f) \/ EndTrial(f) \/ OpenRejection(f) \/ Enqueue(f)
        BY <4>5, <2>2 DEF OpenConflict, Reject, EndTrial, OpenRejection, Enqueue, Ack, Abort,
                          locals
      <4> QED
        BY <4>1, <4>2, <4>3, <4>4, <4>5 DEF EventStep
    <3> QED
      BY <3>1 DEF SInv, TInv, FlowTypes
  <2> QED
    BY <2>1, <2>2
<1> QED
  BY <1>1, <1>2

LEMMA Others ==
  ASSUME SInv, NEW f \in Flow, EventStep(f), NEW g \in Flow, g # f
  PROVE  FInv(g)'
<1>1. newest = g => row' = row
  BY Written DEF Writes, Current, SInv
<1> QED
  BY <1>1, Untouched, GrantKept, Rests

\* Notices are queued by flows that know that no grant is left.
LEMMA MailsKept ==
  ASSUME SInv, NEW f \in Flow, EventStep(f)
  PROVE  Mails'
<1>1. row.source # "grant" => row'.source # "grant"
  BY GrantKept
<1>2. CASE mail' = mail
  BY <1>1, <1>2 DEF Mails, SInv
<1>3. CASE mail' # mail
  <2>1. Enqueue(f) /\ pc[f] = "notice"
    BY <1>3 DEF EventStep, Read, Fetch, StampEnded, Clear, ClaimActive, Recheck, ClaimPastDue,
       Retire, Claim, Flush, Dedup, StampStale, ReadStored, AskStored, Reclaim, Reread,
       Cancel, Refund, OpenConflict, Reject, EndTrial, OpenRejection, Enqueue
  <2> DEFINE job0 == [kind |-> NoticeKind(f), sub |-> on[f], fresh |-> TRUE]
  <2>2. PICK job \in SUBSET {job0} : mail' = {[m EXCEPT !.fresh = FALSE] : m \in mail} \cup job
    BY <2>1, <1>3 DEF Enqueue
  <2>3. job0.kind = "cancelled" => row.source # "grant"
    <3>1. NoticeKind(f) = "cancelled" => rec[f].st \in Terminal
      BY DEF NoticeKind
    <3> QED
      BY <3>1, <2>1 DEF SInv, FInv, NoGrant
  <2>4. \A m \in mail : [m EXCEPT !.fresh = FALSE].kind = m.kind
    BY DEF SInv, TInv, DataTypes, Tables, Notice
  <2> HIDE DEF job0
  <2>5. \A m \in mail' : m.kind = "cancelled" => row.source # "grant"
    BY <2>2, <2>3, <2>4 DEF SInv, Mails
  <2> QED
    BY <2>5, <1>1 DEF Mails
<1> QED
  BY <1>2, <1>3

LEMMA HoldingKept ==
  ASSUME SInv, NEW f \in Flow, EventStep(f)
  PROVE  Holding'
<1>1. CASE Leave(f)
  BY <1>1, Ends DEF Holding, SInv
<1>2. CASE Onward(f)
  BY <1>2 DEF Onward, lockVars, Holding, SInv
<1> QED
  BY <1>1, <1>2, Shapes DEF SInv

LEMMA EventKeeps ==
  ASSUME SInv, NEW f \in Flow, EventStep(f)
  PROVE  RInv' /\ Holding' /\ Mails' /\ \A g \in Flow : FInv(g)'
<1>1. RInv' /\ Holding' /\ Mails'
  BY RowKept, HoldingKept, MailsKept
<1>2. \A g \in Flow : FInv(g)'
  BY Own, Others
<1> QED
  BY <1>1, <1>2

\* A checkout fills a free slot, which takes nothing from what a flow relies on.
LEMMA CheckoutKeeps ==
  ASSUME SInv, NEW s \in Sub, CheckoutCompleted(s)
  PROVE  RInv' /\ Holding' /\ Mails' /\ \A g \in Flow : FInv(g)'
<1>r. row \in Row /\ s # None
  BY NoneFacts DEF SInv, TInv, DataTypes
<1>1. /\ row'.provider = row.provider /\ row'.sub = s /\ row'.status = row.status
      /\ row'.tier = row.tier /\ row'.source = row.source /\ row'.trialOf = row.trialOf
  BY <1>r DEF CheckoutCompleted, Row
<1>2. /\ row.provider # "store" /\ row.sub \in {None, s}
      /\ UNCHANGED <<mail, holder, newest, pc, on, snap, rec>>
  BY DEF CheckoutCompleted, Claimable, lockVars, locals
<1>3. RInv'
  BY <1>1, <1>2, <1>r DEF RInv, SInv
<1>4. Holding' /\ Mails'
  BY <1>1, <1>2 DEF Holding, Mails, SInv
<1>5. ASSUME NEW g \in Flow PROVE FInv(g)'
  <2>1. FInv(g)
    BY DEF SInv
  <2>2. Knows(g)' /\ Lives(g)' /\ NoGrant(g)'
    BY <2>1, <1>1, <1>2 DEF FInv, Knows, Lives, NoGrant
  <2>3. Loses(g)'
    BY <2>1, <1>1, <1>2 DEF FInv, Loses, Claimable
  <2>4. Announced(g)'
    <3> SUFFICES ASSUME newest = g, pc[g] = "send" PROVE TrueOf(on[g])'
      BY <1>2 DEF Announced
    <3>1. TrueOf(on[g]) /\ on[g] \in Notice
      BY <2>1 DEF FInv, Announced, SInv, TInv, Abouts, Carrying
    <3>2. on[g].kind \in Kinds /\ on[g].sub # None
      BY <3>1, NoneFacts DEF Notice
    <3>3. CASE on[g].kind = "confirmed"
      BY <3>1, <3>2, <3>3, <1>1, <1>2 DEF TrueOf, Announces
    <3>4. CASE on[g].kind = "cancelled"
      <4>1. row.source # "grant"
        BY <2>1, <3>4 DEF FInv, NoGrant, Carrying
      <4>2. row.status \in Entitling => row.sub # None
        BY <4>1, <1>2 DEF RInv, SInv
      <4>3. ~(row.sub = on[g].sub /\ row.status \in Entitling)
        BY <3>1, <3>4 DEF TrueOf, Announces
      <4> QED
        BY <4>2, <4>3, <3>4, <1>1, <1>2 DEF TrueOf, Announces
    <3>5. CASE on[g].kind = "billing_failed"
      BY <3>1, <3>5, <1>1, <1>2 DEF TrueOf, Announces
    <3> QED
      BY <3>2, <3>3, <3>4, <3>5 DEF Kinds
  <2> QED
    BY <2>2, <2>3, <2>4 DEF FInv
<1> QED
  BY <1>3, <1>4, <1>5

\* The delivery of a notice, and a flow that is cut short.
LEMMA DeliveryKeeps ==
  ASSUME SInv, NEW f \in Flow, Match(f) \/ Send(f) \/ Fail(f)
  PROVE  RInv' /\ Holding' /\ Mails' /\ \A g \in Flow : FInv(g)'
<1>1. row' = row /\ mail' \subseteq mail
  BY DEF Match, Send, Fail, Abort
<1>2. RInv' /\ Mails'
  BY <1>1 DEF RInv, Mails, SInv
<1> DEFINE Checked == /\ pc[f] = "match" /\ Goto(f, "send") /\ Matches(on[f])
                      /\ UNCHANGED <<lockVars, on, heard, locals>>
<1>3. Leave(f) \/ Checked
  BY DEF Match, Send, Fail, Abort
<1>4. CASE Leave(f)
  <2>1. Holding'
    BY <1>4, Ends DEF Holding, SInv
  <2>2. FInv(f)'
    BY <1>4, Ends, Fresh DEF SInv
  <2>3. ASSUME NEW g \in Flow, g # f PROVE FInv(g)'
    BY <1>1, <1>4, <2>3, Ends, Rests DEF SInv
  <2> QED
    BY <1>2, <2>1, <2>2, <2>3
<1>5. CASE Checked
  <2>1. Holding'
    BY <1>5 DEF Holding, SInv, lockVars
  <2>2. pc'[f] = "send" /\ UNCHANGED <<on, newest, snap, rec>>
    BY <1>5 DEF Goto, SInv, TInv, FlowTypes, lockVars, locals
  <2>3. FInv(f)'
    <3>1. Knows(f)' /\ Loses(f)' /\ Lives(f)'
      BY <2>2 DEF Knows, Loses, Lives, Deciding, Losing, Taking
    <3>2. Announced(f)'
      BY <1>1, <1>5, <2>2 DEF Announced, TrueOf, Announces, Matches
    <3>3. NoGrant(f)'
      BY <1>1, <1>5, <2>2 DEF NoGrant, SInv, FInv, Carrying
    <3> QED
      BY <3>1, <3>2, <3>3 DEF FInv
  <2>4. ASSUME NEW g \in Flow, g # f PROVE FInv(g)'
    <3>1. pc'[g] = pc[g]
      BY <1>5, <2>4 DEF Goto, SInv, TInv, FlowTypes
    <3> QED
      BY <1>1, <2>2, <3>1, Rests
  <2> QED
    BY <1>2, <2>1, <2>3, <2>4
<1> QED
  BY <1>3, <1>4, <1>5

\* A flow that begins: with an event, or with a notice.
LEMMA BeginningKeeps ==
  ASSUME SInv, NEW f \in Flow, NEW x,
         Deliver(f, x) \/ (Take(f, x) /\ x \in mail)
  PROVE  RInv' /\ Holding' /\ Mails' /\ \A g \in Flow : FInv(g)'
<1>1. /\ UNCHANGED <<row, mail, snap, rec>> /\ holder' = f /\ newest' = f
      /\ on' = [on EXCEPT ![f] = x]
      /\ \/ pc' = [pc EXCEPT ![f] = "read"]
         \/ pc' = [pc EXCEPT ![f] = "match"] /\ x \in mail
  BY DEF Deliver, Take, Goto, locals
<1>2. pc \in [Flow -> PCs] /\ on \in [Flow -> Sub \cup Notice \cup {None}]
  BY DEF SInv, TInv, FlowTypes
<1>3. RInv' /\ Holding' /\ Mails'
  BY <1>1 DEF RInv, Holding, Mails, SInv
<1>4. FInv(f)'
  <2>1. CASE pc'[f] = "read"
    BY <2>1, Fresh
  <2>2. CASE pc'[f] = "match" /\ x \in mail
    <3>1. on'[f] = x
      BY <1>1, <1>2
    <3> QED
      BY <2>2, <3>1, <1>1 DEF SInv, Mails, FInv, Knows, Loses, Announced, Lives, NoGrant,
                              Deciding, Losing, Taking, Carrying
  <2> QED
    BY <2>1, <2>2, <1>1, <1>2
<1>5. ASSUME NEW g \in Flow, g # f PROVE FInv(g)'
  <2>1. /\ pc'[g] = pc[g] /\ on'[g] = on[g] /\ snap'[g] = snap[g] /\ rec'[g] = rec[g]
        /\ newest' # g /\ row' = row
    BY <1>1, <1>2, <1>5
  <2> QED
    BY <2>1, Rests
<1> QED
  BY <1>3, <1>4, <1>5

LEMMA Kept == SInv /\ [Next]_vars => SInv'
<1> SUFFICES ASSUME SInv, [Next]_vars PROVE SInv'
  OBVIOUS
<1>t. TInv'
  BY TypesKept DEF SInv
<1> DEFINE Rest == RInv' /\ Holding' /\ Mails' /\ \A g \in Flow : FInv(g)'
<1>1. ASSUME NEW f \in Flow, EventStep(f) PROVE Rest
  BY <1>1, EventKeeps
<1>2. ASSUME NEW f \in Flow, Match(f) \/ Send(f) \/ Fail(f) PROVE Rest
  BY <1>2, DeliveryKeeps
<1>3. ASSUME NEW f \in Flow, NEW s \in Sub, Deliver(f, s) PROVE Rest
  BY <1>3, BeginningKeeps
<1>4. ASSUME NEW f \in Flow, NEW m \in mail, Take(f, m) PROVE Rest
  BY <1>4, BeginningKeeps
<1>5. ASSUME NEW s \in Sub, CheckoutCompleted(s) PROVE Rest
  BY <1>5, CheckoutKeeps
<1>6. ASSUME UNCHANGED <<row, mail, holder, newest, pc, on, snap, rec>> PROVE Rest
  <2>1. RInv' /\ Holding' /\ Mails'
    BY <1>6 DEF RInv, Holding, Mails, SInv
  <2>2. ASSUME NEW g \in Flow PROVE FInv(g)'
    BY <1>6, Rests
  <2> QED
    BY <2>1, <2>2
<1>7. ASSUME NEW s \in Sub, StripeMoves(s) PROVE Rest
  BY <1>7, <1>6 DEF StripeMoves, lockVars, locals
<1>8. ASSUME UNCHANGED vars PROVE Rest
  <2>1. UNCHANGED <<row, mail, lockVars, pc, on, locals>>
    BY <1>8 DEF vars
  <2>2. UNCHANGED <<row, mail, holder, newest, pc, on, snap, rec>>
    BY <2>1 DEF lockVars, locals
  <2> QED
    BY <2>2, <1>6
<1>9. ASSUME StoreTrial PROVE Rest
  <2>1. /\ holder = None /\ row.trialOf = None /\ newest' = None
        /\ UNCHANGED <<mail, holder, pc, on, snap, rec>>
    BY <1>9 DEF StoreTrial, locals
  <2>2. /\ row'.provider = row.provider /\ row'.sub = row.sub /\ row'.status = row.status
        /\ row'.tier = row.tier /\ row'.source = row.source
    BY <1>9 DEF StoreTrial, SInv, TInv, DataTypes, Row
  <2>3. RInv'
    BY <2>1, <2>2 DEF RInv, SInv
  <2>4. Holding' /\ Mails'
    BY <2>1, <2>2 DEF Holding, Mails, SInv
  <2>5. ASSUME NEW g \in Flow PROVE FInv(g)'
    BY <2>1, <2>2, Rests, NoneFacts
  <2> QED
    BY <2>3, <2>4, <2>5
<1>10. ASSUME Lapse PROVE Rest
  <2>1. holder' = None /\ UNCHANGED <<row, mail, newest, pc, on, snap, rec>>
    BY <1>10 DEF Lapse, locals
  <2>2. RInv' /\ Holding' /\ Mails'
    BY <2>1 DEF RInv, Holding, Mails, SInv
  <2>3. ASSUME NEW g \in Flow PROVE FInv(g)'
    BY <2>1, Rests
  <2> QED
    BY <2>2, <2>3
<1> HIDE DEF Rest
<1>11. Rest
  <2>1. CASE \E f \in Flow :
              \/ EventStep(f) \/ Match(f) \/ Send(f) \/ Fail(f)
              \/ (\E s \in Sub : Deliver(f, s)) \/ \E m \in mail : Take(f, m)
    BY <2>1, <1>1, <1>2, <1>3, <1>4
  <2>2. CASE \E s \in Sub : StripeMoves(s) \/ CheckoutCompleted(s)
    BY <2>2, <1>5, <1>7
  <2> QED
    BY <2>1, <2>2, <1>8, <1>9, <1>10 DEF Next
<1> QED
  BY <1>t, <1>11 DEF Rest, SInv

LEMMA Always == Spec => []SInv
  BY StartFacts, Kept, PTL DEF Spec

----------------------------------------------------------------------------
(* Theorems.                                                                 *)

\* The trial that entitles a rider is the one the marker was set for: nobody has
\* two, although the claims, the flush and the store side set the marker.
THEOREM NoSecondTrial == Spec => []OneTrial
<1>1. SInv => OneTrial
  BY DEF SInv, RInv, OneTrial
<1> QED
  BY Always, <1>1, PTL

\* No handler, however late, drops a grant: only a subscription takes its place.
THEOREM GrantsLast == Spec => GrantsSurvive
<1> DEFINE A == row.source = "grant" /\ row.tier = "paid" =>
                 row'.tier = "paid" /\ row'.source \in {"grant", "subscription"}
<1>1. SInv /\ [Next]_vars => [A]_vars
  <2> SUFFICES ASSUME SInv, Next, row' # row PROVE A
    BY DEF vars
  <2>1. ASSUME NEW f \in Flow, EventStep(f) PROVE A
    BY <2>1, GrantKept
  <2>2. ASSUME NEW s \in Sub, CheckoutCompleted(s) PROVE A
    BY <2>2 DEF CheckoutCompleted, SInv, TInv, DataTypes, Row
  <2>3. CASE StoreTrial
    BY <2>3 DEF StoreTrial, SInv, TInv, DataTypes, Row
  <2>4. \/ \E f \in Flow : EventStep(f)
        \/ \E s \in Sub : CheckoutCompleted(s)
        \/ StoreTrial
    BY DEF Next, Match, Send, Fail, Deliver, Take, StripeMoves, Lapse
  <2> HIDE DEF A
  <2> QED
    BY <2>1, <2>2, <2>3, <2>4
<1> QED
  BY Always, <1>1, PTL DEF Spec, GrantsSurvive

\* Compensation never cancels the subscription that owns the slot, for whoever
\* still holds the lease has seen the last writer of the row.
THEOREM LosersOnly == Spec => WinnersAreNotCancelled
<1> DEFINE A == \A s \in ours' \ ours : ~(row.provider = "stripe" /\ row.sub = s)
<1>1. SInv /\ [Next]_vars => [A]_vars
  <2> SUFFICES ASSUME SInv, Next, NEW s \in ours' \ ours
               PROVE  ~(row.provider = "stripe" /\ row.sub = s)
    BY DEF vars
  <2>1. PICK f \in Flow : EventStep(f)
    BY DEF Next, Match, Send, Fail, Deliver, Take, StripeMoves, CheckoutCompleted, StoreTrial,
           Lapse, stripeVars
  <2>2. Cancel(f)
    <3>1. UNCHANGED stripeVars => UNCHANGED ours
      BY DEF stripeVars
    <3>2. ours' # ours
      OBVIOUS
    <3> QED
      BY <2>1, <3>1, <3>2
         DEF EventStep, Read, Fetch, StampEnded, Clear, ClaimActive, Recheck, ClaimPastDue,
             Retire, Claim, Flush, Dedup, StampStale, ReadStored, AskStored, Reclaim, Reread,
             Refund, OpenConflict, Reject, EndTrial, OpenRejection, Enqueue
  <2>3. holder = f /\ pc[f] = "cancel" /\ s = on[f]
    BY <2>2 DEF Cancel, AssertHeld, Held
  <2>4. newest = f
    BY <2>3, NoneFacts DEF SInv, Holding
  <2>5. ~Claimable(row, on[f])
    BY <2>3, <2>4 DEF SInv, FInv, Loses, Losing
  <2> QED
    BY <2>3, <2>5 DEF Claimable
<1> QED
  BY Always, <1>1, PTL DEF Spec, WinnersAreNotCancelled

\* What a notice says is true of the row when it leaves, read-before-assert and
\* lock-free checkouts included.
THEOREM NoticesTellTheTruth == Spec => NoticesAreTrue
<1> DEFINE A == \A f \in Flow : pc[f] = "send" /\ pc'[f] = "idle" /\ on[f] \in mail \ mail' =>
                 \/ Announces(on[f], row)
                 \/ on[f].kind = "billing_failed" /\ row.status = "past_due"
<1>1. SInv /\ [Next]_vars => [A]_vars
  <2> SUFFICES ASSUME SInv, Next, NEW f \in Flow, pc[f] = "send", pc'[f] = "idle",
                      on[f] \in mail \ mail'
               PROVE  TrueOf(on[f])
    BY DEF TrueOf
  <2>1. PICK g \in Flow : Match(g) \/ Send(g) \/ EventStep(g)
    BY DEF Next, Fail, Deliver, Take, StripeMoves, CheckoutCompleted, StoreTrial, Lapse
  <2>2. Send(g) \/ pc[g] # "send"
    BY <2>1, Shapes DEF Match, SInv, Carrying
  <2>3. \A h \in Flow \ {g} : pc'[h] = pc[h]
    <3>1. CASE Leave(g)
      BY <3>1, Ends DEF SInv
    <3>2. CASE Onward(g) \/ Goto(g, "send")
      BY <3>2 DEF Onward, Goto, SInv, TInv, FlowTypes
    <3> QED
      BY <3>1, <3>2, <2>1, Shapes DEF SInv, Match, Send, Abort
  <2>4. g = f /\ Send(f)
    BY <2>2, <2>3
  <2>5. newest = f
    BY <2>4, NoneFacts DEF Send, Held, SInv, Holding
  <2> QED
    BY <2>5 DEF SInv, FInv, Announced
<1> QED
  BY Always, <1>1, PTL DEF Spec, NoticesAreTrue, TrueOf

----------------------------------------------------------------------------
(***************************************************************************)
(* What is acknowledged.  The argument: as long as the newest flow works   *)
(* on an event, the event is owed and nobody else can acknowledge it; an   *)
(* answer Stripe still waits for rests on a record that is up to date; and *)
(* wherever a flow answers, the row says of its subscription what Stripe   *)
(* does.  A flow that lost the slot saw it taken, one that rejects a trial *)
(* saw the marker, one that won left the row right.  So of a subscription  *)
(* about which the row is wrong an event is still owed (Debts).            *)
(***************************************************************************)
Working(f) == pc[f] \notin Carrying \cup {"idle"}
Beaten   == {"dedup", "stale", "stored", "ask", "reclaim", "reread", "cancel", "refund", "conflict"}
Refusing == {"reject", "ending", "rejected"}
Settling == {"retire", "flushWon", "flush", "notice"}
Owner(s) == row.provider = "stripe" /\ row.sub = s

\* Stripe waits for the answer of a working flow only.
Waits(f) == heard[f] => Working(f)

\* An event about s is owed, and none of these flows can acknowledge it.
Quiet(s, flows) == owed[s] /\ \A g \in flows : heard[g] => on[g] # s

\* The event of the newest flow is owed, and no other flow can acknowledge it.
Due(f) == newest = f /\ Working(f) => Quiet(on[f], Flow \ {f})

\* An answer that Stripe waits for rests on what Stripe knows.
UpToDate(f) == heard[f] /\ pc[f] \notin {"read", "fetch"} => rec[f] = stripe[on[f]]

\* What a flow's place says of the record it fetched, of Stripe and of the marker.
Places(f) ==
  /\ pc[f] \in {"stamp", "clear"} => rec[f].st \in Terminal
  /\ pc[f] = "activate" => rec[f].st \in Live
  /\ pc[f] \in {"recheck"} \cup Refusing => rec[f].st = "trialing"
  /\ pc[f] = "pastDue" => rec[f].st \in {"past_due", "unpaid"}
  /\ pc[f] \in {"claim", "flush"} \cup Beaten => rec[f].st \notin Terminal
  /\ pc[f] = "stale" => NewStatus(f) = "canceled"
  /\ pc[f] \in {"stored", "ask", "reclaim", "reread"} => NewStatus(f) # "canceled"
  /\ pc[f] \in Refusing => row.trialOf # None
  /\ pc[f] \in {"refund", "conflict"} => stripe[on[f]].st \in Terminal
  /\ pc[f] \in {"refund", "conflict", "rejected"} => ~heard[f]
  /\ pc[f] = "rejected" => stripe[on[f]].ending

\* What the newest flow knows of the row, which only checkouts change under it.
Sees(f) ==
  newest = f =>
    /\ pc[f] \in {"fetch", "activate"} =>
         /\ row.status = snap[f].status /\ row.provider = snap[f].provider
         /\ snap[f].sub \in {None, row.sub}
    /\ pc[f] = "recheck" /\ Claimable(row, on[f]) /\ row.status \notin Live => row.trialOf # None
    /\ pc[f] = "claim" /\ Claimable(row, on[f]) =>
         /\ rec[f].st \in Live => row.status \in Live
         /\ NewStatus(f) = "past_due" => row.status = "past_due"
    /\ pc[f] \in {"clear", "notice"} /\ Consumed(f) => row.trialOf # None

\* A subscription about to lose its slot as dead is dead, or an event says otherwise
\* that nobody is about to acknowledge.
Displaces(f) ==
  newest = f /\ pc[f] = "reclaim" =>
    /\ stored[f] # None
    /\ stripe[stored[f]].st \in Entitling => Quiet(stored[f], Flow)

\* Whoever's answer counts knows that the slot is another's, or has left the row right.
Knowing(f) ==
  heard[f] => /\ pc[f] \in Beaten => ~Owner(on[f])
              /\ pc[f] \in Settling => Agrees(on[f])

Slot == /\ row.provider = "store" => row.sub = None
        /\ row.provider = "stripe" /\ row.source = "grant" => row.tier = "free"

Books ==
  \A s \in Sub :
    /\ <<"exclusivity_conflict", s>> \in open => stripe[s].st \in Terminal
    /\ <<"ineligible_trial_rejected", s>> \in open => stripe[s].ending
    /\ stripe[s].st \in {"none"} \cup NeverEntitled => ~stripe[s].tried

\* The trial of the owner is marked, or the skipped stamp of it is on record.
Noted(s) == stripe[s].tried /\ Owner(s) /\ <<"stamp", s>> \notin slips => row.trialOf # None
Right(s) == Noted(s) /\ (Agrees(s) \/ <<"reclaim", s>> \in slips)
Debts == \A s \in Sub : owed[s] \/ Right(s)

PInv(f) == /\ Waits(f) /\ Due(f) /\ UpToDate(f) /\ Places(f)
           /\ Sees(f) /\ Displaces(f) /\ Knowing(f)
DInv == SInv /\ Slot /\ Books /\ Debts /\ \A f \in Flow : PInv(f)

\* What an event's step tells Stripe, and what it learns of it.
Silent(f) == Onward(f) /\ UNCHANGED <<stripe, owed, heard>> /\ slips \subseteq slips'
Answers(f) == /\ Leave(f) /\ UNCHANGED stripe /\ slips \subseteq slips'
              /\ Ack(f) \/ UNCHANGED owed
Stirs(f) ==
  /\ Onward(f) /\ pc[f] \in {"cancel", "ending"} /\ Changed(on[f])
  /\ UNCHANGED <<row, rec, open>>
  /\ \A s \in Sub : /\ s # on[f] => stripe'[s] = stripe[s]
                    /\ stripe'[s].st \in {stripe[s].st, "canceled"}
                    /\ stripe'[s].tried = stripe[s].tried
                    /\ stripe[s].ending => stripe'[s].ending

\* The work items an event's step opens and closes.
BooksMove(f) ==
  \A s \in Sub :
    /\ <<"exclusivity_conflict", s>> \in open' /\ <<"exclusivity_conflict", s>> \notin open =>
         pc[f] = "conflict" /\ s = on[f]
    /\ <<"ineligible_trial_rejected", s>> \in open' /\ <<"ineligible_trial_rejected", s>> \notin open =>
         pc[f] = "rejected" /\ s = on[f]
    /\ <<"ineligible_trial_rejected", s>> \in open => <<"ineligible_trial_rejected", s>> \in open'

LEMMA Tells ==
  ASSUME TInv, NEW f \in Flow, EventStep(f)
  PROVE  Silent(f) \/ Answers(f) \/ Stirs(f)
<1> DEFINE Told == Silent(f) \/ Answers(f) \/ Stirs(f)
<1>t. stripe \in [Sub -> Record] /\ on[f] \in Sub
  BY Shapes DEF TInv, DataTypes
<1>s. Leave(f) \/ Onward(f)
  BY Shapes
<1> USE DEF Silent, Answers
<1>1. ASSUME Read(f) PROVE Told
  BY <1>1, <1>s DEF Read, Ack, Abort, stripeVars, Onward, Goto
<1>2. ASSUME Fetch(f) PROVE Told
  BY <1>2, <1>s DEF Fetch, Ack, Abort, stripeVars, Onward, Goto
<1>3. ASSUME StampEnded(f) PROVE Told
  BY <1>3, <1>s DEF StampEnded, Ack, Abort, stripeVars, Onward, Goto
<1>4. ASSUME Clear(f) PROVE Told
  BY <1>4, <1>s DEF Clear, Ack, Abort, stripeVars, Onward, Goto
<1>5. ASSUME ClaimActive(f) PROVE Told
  BY <1>5, <1>s DEF ClaimActive, Ack, Abort, stripeVars, Onward, Goto
<1>6. ASSUME Recheck(f) PROVE Told
  BY <1>6, <1>s DEF Recheck, Ack, Abort, stripeVars, Onward, Goto
<1>7. ASSUME ClaimPastDue(f) PROVE Told
  BY <1>7, <1>s DEF ClaimPastDue, Ack, Abort, stripeVars, Onward, Goto
<1>8. ASSUME Retire(f) PROVE Told
  BY <1>8, <1>s DEF Retire, Ack, Abort, stripeVars, Onward, Goto
<1>9. ASSUME Claim(f) PROVE Told
  BY <1>9, <1>s DEF Claim, Ack, Abort, stripeVars, Onward, Goto
<1>10. ASSUME Flush(f) PROVE Told
  BY <1>10, <1>s DEF Flush, Ack, Abort, stripeVars, Onward, Goto
<1>11. ASSUME Dedup(f) PROVE Told
  BY <1>11, <1>s DEF Dedup, Ack, Abort, stripeVars, Onward, Goto
<1>12. ASSUME StampStale(f) PROVE Told
  BY <1>12, <1>s DEF StampStale, Ack, Abort, stripeVars, Onward, Goto
<1>13. ASSUME ReadStored(f) PROVE Told
  BY <1>13, <1>s DEF ReadStored, Ack, Abort, stripeVars, Onward, Goto
<1>14. ASSUME AskStored(f) PROVE Told
  BY <1>14, <1>s DEF AskStored, Ack, Abort, stripeVars, Onward, Goto
<1>15. ASSUME Reclaim(f) PROVE Told
  BY <1>15, <1>s DEF Reclaim, Ack, Abort, stripeVars, Onward, Goto
<1>16. ASSUME Reread(f) PROVE Told
  BY <1>16, <1>s DEF Reread, Ack, Abort, stripeVars, Onward, Goto
<1>18. ASSUME Refund(f) PROVE Told
  BY <1>18, <1>s DEF Refund, Ack, Abort, stripeVars, Onward, Goto
<1>19. ASSUME OpenConflict(f) PROVE Told
  BY <1>19, <1>s DEF OpenConflict, Ack, Abort, stripeVars, Onward, Goto
<1>20. ASSUME Reject(f) PROVE Told
  BY <1>20, <1>s DEF Reject, Ack, Abort, stripeVars, Onward, Goto
<1>22. ASSUME OpenRejection(f) PROVE Told
  BY <1>22, <1>s DEF OpenRejection, Ack, Abort, stripeVars, Onward, Goto
<1>23. ASSUME Enqueue(f) PROVE Told
  BY <1>23, <1>s DEF Enqueue, Ack, Abort, stripeVars, Onward, Goto
<1>17. ASSUME Cancel(f) PROVE Told
  <2>1. CASE ~AssertHeld(f)
    BY <2>1, <1>17 DEF Cancel, Abort
  <2>2. CASE AssertHeld(f)
    <3>1. /\ pc[f] = "cancel" /\ Changed(on[f]) /\ Goto(f, "refund")
          /\ stripe' = [stripe EXCEPT ![on[f]].st = IF @ \in Terminal THEN @ ELSE "canceled"]
          /\ UNCHANGED <<lockVars, on, locals, row, open>>
      BY <2>2, <1>17 DEF Cancel
    <3>2. \A s \in Sub : /\ s # on[f] => stripe'[s] = stripe[s]
                         /\ stripe'[s].st \in {stripe[s].st, "canceled"}
                         /\ stripe'[s].tried = stripe[s].tried
                         /\ stripe'[s].ending = stripe[s].ending
      BY <3>1, <1>t DEF Record
    <3>3. ~Leave(f)
      BY <3>1, <1>t DEF Leave, Goto, TInv, FlowTypes
    <3> QED
      BY <3>1, <3>2, <3>3, <1>s DEF Stirs, locals
  <2> QED
    BY <2>1, <2>2
<1>21. ASSUME EndTrial(f) PROVE Told
  <2>1. CASE ~AssertHeld(f)
    BY <2>1, <1>21 DEF EndTrial, Abort
  <2>2. CASE AssertHeld(f)
    <3>1. /\ pc[f] = "ending" /\ Changed(on[f]) /\ Goto(f, "rejected")
          /\ stripe' = [stripe EXCEPT ![on[f]].ending = TRUE]
          /\ UNCHANGED <<lockVars, on, locals, row, open>>
      BY <2>2, <1>21 DEF EndTrial
    <3>2. \A s \in Sub : /\ s # on[f] => stripe'[s] = stripe[s]
                         /\ stripe'[s].st = stripe[s].st
                         /\ stripe'[s].tried = stripe[s].tried
                         /\ stripe[s].ending => stripe'[s].ending
      BY <3>1, <1>t DEF Record
    <3>3. ~Leave(f)
      BY <3>1, <1>t DEF Leave, Goto, TInv, FlowTypes
    <3> QED
      BY <3>1, <3>2, <3>3, <1>s DEF Stirs, locals
  <2> QED
    BY <2>1, <2>2
<1> HIDE DEF Told
<1>q. Told
  BY <1>1, <1>2, <1>3, <1>4, <1>5, <1>6, <1>7, <1>8, <1>9, <1>10, <1>11, <1>12, <1>13, <1>14,
     <1>15, <1>16, <1>17, <1>18, <1>19, <1>20, <1>21, <1>22, <1>23 DEF EventStep
<1> QED
  BY <1>q DEF Told

LEMMA BooksKept ==
  ASSUME TInv, NEW f \in Flow, EventStep(f)
  PROVE  BooksMove(f)
<1>1. CASE open' = open
  BY <1>1 DEF BooksMove
<1>2. CASE open' # open
  <2>1. \/ pc[f] = "conflict" /\ open' = open \cup {<<"exclusivity_conflict", on[f]>>}
        \/ pc[f] = "rejected" /\ open' = open \cup {<<"ineligible_trial_rejected", on[f]>>}
        \/ open' = open \ {<<"exclusivity_conflict", on[f]>>}
    BY <1>2 DEF EventStep, Read, Fetch, StampEnded, Clear, ClaimActive, Recheck, ClaimPastDue,
       Retire, Retired, Claim, Flush, Dedup, StampStale, ReadStored, AskStored, Reclaim, Reread,
       Cancel, Refund, OpenConflict, Reject, EndTrial, OpenRejection, Enqueue
  <2> QED
    BY <2>1 DEF BooksMove
<1> QED
  BY <1>1, <1>2

\* A claim that succeeds: what it leaves in the row suits the record it fetched.
Wins(f) ==
  /\ Current(f) /\ Claims(f)
  /\ rec[f].st \in Entitling => row'.status \in Entitling
  /\ row.trialOf # None => row'.trialOf = row.trialOf
  /\ pc[f] = "reclaim" => row.sub = stored[f] /\ (Consumed(f) => row'.trialOf # None)
  /\ pc[f] # "reclaim" => Claimable(row, on[f])

LEMMA EntitlingStatus ==
  ASSUME NEW st \in StripeStatus
  PROVE  /\ st \in Entitling => statusFromSubscription(st) \in Entitling
         /\ statusFromSubscription(st) = "canceled" => st \notin Entitling
         /\ statusFromSubscription(st) = "past_due" <=> st \in {"past_due", "unpaid"}
         /\ st \in Terminal => statusFromSubscription(st) = "canceled"
  BY DEF statusFromSubscription, StripeStatus, Entitling, Terminal

\* An event's step leaves the row alone, stamps it, empties the flow's own slot or
\* wins a claim.
RowMoves(f) ==
  \/ row' = row
  \/ /\ Current(f) /\ Stamps(f)
     /\ Consumed(f) => row'.trialOf # None
  \/ Current(f) /\ Clears(f) /\ Owns(f) /\ row'.trialOf = row.trialOf
  \/ Wins(f)

LEMMA ActiveWins ==
  ASSUME SInv, NEW f \in Flow, ClaimActive(f), pc'[f] = "retire" \/ row' # row
  PROVE  Wins(f)
<1>a. on[f] \in Sub /\ rec[f].st \in StripeStatus
  BY Shapes, NewFacts DEF SInv, EventStep
<1>1. /\ Current(f) /\ Claimable(row, on[f]) /\ Eligible(f) /\ pc[f] = "activate"
      /\ row' = WithStatus(Stamped(Claimed(row, f), f), NewStatus(f))
  BY DEF ClaimActive, WithStatus, Goto, SInv, TInv, FlowTypes
<1>2. /\ row'.provider = (IF Keeps(f) THEN row.provider ELSE "stripe")
      /\ row'.sub = (IF Keeps(f) THEN row.sub ELSE on[f])
      /\ row'.tier = NewTier(f) /\ row'.source = NewSource(f)
      /\ row'.status = NewStatus(f)
      /\ row'.status = "trialing" => ~Keeps(f) /\ row'.trialOf = on[f]
      /\ Consumed(f) => row'.trialOf # None
      /\ row.trialOf # None => row'.trialOf = row.trialOf
  BY <1>a, <1>1, ClaimedStamped DEF SInv
<1>3. rec[f].st \in Entitling => NewStatus(f) \in Entitling
  BY <1>a, EntitlingStatus DEF NewStatus
<1> QED
  BY <1>1, <1>2, <1>3 DEF Wins, Claims, Claiming, Claimable

LEMMA ReclaimWins ==
  ASSUME SInv, NEW f \in Flow, Reclaim(f), pc'[f] # "reread" \/ row' # row
  PROVE  Wins(f)
<1>a. on[f] \in Sub /\ rec[f].st \in StripeStatus
  BY Shapes, NewFacts DEF SInv, EventStep
<1>1. /\ Current(f) /\ row.provider # "store" /\ row.sub = stored[f] /\ Eligible(f)
      /\ pc[f] = "reclaim"
      /\ row' = WithStatus(Stamped(Claimed(row, f), f), NewStatus(f))
  BY DEF Reclaim, WithStatus, Goto, SInv, TInv, FlowTypes
<1>2. /\ row'.provider = (IF Keeps(f) THEN row.provider ELSE "stripe")
      /\ row'.sub = (IF Keeps(f) THEN row.sub ELSE on[f])
      /\ row'.tier = NewTier(f) /\ row'.source = NewSource(f)
      /\ row'.status = NewStatus(f)
      /\ row'.status = "trialing" => ~Keeps(f) /\ row'.trialOf = on[f]
      /\ Consumed(f) => row'.trialOf # None
      /\ row.trialOf # None => row'.trialOf = row.trialOf
  BY <1>a, <1>1, ClaimedStamped DEF SInv
<1>3. rec[f].st \in Entitling => NewStatus(f) \in Entitling
  BY <1>a, EntitlingStatus DEF NewStatus
<1> QED
  BY <1>1, <1>2, <1>3 DEF Wins, Claims, Claiming

\* The claims that set the status to one of their own choice.
LEMMA ClaimedAs ==
  ASSUME SInv, NEW f \in Flow, on[f] \in Sub, NEW st \in Status,
         row' = WithStatus(Claimed(row, f), st)
  PROVE  /\ row'.provider = (IF Keeps(f) THEN row.provider ELSE "stripe")
         /\ row'.sub = (IF Keeps(f) THEN row.sub ELSE on[f])
         /\ row'.tier = NewTier(f) /\ row'.source = NewSource(f)
         /\ row'.status = st /\ row'.trialOf = row.trialOf
<1> DEFINE c == Claimed(row, f)
<1>1. /\ c \in Row /\ c.provider = (IF Keeps(f) THEN row.provider ELSE "stripe")
      /\ c.sub = (IF Keeps(f) THEN row.sub ELSE on[f])
      /\ c.tier = NewTier(f) /\ c.source = NewSource(f) /\ c.trialOf = row.trialOf
  BY ClaimedFacts DEF SInv
<1>2. row' = WithStatus(c, st)
  OBVIOUS
<1> HIDE DEF c
<1> QED
  BY <1>1, <1>2, StatusSet

LEMMA PastDueWins ==
  ASSUME SInv, NEW f \in Flow, ClaimPastDue(f), pc'[f] = "retire" \/ row' # row
  PROVE  Wins(f)
<1>a. on[f] \in Sub
  BY Shapes DEF SInv, EventStep
<1>1. /\ Current(f) /\ Claimable(row, on[f]) /\ pc[f] = "pastDue"
      /\ row' = WithStatus(Claimed(row, f), "past_due")
  BY DEF ClaimPastDue, WithStatus, Goto, SInv, TInv, FlowTypes
<1>2. /\ row'.provider = (IF Keeps(f) THEN row.provider ELSE "stripe")
      /\ row'.sub = (IF Keeps(f) THEN row.sub ELSE on[f])
      /\ row'.tier = NewTier(f) /\ row'.source = NewSource(f)
      /\ row'.status = "past_due" /\ row'.trialOf = row.trialOf
  BY <1>a, <1>1, ClaimedAs DEF Status
<1> QED
  BY <1>1, <1>2 DEF Wins, Claims, Claiming, Claimable, Entitling

LEMMA ClaimWins ==
  ASSUME SInv, NEW f \in Flow, Sees(f), Claim(f), pc'[f] = "flush" \/ row' # row
  PROVE  Wins(f)
<1>a. on[f] \in Sub /\ rec[f].st \in StripeStatus /\ row.status \in Status
  BY Shapes, NewFacts DEF SInv, EventStep, TInv, DataTypes, Row
<1> DEFINE st == IF NewStatus(f) = "canceled" THEN "canceled" ELSE row.status
<1>1. /\ Current(f) /\ Claimable(row, on[f]) /\ pc[f] = "claim"
      /\ row' = [Claimed(row, f) EXCEPT
                   !.status = IF NewStatus(f) = "canceled" THEN "canceled" ELSE @]
  BY DEF Claim, Goto, Abort, Leave, SInv, TInv, FlowTypes
<1>2. Claimed(row, f).status = row.status
  BY <1>a, ClaimedFacts DEF SInv
<1>3. st \in Status /\ row' = WithStatus(Claimed(row, f), st)
  BY <1>1, <1>2, <1>a DEF WithStatus, Status
<1> HIDE DEF st
<1>4. /\ row'.provider = (IF Keeps(f) THEN row.provider ELSE "stripe")
      /\ row'.sub = (IF Keeps(f) THEN row.sub ELSE on[f])
      /\ row'.tier = NewTier(f) /\ row'.source = NewSource(f)
      /\ row'.status = st /\ row'.trialOf = row.trialOf
  BY <1>a, <1>3, ClaimedAs
<1>5. st = "trialing" => row.status = "trialing"
  BY DEF st
<1>6. rec[f].st \in Entitling => st \in Entitling
  <2>1. rec[f].st \in Entitling => NewStatus(f) # "canceled"
    BY <1>a, EntitlingStatus DEF NewStatus
  <2>2. /\ rec[f].st \in Live => row.status \in Live
        /\ NewStatus(f) = "past_due" => row.status = "past_due"
    BY <1>1 DEF Sees, Current
  <2>3. rec[f].st = "past_due" => NewStatus(f) = "past_due"
    BY DEF NewStatus, statusFromSubscription
  <2> QED
    BY <2>1, <2>2, <2>3 DEF st, Entitling, Live
<1> QED
  BY <1>1, <1>4, <1>5, <1>6 DEF Wins, Claims, Claiming, Claimable

LEMMA RowMoved ==
  ASSUME SInv, NEW f \in Flow, Sees(f), EventStep(f)
  PROVE  RowMoves(f)
<1>r. row \in Row /\ on[f] \in Sub /\ on[f] # None
  BY Shapes, NoneFacts DEF SInv, TInv, DataTypes
<1>1. CASE ClaimActive(f) \/ ClaimPastDue(f) \/ Claim(f) \/ Reclaim(f)
  BY <1>1, ActiveWins, PastDueWins, ClaimWins, ReclaimWins DEF RowMoves
<1>2. CASE Clear(f)
  <2>1. CASE Current(f) /\ Owns(f)
    <3>1. row' = [row EXCEPT !.provider = "none", !.sub = None, !.status = "canceled",
                     !.tier = IF KeepsGrant(f) THEN @ ELSE "free",
                     !.source = IF KeepsGrant(f) THEN @ ELSE "none"]
      BY <1>2, <2>1 DEF Clear
    <3>2. /\ row'.provider = "none" /\ row'.status = "canceled" /\ row'.trialOf = row.trialOf
          /\ row'.tier = IF KeepsGrant(f) THEN row.tier ELSE "free"
          /\ row'.source = IF KeepsGrant(f) THEN row.source ELSE "none"
      BY <3>1, <1>r DEF Row
    <3> QED
      BY <3>2, <2>1, <1>2 DEF RowMoves, Clears, Clear, Owns
  <2>2. CASE ~(Current(f) /\ Owns(f))
    BY <2>2, <1>2 DEF Clear, RowMoves
  <2> QED
    BY <2>1, <2>2
<1>3. CASE StampEnded(f) \/ Flush(f) \/ StampStale(f)
  <2>1. /\ row' = IF Current(f) THEN Stamped(row, f) ELSE row
        /\ pc[f] \in {"stamp", "flush", "flushWon", "stale"}
    BY <1>3 DEF StampEnded, Flush, StampStale
  <2> QED
    BY <2>1, <1>r, StampFacts DEF RowMoves, Stamps, SInv
<1>4. CASE row' = row
  BY <1>4 DEF RowMoves
<1>5. \/ ClaimActive(f) \/ ClaimPastDue(f) \/ Claim(f) \/ Reclaim(f) \/ Clear(f)
      \/ StampEnded(f) \/ Flush(f) \/ StampStale(f) \/ row' = row
  BY DEF EventStep, Read, Fetch, Recheck, Retire, Dedup, ReadStored, AskStored, Reread, Cancel,
         Refund, OpenConflict, Reject, EndTrial, OpenRejection, Enqueue
<1> QED
  BY <1>1, <1>2, <1>3, <1>4, <1>5

LEMMA MarkerStays ==
  ASSUME SInv, NEW f \in Flow, Sees(f), EventStep(f)
  PROVE  row.trialOf # None => row'.trialOf = row.trialOf
  BY RowMoved DEF RowMoves, Wins, Stamps

LEMMA SlotKept ==
  ASSUME SInv, Slot, NEW f \in Flow, Sees(f), EventStep(f)
  PROVE  Slot'
<1>1. CASE Current(f) /\ Claims(f)
  <2>1. /\ row'.provider = (IF Keeps(f) THEN row.provider ELSE "stripe")
        /\ row'.tier = NewTier(f) /\ row'.source = NewSource(f) /\ row.provider # "store"
    BY <1>1 DEF Claims
  <2>2. row.tier = snap[f].tier /\ row.source = snap[f].source
    BY <1>1 DEF SInv, FInv, Knows, Current, Claims, Claiming, Deciding
  <2>3. Keeps(f) => row.source = "grant" /\ row.tier # "free"
    BY <2>2 DEF Keeps
  <2> QED
    BY <2>1, <2>3 DEF Slot, NewTier, NewSource
<1> QED
  BY <1>1, RowMoved DEF RowMoves, Wins, Slot, Stamps, Clears

\* Of another subscription's slot an event's step may take one thing: the slot of
\* the one that the reclaim displaces.
LEMMA Elsewhere ==
  ASSUME SInv, Slot, NEW f \in Flow, Sees(f), EventStep(f), NEW s \in Sub, s # on[f]
  PROVE  /\ Owner(s)' => Owner(s) /\ row'.tier = row.tier /\ row'.status = row.status
         /\ Owner(s) /\ ~Owner(s)' => newest = f /\ pc[f] = "reclaim" /\ s = stored[f]
<1>n. s # None
  BY NoneFacts
<1>1. CASE Wins(f)
  <2>1. /\ row'.provider = (IF Keeps(f) THEN row.provider ELSE "stripe")
        /\ row'.sub = (IF Keeps(f) THEN row.sub ELSE on[f])
    BY <1>1 DEF Wins, Claims
  <2>2. row.tier = snap[f].tier /\ row.source = snap[f].source
    BY <1>1 DEF SInv, FInv, Knows, Current, Wins, Claims, Claiming, Deciding
  <2>3. Keeps(f) => ~Owner(s)
    BY <2>2 DEF Keeps, Slot, Owner
  <2>4. ~Owner(s)'
    BY <2>1, <2>3 DEF Owner
  <2> QED
    BY <2>4, <1>1, <1>n DEF Wins, Current, Owner, Claimable
<1> QED
  BY <1>1, RowMoved DEF RowMoves, Owner, Stamps, Clears, Owns


----------------------------------------------------------------------------
(* An event's step and the subscription it is about.                         *)

LEMMA WonIsRight ==
  ASSUME DInv, NEW f \in Flow, NEW s \in Sub, s = on[f],
         Wins(f), rec[f] = stripe[s], UNCHANGED stripe
  PROVE  Agrees(s)'
<1>1. /\ row'.provider = (IF Keeps(f) THEN row.provider ELSE "stripe")
      /\ row'.sub = (IF Keeps(f) THEN row.sub ELSE s) /\ row'.tier = NewTier(f)
      /\ pc[f] \in Claiming
  BY DEF Wins, Claims
<1>2. row.tier = snap[f].tier /\ row.source = snap[f].source
  BY <1>1 DEF DInv, SInv, FInv, Knows, Current, Wins, Claiming, Deciding
<1>3. rec[f].st \notin Terminal
  BY <1>1 DEF DInv, PInv, Places, Claiming, Beaten, Live, Terminal
<1>4. CASE rec[f].st \in Entitling
  <2>1. ~Keeps(f) /\ NewTier(f) = "paid" /\ row'.status \in Entitling
    BY <1>4 DEF Keeps, NewTier, Wins
  <2> QED
    BY <2>1, <1>1, <1>3, <1>4 DEF Agrees
<1>5. CASE rec[f].st \notin Entitling
  <2>1. Owner(s)' => row'.tier = "free"
    <3>1. CASE Keeps(f)
      BY <3>1, <1>1, <1>2 DEF Keeps, DInv, Slot, Owner
    <3>2. CASE ~Keeps(f)
      BY <3>2, <1>1, <1>5 DEF NewTier
    <3> QED
      BY <3>1, <3>2
  <2> QED
    BY <2>1, <1>3, <1>5 DEF Agrees, Owner
<1> QED
  BY <1>4, <1>5

\* A trial that Stripe records was consumed, as a handler judges it.
LEMMA TriedIsConsumed ==
  ASSUME DInv, NEW f \in Flow, on[f] \in Sub, rec[f] = stripe[on[f]], stripe[on[f]].tried
  PROVE  Consumed(f)
  BY DEF DInv, Books, Consumed

\* The row says the same of a subscription as long as it looks the same.
LEMMA AgreesStays ==
  ASSUME NEW s \in Sub, Agrees(s), stripe'[s] = stripe[s],
         Owner(s)' <=> Owner(s),
         Owner(s) => row'.tier = row.tier /\ row'.status = row.status,
         <<"ineligible_trial_rejected", s>> \in open => <<"ineligible_trial_rejected", s>> \in open'
  PROVE  Agrees(s)'
  BY DEF Agrees, Owner

\* Wherever a flow answers, the row is right about its subscription.
LEMMA AnswersAreRight ==
  ASSUME DInv, NEW f \in Flow, EventStep(f), Leave(f), UNCHANGED stripe,
         NEW s \in Sub, s = on[f], owed[s], ~owed'[s]
  PROVE  Right(s)'
<1>a. s # None /\ SInv /\ PInv(f) /\ Slot /\ Books /\ TInv
  BY NoneFacts DEF DInv, SInv
<1>f. /\ row \in Row /\ pc \in [Flow -> PCs] /\ owed \in [Sub -> BOOLEAN]
      /\ rec[f].st \in StripeStatus /\ pc'[f] = "idle"
  BY <1>a, NewFacts, Ends DEF SInv, TInv, DataTypes, FlowTypes, Tables
<1>h. heard[f]
  BY <1>f, <1>a DEF EventStep, Read, Fetch, StampEnded, Clear, ClaimActive, Recheck, ClaimPastDue,
       Retire, Claim, Flush, Dedup, StampStale, ReadStored, AskStored, Reclaim, Reread,
       Cancel, Refund, OpenConflict, Reject, EndTrial, OpenRejection, Enqueue, Abort, Ack,
       stripeVars, Changed
<1>u. pc[f] \notin {"read", "fetch"} => rec[f] = stripe[s]
  BY <1>a, <1>h DEF PInv, UpToDate
<1>k. /\ pc[f] \in Beaten => ~Owner(s)
      /\ pc[f] \in Settling => Agrees(s)
  BY <1>a, <1>h DEF PInv, Knowing
<1>c. rec[f] = stripe[s] /\ stripe[s].tried => Consumed(f)
  BY <1>a, TriedIsConsumed
<1>p. Places(f) /\ Sees(f)
  BY <1>a DEF PInv
<1>1. CASE Clear(f)
  <2>1. pc[f] = "clear" /\ stripe'[s].st \in Terminal
    BY <1>1, <1>p, <1>u DEF Clear, Places
  <2>2. ~Owner(s)'
    <3>1. CASE Current(f) /\ Owns(f)
      <4>1. row'.provider = "none"
        BY <1>1, <3>1, <1>f DEF Clear, Row
      <4> QED
        BY <4>1 DEF Owner
    <3>2. CASE ~Owns(f)
      BY <3>2, <1>1 DEF Clear, Owns, Owner
    <3>3. CASE ~Current(f)
      BY <3>3, <1>1 DEF Clear, Abort
    <3> QED
      BY <3>1, <3>2, <3>3
  <2> QED
    BY <2>1, <2>2 DEF Right, Noted, Agrees, Owner, Terminal, Entitling
<1>2. CASE Flush(f)
  <2>1. pc[f] = "flush"
    BY <1>2, <1>f DEF Flush, Goto
  <2>2. Agrees(s) /\ rec[f] = stripe[s]
    BY <2>1, <1>k, <1>u DEF Settling
  <2>3. row' = (IF Current(f) THEN Stamped(row, f) ELSE row) /\ open' = open
    BY <1>2 DEF Flush
  <2>4. /\ row'.provider = row.provider /\ row'.sub = row.sub
        /\ row'.tier = row.tier /\ row'.status = row.status
        /\ Current(f) /\ Consumed(f) => row'.trialOf # None
    BY <2>3, <1>a, <1>f, StampFacts
  <2>5. Agrees(s)'
    BY <2>2, <2>3, <2>4, AgreesStays DEF Owner
  <2>6. ~Current(f) /\ Consumed(f) => <<"stamp", s>> \in slips'
    BY <1>2, <2>1 DEF Flush
  <2> QED
    BY <2>2, <2>4, <2>5, <2>6, <1>c DEF Right, Noted
<1>3. CASE Dedup(f)
  <2>1. pc[f] = "dedup" /\ <<"exclusivity_conflict", s>> \in open
    BY <1>3, <1>f DEF Dedup, Goto, PCs
  <2> QED
    BY <2>1, <1>u, <1>p, <1>a DEF Books, Places, Beaten
<1>4. CASE StampStale(f)
  <2>1. pc[f] = "stale" /\ row' = (IF Current(f) THEN Stamped(row, f) ELSE row)
    BY <1>4 DEF StampStale
  <2>2. ~Owner(s)'
    BY <2>1, <1>k, <1>a, <1>f, StampFacts DEF Owner, Beaten
  <2>3. stripe'[s].st \notin Entitling
    BY <2>1, <1>p, <1>u, <1>f, EntitlingStatus DEF Places, NewStatus
  <2> QED
    BY <2>2, <2>3 DEF Right, Noted, Agrees, Owner
<1>5. CASE Reclaim(f)
  <2>1. pc[f] = "reclaim" /\ pc'[f] # "reread"
    BY <1>5, <1>f DEF Reclaim
  <2>2. Wins(f) /\ rec[f] = stripe[s]
    BY <2>1, <1>5, <1>a, <1>u, ReclaimWins
  <2>3. Agrees(s)'
    BY <2>2, WonIsRight
  <2> QED
    BY <2>1, <2>2, <2>3, <1>c DEF Wins, Right, Noted
<1>6. CASE Reread(f)
  <2>1. pc[f] = "reread" /\ row.sub = s /\ row' = row
    BY <1>6, <1>f DEF Reread, Goto
  <2>2. ~Owner(s)
    BY <2>1, <1>k DEF Beaten
  <2>3. ~Current(f)
    <3>1. ASSUME Current(f) PROVE FALSE
      <4>1. ~Claimable(row, s)
        BY <3>1, <2>1, <1>a DEF SInv, FInv, Loses, Losing, Current
      <4> QED
        BY <4>1, <2>1, <1>a DEF Claimable, Slot
    <3> QED
      BY <3>1
  <2>4. <<"reclaim", s>> \in slips'
    BY <1>6, <2>1, <2>3 DEF Reread
  <2> QED
    BY <2>1, <2>2, <2>4 DEF Right, Noted, Owner
<1>7. CASE OpenConflict(f) \/ OpenRejection(f)
  BY <1>7, <1>h, <1>p DEF OpenConflict, OpenRejection, Places
<1>8. CASE Reject(f)
  <2>1. /\ pc[f] = "reject" /\ row' = row /\ open' = open
        /\ <<"ineligible_trial_rejected", s>> \in open
    BY <1>8, <1>f DEF Reject, Goto, Abort
  <2>2. rec[f].st = "trialing" /\ row.trialOf # None /\ rec[f] = stripe[s]
    BY <2>1, <1>p, <1>u DEF Places, Refusing
  <2>3. stripe[s].ending
    BY <2>1, <1>a DEF Books
  <2> QED
    BY <2>1, <2>2, <2>3 DEF Right, Noted, Agrees, Terminal, Entitling
<1>9. CASE Enqueue(f)
  <2>1. pc[f] = "notice" /\ Current(f) /\ row' = row /\ open' = open
    BY <1>9, <1>f DEF Enqueue, Abort
  <2>2. Agrees(s) /\ rec[f] = stripe[s]
    BY <2>1, <1>k, <1>u DEF Settling
  <2>3. Consumed(f) => row.trialOf # None
    BY <2>1, <1>p DEF Sees, Current
  <2> QED
    BY <2>1, <2>2, <2>3, <1>c, AgreesStays DEF Right, Noted, Owner
<1>10. Clear(f) \/ Flush(f) \/ Dedup(f) \/ StampStale(f) \/ Reclaim(f) \/ Reread(f)
       \/ OpenConflict(f) \/ OpenRejection(f) \/ Reject(f) \/ Enqueue(f)
  BY <1>f DEF EventStep, Read, Fetch, StampEnded, ClaimActive, Recheck, ClaimPastDue, Retire,
     Claim, ReadStored, AskStored, Cancel, Refund, EndTrial, Abort, stripeVars, Changed
<1> QED
  BY <1>1, <1>2, <1>3, <1>4, <1>5, <1>6, <1>7, <1>8, <1>9, <1>10

\* What a flow knows on its way: its own step.
Minds(f) == Places(f) /\ Sees(f) /\ Displaces(f) /\ Knowing(f)

LEMMA OwnUpToDate ==
  ASSUME DInv, NEW f \in Flow, EventStep(f), ~Leave(f)
  PROVE  UpToDate(f)'
<1>a. TInv /\ SInv /\ UpToDate(f) /\ Waits(f)
  BY DEF DInv, SInv, PInv
<1>t. /\ rec \in [Flow -> Record] /\ heard \in [Flow -> BOOLEAN] /\ pc \in [Flow -> PCs]
      /\ stripe \in [Sub -> Record]
  BY <1>a DEF TInv, FlowTypes, DataTypes
<1>1. CASE Silent(f)
  <2>1. CASE Fetch(f)
    <3>1. rec'[f] = stripe[on[f]] /\ stripe' = stripe /\ on' = on
      BY <2>1, <1>t DEF Fetch, stripeVars
    <3> QED
      BY <3>1 DEF UpToDate
  <2>2. CASE rec'[f] = rec[f] /\ pc[f] \notin {"read", "fetch"}
    BY <2>2, <1>1, <1>a DEF UpToDate, Silent, Onward
  <2>3. CASE Read(f)
    BY <2>3, <1>t DEF Read, Abort, Goto, UpToDate
  <2>4. Fetch(f) \/ Read(f) \/ (rec' = rec /\ pc[f] \notin {"read", "fetch"})
    BY DEF EventStep, StampEnded, Clear, ClaimActive, Recheck, ClaimPastDue,
       Retire, Claim, Flush, Dedup, StampStale, ReadStored, AskStored, Reclaim, Reread,
       Cancel, Refund, OpenConflict, Reject, EndTrial, OpenRejection, Enqueue, Abort, Ack, locals
  <2> QED
    BY <2>1, <2>2, <2>3, <2>4
<1>2. CASE Stirs(f)
  BY <1>2, <1>t DEF Stirs, Changed, UpToDate, Onward
<1> QED
  BY <1>1, <1>2, <1>a, Tells DEF Answers

LEMMA OwnMinds ==
  ASSUME DInv, NEW f \in Flow, EventStep(f), ~Leave(f)
  PROVE  Minds(f)'
<1>a. SInv /\ TInv /\ PInv(f) /\ Slot /\ on[f] \in Sub /\ on[f] # None
  BY Shapes, NoneFacts DEF DInv, SInv
<1>t. /\ pc \in [Flow -> PCs] /\ snap \in [Flow -> Row] /\ rec \in [Flow -> Record]
      /\ stored \in [Flow -> Sub \cup {None}] /\ row \in Row /\ rec[f].st \in StripeStatus
      /\ heard \in [Flow -> BOOLEAN] /\ stripe \in [Sub -> Record]
  BY <1>a, NewFacts DEF TInv, FlowTypes, DataTypes
<1>i. /\ Places(f) /\ Sees(f) /\ Displaces(f) /\ Knowing(f)
      /\ heard[f] /\ pc[f] \notin {"read", "fetch"} => rec[f] = stripe[on[f]]
  BY <1>a DEF PInv, UpToDate
<1>s. ASSUME row' = Stamped(row, f)
      PROVE  /\ row'.provider = row.provider /\ row'.sub = row.sub
             /\ row'.tier = row.tier /\ row'.status = row.status
             /\ Consumed(f) => row'.trialOf # None
             /\ row.trialOf # None => row'.trialOf # None
  BY <1>s, <1>a, <1>t, StampFacts
<1> DEFINE Fine == Minds(f)'
<1>1. ASSUME Read(f) PROVE Fine
  BY <1>1, <1>t DEF Read, Goto, Abort, Minds, Places, Sees, Displaces, Knowing, Beaten, Refusing,
     Settling
<1>2. ASSUME Fetch(f) PROVE Fine
  <2> DEFINE st == stripe[on[f]].st
             to == CASE st \in Terminal -> "stamp"
                     [] st \in Live -> "activate"
                     [] statusFromSubscription(st) = "past_due" -> "pastDue"
                     [] OTHER -> "claim"
  <2>1. /\ pc[f] = "fetch" /\ pc' = [pc EXCEPT ![f] = to]
        /\ rec' = [rec EXCEPT ![f] = stripe[on[f]]] /\ UNCHANGED <<row, snap, newest, on>>
    BY <1>2 DEF Fetch, Goto, lockVars
  <2>2. st \in StripeStatus
    BY <1>t, <1>a DEF Record
  <2>3. /\ to = "stamp" => st \in Terminal
        /\ to = "activate" => st \in Live
        /\ to = "pastDue" => statusFromSubscription(st) = "past_due"
        /\ to = "claim" => st \notin Terminal /\ st \notin Live
                           /\ statusFromSubscription(st) # "past_due"
        /\ to \in {"stamp", "activate", "pastDue", "claim"}
    OBVIOUS
  <2>4. pc'[f] = to /\ rec'[f].st = st
    BY <2>1, <1>t
  <2>5. to = "pastDue" => st \in {"past_due", "unpaid"}
    BY <2>2, <2>3, EntitlingStatus
  <2> HIDE DEF to, st
  <2>6. Places(f)'
    BY <2>3, <2>4, <2>5 DEF Places, Beaten, Refusing
  <2>7. Sees(f)'
    BY <2>1, <2>3, <2>4, <1>i DEF Sees, NewStatus
  <2>8. Displaces(f)' /\ Knowing(f)'
    BY <2>3, <2>4 DEF Displaces, Knowing, Beaten, Settling
  <2> QED
    BY <2>6, <2>7, <2>8 DEF Minds
<1>3. ASSUME StampEnded(f) PROVE Fine
  <2>1. /\ pc[f] = "stamp" /\ pc'[f] = "clear" /\ UNCHANGED <<rec, newest, on>>
        /\ row' = IF Current(f) THEN Stamped(row, f) ELSE row
    BY <1>3, <1>t DEF StampEnded, Goto, lockVars, locals
  <2>2. newest = f /\ Consumed(f) => row'.trialOf # None
    BY <2>1, <1>s DEF Current
  <2>3. Consumed(f)' <=> Consumed(f)
    BY <2>1 DEF Consumed, Trialing
  <2> QED
    BY <2>1, <2>2, <2>3, <1>i DEF Minds, Places, Sees, Displaces, Knowing, Beaten, Refusing,
       Settling
<1>4. ASSUME Clear(f) PROVE Fine
  <2>1. /\ pc[f] = "clear" /\ pc'[f] = "notice" /\ Current(f)
        /\ UNCHANGED <<rec, newest, on, heard, stripe>>
        /\ row' = [row EXCEPT !.provider = "none", !.sub = None, !.status = "canceled",
                     !.tier = IF KeepsGrant(f) THEN @ ELSE "free",
                     !.source = IF KeepsGrant(f) THEN @ ELSE "none"]
    BY <1>4, <1>t DEF Clear, Goto, Ack, Abort, lockVars, locals
  <2>2. row'.provider = "none" /\ row'.trialOf = row.trialOf
    BY <2>1, <1>t DEF Row
  <2>3. Consumed(f)' <=> Consumed(f)
    BY <2>1 DEF Consumed, Trialing
  <2>4. Sees(f)'
    BY <2>1, <2>2, <2>3, <1>i DEF Sees, Current
  <2>5. Knowing(f)'
    <3>1. heard[f] => stripe'[on[f]].st \in Terminal
      BY <2>1, <1>i DEF Places
    <3> QED
      BY <2>1, <2>2, <3>1 DEF Knowing, Agrees, Beaten, Terminal, Entitling
  <2> QED
    BY <2>1, <2>4, <2>5 DEF Minds, Places, Displaces, Beaten, Refusing
<1>w. ASSUME Wins(f), pc'[f] \in {"retire", "flush", "notice"}, UNCHANGED <<rec, newest, on, heard, stripe>>,
             pc'[f] = "notice" => pc[f] = "reclaim"
      PROVE Fine
  <2>1. rec[f].st \notin Terminal
    BY <1>w, <1>i DEF Wins, Claims, Claiming, Places, Beaten, Live, Terminal
  <2>2. heard[f] => Agrees(on[f])'
    BY <1>w, <1>i, <1>a, WonIsRight DEF Wins, Claims, Claiming
  <2>3. Consumed(f)' <=> Consumed(f)
    BY <1>w DEF Consumed, Trialing
  <2> QED
    BY <1>w, <2>1, <2>2, <2>3 DEF Minds, Places, Sees, Displaces, Knowing, Beaten, Refusing,
       Settling, Wins
<1>5. ASSUME ClaimActive(f) PROVE Fine
  <2>0. /\ pc[f] = "activate" /\ UNCHANGED <<rec, snap, newest, on, heard, stripe>>
        /\ pc'[f] \in {"retire", "recheck", "claim"}
    BY <1>5, <1>t DEF ClaimActive, Goto, lockVars, locals, stripeVars
  <2>1. CASE pc'[f] = "retire"
    BY <2>0, <2>1, <1>5, <1>a, <1>w, ActiveWins
  <2>2. CASE pc'[f] # "retire"
    <3>1. /\ row' = row
          /\ ~(Current(f) /\ row.status \notin Live /\ Claimable(row, on[f]) /\ Eligible(f))
          /\ pc'[f] = IF Trialing(f) /\ Claimable(snap[f], on[f]) /\ snap[f].status \notin Live
                     THEN "recheck" ELSE "claim"
      BY <2>2, <1>5, <1>t DEF ClaimActive, Goto
    <3>2. Sees(f)'
      BY <3>1, <2>0, <1>i DEF Sees, Current, Claimable, Eligible, Places, NewStatus, Live,
         statusFromSubscription
    <3>3. Places(f)'
      BY <3>1, <2>0, <1>i DEF Places, Beaten, Refusing, Trialing, Live, Terminal
    <3> QED
      BY <3>1, <3>2, <3>3 DEF Minds, Displaces, Knowing, Beaten, Settling
  <2> QED
    BY <2>1, <2>2
<1>6. ASSUME Recheck(f) PROVE Fine
  BY <1>6, <1>t, <1>i DEF Recheck, Goto, Minds, Places, Sees, Displaces, Knowing, Beaten,
     Refusing, Settling, lockVars, locals, stripeVars, Claimable, Terminal, NewStatus,
     statusFromSubscription
<1>7. ASSUME ClaimPastDue(f) PROVE Fine
  <2>0. /\ pc[f] = "pastDue" /\ UNCHANGED <<rec, snap, newest, on, heard, stripe>>
        /\ pc'[f] \in {"retire", "claim"}
    BY <1>7, <1>t DEF ClaimPastDue, Goto, lockVars, locals, stripeVars
  <2>1. CASE pc'[f] = "retire"
    BY <2>0, <2>1, <1>7, <1>a, <1>w, PastDueWins
  <2>2. CASE pc'[f] # "retire"
    <3>1. /\ row' = row /\ pc'[f] = "claim"
          /\ ~(Current(f) /\ row.status # "past_due" /\ Claimable(row, on[f]))
      BY <2>2, <1>7, <1>t DEF ClaimPastDue, Goto
    <3> QED
      BY <3>1, <2>0, <1>i DEF Minds, Places, Sees, Displaces, Knowing, Beaten, Refusing,
         Settling, Live,
         Terminal, Current, Claimable
  <2> QED
    BY <2>1, <2>2
<1>8. ASSUME Retire(f) PROVE Fine
  <2>1. /\ pc[f] = "retire" /\ pc'[f] = "flushWon" /\ open' = Retired(f)
        /\ UNCHANGED <<row, rec, snap, newest, on, heard, stripe>>
    BY <1>8, <1>t DEF Retire, Goto, lockVars, locals, stripeVars
  <2>2. Agrees(on[f]) => Agrees(on[f])'
    BY <2>1, <1>a, AgreesStays DEF Retired, Owner
  <2> QED
    BY <2>1, <2>2, <1>i DEF Minds, Places, Sees, Displaces, Knowing, Beaten, Refusing, Settling
<1>9. ASSUME Claim(f) PROVE Fine
  <2>0. /\ pc[f] = "claim" /\ pc'[f] \in {"flush", "dedup"}
        /\ UNCHANGED <<rec, snap, newest, on, heard, stripe>>
    BY <1>9, <1>t DEF Claim, Goto, Abort, lockVars, locals
  <2>1. CASE pc'[f] = "flush"
    BY <2>0, <2>1, <1>9, <1>a, <1>i, <1>w, ClaimWins
  <2>2. CASE pc'[f] = "dedup"
    <3>1. row' = row /\ Current(f) /\ ~Claimable(row, on[f])
      BY <2>2, <1>9, <1>t DEF Claim, Goto, Abort
    <3> QED
      BY <3>1, <2>0, <2>2, <1>i DEF Minds, Places, Sees, Displaces, Knowing, Beaten, Refusing,
         Settling,
         Claimable, Owner
  <2> QED
    BY <2>0, <2>1, <2>2
<1>10. ASSUME Flush(f) PROVE Fine
  <2>1. /\ pc[f] = "flushWon" /\ pc'[f] = "notice" /\ open' = open
        /\ UNCHANGED <<rec, snap, newest, on, heard, stripe>>
        /\ row' = IF Current(f) THEN Stamped(row, f) ELSE row
    BY <1>10, <1>t DEF Flush, Goto, Ack, lockVars, locals
  <2>2. newest = f /\ Consumed(f) => row'.trialOf # None
    BY <2>1, <1>s DEF Current
  <2>3. Consumed(f)' <=> Consumed(f)
    BY <2>1 DEF Consumed, Trialing
  <2>4. Agrees(on[f]) => Agrees(on[f])'
    BY <2>1, <1>a, <1>s, AgreesStays DEF Owner
  <2> QED
    BY <2>1, <2>2, <2>3, <2>4, <1>i DEF Minds, Places, Sees, Displaces, Knowing, Beaten,
       Refusing, Settling
<1>11. ASSUME Dedup(f) PROVE Fine
  BY <1>11, <1>t, <1>i DEF Dedup, Ack, Goto, Minds, Places, Sees, Displaces, Knowing, Beaten,
     Refusing, Settling, lockVars, locals, stripeVars, NewStatus, Owner
<1>12. ASSUME StampStale(f) PROVE Fine
  BY <1>12 DEF StampStale, Ack, Abort
<1>13. ASSUME ReadStored(f) PROVE Fine
  BY <1>13, <1>t, <1>i DEF ReadStored, Goto, Minds, Places, Sees, Displaces, Knowing, Beaten,
     Refusing, Settling, lockVars, stripeVars, NewStatus, Owner
<1>14. ASSUME AskStored(f) PROVE Fine
  BY <1>14, <1>t, <1>i DEF AskStored, Abort, StoredLive, Goto, Minds, Places, Sees, Displaces,
     Knowing, Beaten, Refusing, Settling, lockVars, locals, NewStatus, Owner
<1>15. ASSUME Reclaim(f) PROVE Fine
  <2>0. /\ pc[f] = "reclaim" /\ pc'[f] \in {"notice", "reread"}
        /\ UNCHANGED <<rec, snap, newest, on, heard, stripe>>
    BY <1>15, <1>t DEF Reclaim, Goto, Ack, lockVars, locals
  <2>1. CASE pc'[f] = "notice"
    BY <2>0, <2>1, <1>15, <1>a, <1>w, ReclaimWins
  <2>2. CASE pc'[f] = "reread"
    <3>1. row' = row
      BY <2>2, <1>15, <1>t DEF Reclaim, Goto, Ack
    <3> QED
      BY <3>1, <2>0, <2>2, <1>i DEF Minds, Places, Sees, Displaces, Knowing, Beaten, Refusing,
         Settling,
         NewStatus, Owner
  <2> QED
    BY <2>0, <2>1, <2>2
<1>16. ASSUME Reread(f) PROVE Fine
  BY <1>16, <1>t, <1>i DEF Reread, Ack, Trialing, Goto, Minds, Places, Sees, Displaces, Knowing,
     Beaten, Refusing, Settling, lockVars, locals, NewStatus, Owner
<1>17. ASSUME Cancel(f) PROVE Fine
  <2>1. /\ pc[f] = "cancel" /\ pc'[f] = "refund" /\ UNCHANGED <<row, rec, newest, on>>
        /\ stripe' = [stripe EXCEPT ![on[f]].st = IF @ \in Terminal THEN @ ELSE "canceled"]
        /\ ~heard'[f]
    BY <1>17, <1>t DEF Cancel, Changed, Goto, Abort, lockVars, locals
  <2>2. stripe'[on[f]].st \in Terminal
    BY <2>1, <1>t, <1>a DEF Record, Terminal
  <2> QED
    BY <2>1, <2>2, <1>i DEF Minds, Places, Sees, Displaces, Knowing, Beaten, Refusing, Settling
<1>18. ASSUME Refund(f) PROVE Fine
  BY <1>18, <1>t, <1>i DEF Refund, Abort, Goto, Minds, Places, Sees, Displaces, Knowing, Beaten,
     Refusing, Settling, lockVars, locals, NewStatus, Owner
<1>19. ASSUME OpenConflict(f) \/ OpenRejection(f) PROVE Fine
  BY <1>19 DEF OpenConflict, OpenRejection, Ack
<1>20. ASSUME Reject(f) PROVE Fine
  BY <1>20, <1>t, <1>i DEF Reject, Ack, Abort, Goto, Minds, Places, Sees, Displaces, Knowing,
     Beaten, Refusing, Settling, lockVars, locals, NewStatus, Owner
<1>21. ASSUME EndTrial(f) PROVE Fine
  <2>1. /\ pc[f] = "ending" /\ pc'[f] = "rejected" /\ UNCHANGED <<row, rec, newest, on>>
        /\ stripe' = [stripe EXCEPT ![on[f]].ending = TRUE]
        /\ ~heard'[f]
    BY <1>21, <1>t DEF EndTrial, Changed, Goto, Abort, lockVars, locals
  <2>2. stripe'[on[f]].ending
    BY <2>1, <1>t, <1>a DEF Record
  <2> QED
    BY <2>1, <2>2, <1>i DEF Minds, Places, Sees, Displaces, Knowing, Beaten, Refusing, Settling
<1>22. ASSUME Enqueue(f) PROVE Fine
  BY <1>22 DEF Enqueue, Ack, Abort
<1> HIDE DEF Fine
<1>q. Fine
  BY <1>1, <1>2, <1>3, <1>4, <1>5, <1>6, <1>7, <1>8, <1>9, <1>10, <1>11, <1>12, <1>13, <1>14,
     <1>15, <1>16, <1>17, <1>18, <1>19, <1>20, <1>21, <1>22 DEF EventStep
<1> QED
  BY <1>q DEF Fine

----------------------------------------------------------------------------
(* The flows that do not move.                                               *)

\* What may happen beside a flow that stays where it is.
Beside(g) ==
  /\ pc'[g] = pc[g] /\ on'[g] = on[g] /\ snap'[g] = snap[g] /\ rec'[g] = rec[g]
  /\ stored'[g] = stored[g]
  /\ heard'[g] => heard[g]
  /\ newest' = g => newest = g
  /\ row.trialOf # None => row'.trialOf # None
  /\ \A s \in Sub : /\ stripe[s].st \in Terminal => stripe'[s].st \in Terminal
                    /\ stripe[s].ending => stripe'[s].ending

\* What the newest flow counts on is still so.
Undisturbed(g) ==
  newest' = g =>
    \A s \in Sub :
      /\ Quiet(s, Flow \ {g}) => Quiet(s, Flow \ {g})'
      /\ stripe'[s].st \in Entitling => stripe[s].st \in Entitling \/ Quiet(s, Flow)'

\* What a flow whose answer counts has seen is still so.
Unheard(g) ==
  heard'[g] => \A s \in Sub : s = on[g] =>
    /\ stripe'[s] = stripe[s]
    /\ Owner(s)' => Owner(s)
    /\ Agrees(s) => Agrees(s)'

LEMMA Bystander ==
  ASSUME DInv, NEW g \in Flow, Beside(g), Undisturbed(g), Unheard(g), Sees(g)'
  PROVE  PInv(g)'
<1>a. /\ PInv(g)
      /\ Working(g) => on[g] \in Sub
      /\ stored[g] \in Sub \cup {None} /\ pc[g] \in PCs
  BY DEF DInv, SInv, TInv, Abouts, FlowTypes, Working
<1>w. Working(g)' <=> Working(g)
  BY DEF Beside, Working
<1>n. NewStatus(g)' = NewStatus(g)
  BY DEF Beside, NewStatus, statusFromSubscription
<1>1. Waits(g)'
  BY <1>a, <1>w DEF PInv, Waits, Beside
<1>2. Due(g)'
  <2> SUFFICES ASSUME newest' = g, Working(g) PROVE Quiet(on[g], Flow \ {g})'
    BY <1>w DEF Due, Beside
  <2>1. Quiet(on[g], Flow \ {g}) /\ on[g] \in Sub
    BY <1>a DEF PInv, Due, Beside
  <2>2. PICK s \in Sub : s = on[g] /\ Quiet(s, Flow \ {g})
    BY <2>1
  <2>3. on'[g] = s
    BY <2>2 DEF Beside
  <2>4. Quiet(s, Flow \ {g})'
    BY <2>2 DEF Undisturbed
  <2> QED
    BY <2>3, <2>4 DEF Quiet
<1>3. UpToDate(g)'
  <2> SUFFICES ASSUME heard'[g], pc'[g] \notin {"read", "fetch"} PROVE rec'[g] = stripe'[on'[g]]
    BY DEF UpToDate
  <2>1. heard[g] /\ on[g] \in Sub /\ rec[g] = stripe[on[g]]
    BY <1>a DEF PInv, UpToDate, Waits, Beside
  <2> QED
    BY <2>1 DEF Beside, Unheard
<1>4. Places(g)'
  <2>1. pc[g] \in {"refund", "conflict", "rejected"} => on[g] \in Sub
    BY <1>a DEF Working, Carrying
  <2> QED
    BY <1>a, <1>n, <2>1 DEF PInv, Places, Beside
<1>5. Displaces(g)'
  <2> SUFFICES ASSUME newest' = g, pc[g] = "reclaim"
               PROVE  /\ stored[g] # None
                      /\ stripe'[stored[g]].st \in Entitling => Quiet(stored[g], Flow)'
    BY DEF Displaces, Beside
  <2>1. stored[g] \in Sub /\ stored[g] # None
        /\ (stripe[stored[g]].st \in Entitling => Quiet(stored[g], Flow))
    BY <1>a DEF PInv, Displaces, Beside
  <2>2. PICK s \in Sub : s = stored[g] /\ (stripe[s].st \in Entitling => Quiet(s, Flow))
    BY <2>1
  <2>3. Quiet(s, Flow) => Quiet(s, Flow)'
    BY <2>2 DEF Undisturbed, Quiet, Beside
  <2>4. stripe'[s].st \in Entitling => Quiet(s, Flow)'
    BY <2>2, <2>3 DEF Undisturbed
  <2> QED
    BY <2>1, <2>2, <2>4 DEF Quiet, Beside
<1>6. Knowing(g)'
  <2> SUFFICES ASSUME heard'[g]
               PROVE  /\ pc[g] \in Beaten => ~Owner(on[g])'
                      /\ pc[g] \in Settling => Agrees(on[g])'
    BY DEF Knowing, Beside
  <2>1. /\ on[g] \in Sub /\ (pc[g] \in Beaten => ~Owner(on[g]))
        /\ (pc[g] \in Settling => Agrees(on[g]))
    BY <1>a DEF PInv, Knowing, Waits, Beside
  <2>2. PICK s \in Sub : /\ s = on[g] /\ (pc[g] \in Beaten => ~Owner(s))
                         /\ (pc[g] \in Settling => Agrees(s))
    BY <2>1
  <2>3. (pc[g] \in Beaten => ~Owner(s)') /\ (pc[g] \in Settling => Agrees(s)')
    BY <2>2 DEF Unheard
  <2> QED
    BY <2>2, <2>3 DEF Agrees, Owner, Beside
<1> QED
  BY <1>1, <1>2, <1>3, <1>4, <1>5, <1>6 DEF PInv

\* A flow that is over.
LEMMA OverKeeps ==
  ASSUME DInv, NEW f \in Flow, Leave(f)
  PROVE  PInv(f)'
<1>1. pc'[f] = "idle" /\ ~heard'[f]
  BY DEF Leave, Goto, DInv, SInv, TInv, FlowTypes
<1> QED
  BY <1>1 DEF PInv, Waits, Due, UpToDate, Places, Sees, Displaces, Knowing, Working,
     Beaten, Refusing, Settling

\* Nothing is seen of a flow's row but what is in the row.
LEMMA SeesStays ==
  ASSUME NEW g \in Flow, Sees(g), newest' = g => newest = g, pc'[g] = pc[g], on'[g] = on[g],
         snap'[g] = snap[g], rec'[g] = rec[g], newest' = g => row' = row
  PROVE  Sees(g)'
<1>1. /\ NewStatus(g)' = NewStatus(g) /\ (Consumed(g)' <=> Consumed(g))
      /\ newest' = g => (Claimable(row, on[g])' <=> Claimable(row, on[g]))
  BY DEF NewStatus, statusFromSubscription, Consumed, Trialing, Claimable
<1> QED
  BY <1>1 DEF Sees

----------------------------------------------------------------------------
(* An event's step.                                                          *)

LEMMA EventSteps ==
  ASSUME DInv, NEW f \in Flow, EventStep(f)
  PROVE  /\ heard' \in [Flow -> BOOLEAN]
         /\ \A g \in Flow : heard'[g] => heard[g] /\ (g # f => on'[g] = on[g])
         /\ \A s \in Sub : /\ stripe'[s] = stripe[s] \/ (s = on[f] /\ Quiet(s, Flow)')
                           /\ stripe'[s].st \in {stripe[s].st, "canceled"}
                           /\ stripe'[s].tried = stripe[s].tried
                           /\ stripe[s].ending => stripe'[s].ending
                           /\ owed[s] /\ ~owed'[s] => s = on[f] /\ heard[f]
                           /\ \A x : <<x, s>> \in slips => <<x, s>> \in slips' \/ Quiet(s, Flow)'
         /\ on'[f] = on[f] \/ ~heard'[f]
<1>a. TInv /\ on[f] \in Sub
  BY Shapes DEF DInv, SInv
<1>t. /\ heard \in [Flow -> BOOLEAN] /\ owed \in [Sub -> BOOLEAN]
      /\ on \in [Flow -> Sub \cup Notice \cup {None}]
      /\ slips \subseteq {"stamp", "reclaim"} \X Sub
  BY <1>a DEF TInv, FlowTypes, DataTypes, Tables
<1>s. /\ Silent(f) \/ Answers(f) \/ Stirs(f)
      /\ heard' \in [Flow -> BOOLEAN]
  BY <1>a, Tells, TypesKept DEF Next, TInv, FlowTypes
<1>1. CASE Silent(f)
  BY <1>1, <1>s, <1>t DEF Silent, Onward
<1>2. CASE Answers(f)
  BY <1>2, <1>s, <1>t DEF Answers, Leave, Ack
<1>3. CASE Stirs(f)
  <2>1. /\ owed' = [owed EXCEPT ![on[f]] = TRUE] /\ on' = on
        /\ slips' = {x \in slips : x[2] # on[f]}
        /\ heard' = [g \in Flow |-> heard[g] /\ on[g] # on[f]]
    BY <1>3 DEF Stirs, Changed, Onward
  <2>2. Quiet(on[f], Flow)'
    BY <2>1, <1>t, <1>a DEF Quiet
  <2>3. \A s \in Sub : s = on[f] => Quiet(s, Flow)'
    BY <2>1, <1>t, <1>a DEF Quiet
  <2> QED
    BY <2>1, <2>3, <1>3, <1>s, <1>t DEF Stirs
<1> QED
  BY <1>1, <1>2, <1>3, <1>s

LEMMA OtherFlows ==
  ASSUME DInv, NEW f \in Flow, EventStep(f), NEW g \in Flow, g # f
  PROVE  PInv(g)'
<1>a. /\ SInv /\ TInv /\ PInv(f) /\ PInv(g) /\ Slot /\ on[f] \in Sub /\ Working(f)
      /\ stored[f] \in Sub \cup {None}
  BY Shapes DEF DInv, SInv, Working, TInv, FlowTypes
<1>u. /\ newest' = newest /\ pc'[g] = pc[g] /\ on'[g] = on[g] /\ snap'[g] = snap[g]
      /\ rec'[g] = rec[g] /\ stored'[g] = stored[g]
  BY <1>a, Untouched
<1>e. /\ \A h \in Flow : heard'[h] => heard[h] /\ (h # f => on'[h] = on[h])
      /\ \A s \in Sub : /\ stripe'[s] = stripe[s] \/ (s = on[f] /\ Quiet(s, Flow)')
                        /\ stripe'[s].st \in {stripe[s].st, "canceled"}
                        /\ stripe[s].ending => stripe'[s].ending
                        /\ owed[s] /\ ~owed'[s] => s = on[f] /\ heard[f]
      /\ on'[f] = on[f] \/ ~heard'[f]
  BY EventSteps
<1>r. newest # f => row' = row
  BY <1>a, Written DEF Writes, Current
<1>1. Beside(g)
  <2>1. row.trialOf # None => row'.trialOf # None
    BY <1>a, MarkerStays DEF PInv
  <2> QED
    BY <2>1, <1>u, <1>e DEF Beside, Terminal
<1>2. Undisturbed(g)
  <2> SUFFICES ASSUME newest = g, NEW s \in Sub
               PROVE  /\ Quiet(s, Flow \ {g}) => Quiet(s, Flow \ {g})'
                      /\ stripe'[s].st \in Entitling => stripe[s].st \in Entitling \/ Quiet(s, Flow)'
    BY <1>u DEF Undisturbed
  <2>1. Quiet(s, Flow \ {g}) => Quiet(s, Flow \ {g})'
    BY <1>e, <1>a DEF Quiet
  <2>2. stripe'[s].st \in Entitling => stripe[s].st \in Entitling \/ Quiet(s, Flow)'
    BY <1>e
  <2> QED
    BY <2>1, <2>2
<1>3. Unheard(g)
  <2> SUFFICES ASSUME heard'[g], NEW s \in Sub, s = on[g]
               PROVE  /\ stripe'[s] = stripe[s]
                      /\ Owner(s)' => Owner(s)
                      /\ Agrees(s) => Agrees(s)'
    BY DEF Unheard
  <2>1. stripe'[s] = stripe[s] /\ heard[g]
    BY <1>e, <1>u DEF Quiet
  <2>2. <<"ineligible_trial_rejected", s>> \in open => <<"ineligible_trial_rejected", s>> \in open'
    BY <1>a, BooksKept DEF BooksMove
  <2>3. CASE s = on[f]
    <3>1. row' = row
      BY <1>a, <1>r, <2>1, <2>3 DEF PInv, Due, Quiet
    <3> QED
      BY <3>1, <2>1, <2>2, AgreesStays DEF Owner
  <2>4. CASE s # on[f]
    <3>1. /\ Owner(s)' => Owner(s) /\ row'.tier = row.tier /\ row'.status = row.status
          /\ Owner(s) /\ ~Owner(s)' => newest = f /\ pc[f] = "reclaim" /\ s = stored[f]
      BY <2>4, <1>a, Elsewhere DEF PInv
    <3>2. CASE Owner(s)' <=> Owner(s)
      BY <3>1, <3>2, <2>1, <2>2, AgreesStays
    <3>3. CASE Owner(s) /\ ~Owner(s)'
      <4>1. stripe[s].st \notin Entitling
        BY <3>1, <3>3, <2>1, <1>a DEF PInv, Displaces, Quiet
      <4> QED
        BY <4>1, <3>3, <2>1 DEF Agrees, Owner
    <3> QED
      BY <3>1, <3>2, <3>3
  <2> QED
    BY <2>1, <2>3, <2>4
<1>4. Sees(g)'
  BY <1>u, <1>r, <1>a, SeesStays DEF PInv
<1> QED
  BY <1>1, <1>2, <1>3, <1>4, Bystander

LEMMA OwnPlaces ==
  ASSUME DInv, NEW f \in Flow, EventStep(f)
  PROVE  PInv(f)'
<1>1. CASE Leave(f)
  BY <1>1, OverKeeps
<1>2. CASE ~Leave(f)
  <2>a. TInv /\ PInv(f) /\ Working(f) /\ on[f] \in Sub
    BY Shapes DEF DInv, SInv, Working
  <2>1. newest' = newest /\ on' = on /\ Working(f)'
    BY <1>2, <2>a, Shapes DEF Onward, lockVars, Goto, Working, Carrying, TInv, FlowTypes
  <2>2. Due(f)'
    <3> SUFFICES ASSUME newest = f PROVE Quiet(on[f], Flow \ {f})'
      BY <2>1 DEF Due
    <3>1. Quiet(on[f], Flow \ {f})
      BY <2>a DEF PInv, Due
    <3>2. owed'[on[f]]
      BY <1>2, <2>a, <3>1, Tells DEF Silent, Answers, Stirs, Changed, Quiet, TInv, DataTypes, Tables
    <3>3. \A g \in Flow : heard'[g] => heard[g]
      BY EventSteps
    <3> QED
      BY <2>1, <3>1, <3>2, <3>3 DEF Quiet
  <2>3. Waits(f)' /\ UpToDate(f)' /\ Minds(f)'
    BY <1>2, <2>1, OwnUpToDate, OwnMinds DEF Waits
  <2> QED
    BY <2>2, <2>3 DEF PInv, Minds
<1> QED
  BY <1>1, <1>2

LEMMA BooksStay ==
  ASSUME DInv, NEW f \in Flow, EventStep(f)
  PROVE  Books'
<1>a. TInv /\ PInv(f) /\ Books
  BY DEF DInv, SInv
<1> SUFFICES ASSUME NEW s \in Sub
             PROVE  /\ <<"exclusivity_conflict", s>> \in open' => stripe'[s].st \in Terminal
                    /\ <<"ineligible_trial_rejected", s>> \in open' => stripe'[s].ending
                    /\ stripe'[s].st \in {"none"} \cup NeverEntitled => ~stripe'[s].tried
  BY DEF Books
<1>1. /\ stripe'[s].st \in {stripe[s].st, "canceled"}
      /\ stripe'[s].tried = stripe[s].tried
      /\ stripe[s].ending => stripe'[s].ending
  BY EventSteps
<1>2. /\ <<"exclusivity_conflict", s>> \in open => stripe[s].st \in Terminal
      /\ <<"ineligible_trial_rejected", s>> \in open => stripe[s].ending
      /\ stripe[s].st \in {"none"} \cup NeverEntitled => ~stripe[s].tried
  BY <1>a DEF Books
<1>3. /\ <<"exclusivity_conflict", s>> \in open' /\ <<"exclusivity_conflict", s>> \notin open =>
           stripe[s].st \in Terminal
      /\ <<"ineligible_trial_rejected", s>> \in open' /\ <<"ineligible_trial_rejected", s>> \notin open =>
           stripe[s].ending
  BY <1>a, BooksKept DEF BooksMove, PInv, Places
<1> QED
  BY <1>1, <1>2, <1>3 DEF Terminal, NeverEntitled

LEMMA DebtsStay ==
  ASSUME DInv, NEW f \in Flow, EventStep(f)
  PROVE  Debts'
<1>a. /\ SInv /\ TInv /\ PInv(f) /\ Slot /\ on[f] \in Sub /\ Working(f)
      /\ stored[f] \in Sub \cup {None} /\ owed' \in [Sub -> BOOLEAN]
  BY Shapes, TypesKept DEF DInv, SInv, Working, TInv, FlowTypes, Next, DataTypes, Tables
<1>m. row.trialOf # None => row'.trialOf # None
  BY <1>a, MarkerStays DEF PInv
<1> SUFFICES ASSUME NEW s \in Sub, ~owed'[s] PROVE Right(s)'
  BY DEF Debts
<1>e. /\ stripe'[s] = stripe[s]
      /\ \A x : <<x, s>> \in slips => <<x, s>> \in slips'
      /\ owed[s] => s = on[f] /\ heard[f]
  BY EventSteps DEF Quiet
<1>o. <<"ineligible_trial_rejected", s>> \in open => <<"ineligible_trial_rejected", s>> \in open'
  BY <1>a, BooksKept DEF BooksMove
<1>1. CASE owed[s]
  <2>1. Answers(f)
    BY <1>a, <1>1, <1>e, Tells DEF Silent, Stirs, Changed, TInv, DataTypes, Tables
  <2> QED
    BY <2>1, <1>1, <1>e, AnswersAreRight DEF Answers
<1>2. CASE ~owed[s]
  <2>1. Right(s)
    BY <1>2 DEF DInv, Debts
  <2>2. CASE s = on[f]
    <3>1. row' = row
      BY <2>2, <1>2, <1>a, Written DEF PInv, Due, Quiet, Writes, Current
    <3>2. Agrees(s) => Agrees(s)'
      BY <3>1, <1>e, <1>o, AgreesStays DEF Owner
    <3> QED
      BY <2>1, <3>1, <3>2, <1>e DEF Right, Noted, Owner
  <2>3. CASE s # on[f]
    <3>1. /\ Owner(s)' => Owner(s) /\ row'.tier = row.tier /\ row'.status = row.status
          /\ Owner(s) /\ ~Owner(s)' => newest = f /\ pc[f] = "reclaim" /\ s = stored[f]
      BY <2>3, <1>a, Elsewhere DEF PInv
    <3>2. Agrees(s) => Agrees(s)'
      <4>1. CASE Owner(s)' <=> Owner(s)
        BY <3>1, <4>1, <1>e, <1>o, AgreesStays
      <4>2. CASE Owner(s) /\ ~Owner(s)'
        <5>1. stripe[s].st \notin Entitling
          BY <3>1, <4>2, <1>2, <1>a DEF PInv, Displaces, Quiet
        <5> QED
          BY <5>1, <4>2, <1>e DEF Agrees, Owner
      <4> QED
        BY <3>1, <4>1, <4>2
    <3>3. Noted(s)'
      BY <2>1, <3>1, <1>e, <1>m DEF Right, Noted
    <3> QED
      BY <2>1, <3>2, <3>3, <1>e DEF Right
  <2> QED
    BY <2>2, <2>3
<1> QED
  BY <1>1, <1>2

----------------------------------------------------------------------------
(* The environment, and what holds at rest.                                  *)

\* All but the shared invariant.
Rest == Slot /\ Books /\ Debts /\ \A f \in Flow : PInv(f)

\* A step that leaves the books alone, and of the row what the books are about.
LEMMA BooksRest ==
  ASSUME DInv, UNCHANGED <<stripe, open, slips>>, \A s \in Sub : owed'[s] <=> owed[s],
         row'.provider = row.provider, row'.sub = row.sub,
         row'.tier = row.tier, row'.status = row.status, row'.source = row.source,
         row.trialOf # None => row'.trialOf # None
  PROVE  Slot' /\ Books' /\ Debts'
<1>1. Slot' /\ Books'
  BY DEF DInv, Slot, Books
<1>2. ASSUME NEW s \in Sub, ~owed'[s] PROVE Right(s)'
  <2>1. Right(s)
    BY <1>2 DEF DInv, Debts
  <2>2. Owner(s)' <=> Owner(s)
    BY DEF Owner
  <2> QED
    BY <2>1, <2>2, AgreesStays DEF Right, Noted
<1> QED
  BY <1>1, <1>2 DEF Debts

\* Flows that stay while nothing is sent to Stripe or heard from it.
LEMMA Unmoved ==
  ASSUME DInv, NEW g \in Flow,
         pc'[g] = pc[g], on'[g] = on[g], snap'[g] = snap[g], rec'[g] = rec[g],
         stored'[g] = stored[g], UNCHANGED <<stripe, open>>,
         newest' = g => newest = g /\ UNCHANGED owed,
         \A h \in Flow : heard'[h] => heard[h] /\ on'[h] = on[h],
         \A s \in Sub : Owner(s)' <=> Owner(s),
         row'.tier = row.tier, row'.status = row.status,
         row.trialOf # None => row'.trialOf # None,
         Sees(g)'
  PROVE  PInv(g)'
<1>1. Beside(g)
  BY DEF Beside
<1>2. Undisturbed(g)
  BY DEF Undisturbed, Quiet
<1>3. Unheard(g)
  <2>1. \A s \in Sub : Agrees(s) => Agrees(s)'
    BY AgreesStays
  <2> QED
    BY <2>1 DEF Unheard
<1> QED
  BY <1>1, <1>2, <1>3, Bystander

LEMMA DeliverRest ==
  ASSUME DInv, NEW f \in Flow, NEW s \in Sub, Deliver(f, s)
  PROVE  Rest'
<1>t. /\ pc \in [Flow -> PCs] /\ on \in [Flow -> Sub \cup Notice \cup {None}]
      /\ heard \in [Flow -> BOOLEAN]
  BY DEF DInv, SInv, TInv, FlowTypes
<1>1. /\ newest' = f /\ on' = [on EXCEPT ![f] = s] /\ pc' = [pc EXCEPT ![f] = "read"] /\ owed[s]
      /\ heard' = [g \in Flow |-> IF g = f THEN TRUE ELSE heard[g] /\ on[g] # s]
      /\ UNCHANGED <<row, stripe, owed, slips, open, snap, rec, stored>>
  BY DEF Deliver, Goto, stripeVars, locals
<1>2. Slot' /\ Books' /\ Debts'
  BY <1>1, BooksRest
<1>3. PInv(f)'
  <2>1. on'[f] = s /\ pc'[f] = "read" /\ \A g \in Flow \ {f} : heard'[g] => on'[g] # s
    BY <1>1, <1>t
  <2>2. Quiet(s, Flow \ {f})'
    BY <2>1, <1>1 DEF Quiet
  <2>3. Due(f)'
    BY <2>1, <2>2 DEF Due, Quiet
  <2> QED
    BY <2>1, <2>3 DEF PInv, Waits, UpToDate, Places, Sees, Displaces, Knowing, Working, Carrying,
       Beaten, Refusing, Settling
<1>4. ASSUME NEW g \in Flow, g # f PROVE PInv(g)'
  <2>0. PInv(g)
    BY DEF DInv
  <2>1. pc'[g] = pc[g] /\ on'[g] = on[g] /\ newest' # g
    BY <1>1, <1>4, <1>t
  <2>2. Beside(g) /\ Undisturbed(g)
    BY <1>1, <1>4, <2>1, <1>t DEF Beside, Undisturbed
  <2>3. Unheard(g)
    <3>1. \A x \in Sub : (Owner(x)' <=> Owner(x)) /\ (Agrees(x) => Agrees(x)')
      BY <1>1, AgreesStays DEF Owner
    <3> QED
      BY <3>1, <1>1 DEF Unheard
  <2>4. Sees(g)'
    BY <2>1 DEF Sees
  <2> QED
    BY <2>2, <2>3, <2>4, Bystander
<1> QED
  BY <1>2, <1>3, <1>4 DEF Rest

LEMMA TakeRest ==
  ASSUME DInv, NEW f \in Flow, NEW m \in mail, Take(f, m)
  PROVE  Rest'
<1>t. /\ pc \in [Flow -> PCs] /\ on \in [Flow -> Sub \cup Notice \cup {None}]
      /\ heard \in [Flow -> BOOLEAN]
  BY DEF DInv, SInv, TInv, FlowTypes
<1>1. /\ newest' = f /\ on' = [on EXCEPT ![f] = m] /\ pc' = [pc EXCEPT ![f] = "match"]
      /\ UNCHANGED <<row, stripe, owed, slips, open, heard, snap, rec, stored>>
  BY DEF Take, Goto, stripeVars, locals
<1>h. ~heard[f]
  BY DEF Take, DInv, PInv, Waits, Working
<1>2. Slot' /\ Books' /\ Debts'
  BY <1>1, BooksRest
<1>3. PInv(f)'
  <2>1. pc'[f] = "match" /\ ~heard'[f]
    BY <1>1, <1>t, <1>h
  <2> QED
    BY <2>1 DEF PInv, Waits, Due, UpToDate, Places, Sees, Displaces, Knowing, Working, Carrying,
       Beaten, Refusing, Settling
<1>4. ASSUME NEW g \in Flow, g # f PROVE PInv(g)'
  <2>1. pc'[g] = pc[g] /\ on'[g] = on[g] /\ newest' # g
    BY <1>1, <1>4, <1>t
  <2>2. Sees(g)'
    BY <2>1 DEF Sees
  <2>3. /\ \A h \in Flow : heard'[h] => heard[h] /\ on'[h] = on[h]
        /\ \A s \in Sub : Owner(s)' <=> Owner(s)
    BY <1>1, <1>t, <1>h DEF Owner
  <2> QED
    BY <1>1, <2>1, <2>2, <2>3, Unmoved
<1> QED
  BY <1>2, <1>3, <1>4 DEF Rest

LEMMA DeliveryRest ==
  ASSUME DInv, NEW f \in Flow, Match(f) \/ Send(f) \/ Fail(f)
  PROVE  Rest'
<1>a. SInv /\ TInv /\ PInv(f)
  BY DEF DInv, SInv
<1>t. /\ pc \in [Flow -> PCs] /\ on \in [Flow -> Sub \cup Notice \cup {None}]
      /\ heard \in [Flow -> BOOLEAN] /\ stored \in [Flow -> Sub \cup {None}]
  BY <1>a DEF TInv, FlowTypes
<1>1. UNCHANGED <<row, stripe, owed, slips, open>>
  BY DEF Match, Send, Fail, Abort
<1>2. Slot' /\ Books' /\ Debts'
  BY <1>1, BooksRest
<1> DEFINE Checked == /\ pc[f] = "match" /\ Goto(f, "send")
                      /\ UNCHANGED <<newest, on, heard, snap, rec, stored>>
<1>3. Leave(f) \/ Checked
  BY DEF Match, Send, Fail, Abort, lockVars, locals
<1>4. PInv(f)'
  <2>1. CASE Leave(f)
    BY <2>1, OverKeeps
  <2>2. CASE Checked
    <3>1. pc'[f] = "send" /\ ~heard'[f]
      BY <2>2, <1>t, <1>a DEF Goto, PInv, Waits, Working, Carrying
    <3> QED
      BY <3>1 DEF PInv, Waits, Due, UpToDate, Places, Sees, Displaces, Knowing, Working, Carrying,
         Beaten, Refusing, Settling
  <2> QED
    BY <1>3, <2>1, <2>2
<1>5. ASSUME NEW g \in Flow, g # f PROVE PInv(g)'
  <2>1. /\ newest' = newest /\ pc'[g] = pc[g] /\ on'[g] = on[g] /\ snap'[g] = snap[g]
        /\ rec'[g] = rec[g] /\ stored'[g] = stored[g]
        /\ \A h \in Flow : heard'[h] => heard[h] /\ on'[h] = on[h]
    <3>1. CASE Leave(f)
      BY <3>1, <1>5, <1>a, <1>t, Ends DEF Leave
    <3>2. CASE Checked
      BY <3>2, <1>5, <1>t DEF Goto
    <3> QED
      BY <1>3, <3>1, <3>2
  <2>2. Sees(g)'
    BY <2>1, <1>1, SeesStays DEF DInv, PInv
  <2>3. \A s \in Sub : Owner(s)' <=> Owner(s)
    BY <1>1 DEF Owner
  <2> QED
    BY <1>1, <2>1, <2>2, <2>3, Unmoved
<1> QED
  BY <1>2, <1>4, <1>5 DEF Rest

LEMMA MovesRest ==
  ASSUME DInv, NEW s \in Sub, StripeMoves(s)
  PROVE  Rest'
<1>t. /\ stripe \in [Sub -> Record] /\ world \in Worlds /\ owed \in [Sub -> BOOLEAN]
      /\ heard \in [Flow -> BOOLEAN] /\ slips \subseteq {"stamp", "reclaim"} \X Sub
  BY DEF DInv, SInv, TInv, DataTypes, Tables, FlowTypes
<1>1. PICK m \in world.moves :
        /\ stripe[s].st = m[1]
        /\ stripe' = [stripe EXCEPT ![s].st = m[2], ![s].tried = @ \/ m[2] = "trialing"]
  BY DEF StripeMoves
<1>2. /\ owed' = [owed EXCEPT ![s] = TRUE] /\ slips' = {x \in slips : x[2] # s}
      /\ heard' = [g \in Flow |-> heard[g] /\ on[g] # s]
      /\ UNCHANGED <<row, open, newest, pc, on, snap, rec, stored>>
  BY DEF StripeMoves, Changed, lockVars, locals
<1>3. /\ m[1] \notin Terminal /\ m[2] # "none"
      /\ m[2] \in NeverEntitled => m[1] \in {"none", "incomplete"}
  BY <1>t, WorldsAssumption, LifecycleAssumption DEF Terminal
<1>4. /\ stripe'[s].st = m[2] /\ stripe'[s].ending = stripe[s].ending
      /\ stripe'[s].tried = (stripe[s].tried \/ m[2] = "trialing")
      /\ \A x \in Sub \ {s} : stripe'[x] = stripe[x]
  BY <1>1, <1>t DEF Record
<1>5. Quiet(s, Flow)'
  BY <1>2, <1>t DEF Quiet
<1>6. Slot'
  BY <1>2 DEF DInv, Slot
<1>7. Books'
  <2> SUFFICES ASSUME NEW x \in Sub
               PROVE  /\ <<"exclusivity_conflict", x>> \in open => stripe'[x].st \in Terminal
                      /\ <<"ineligible_trial_rejected", x>> \in open => stripe'[x].ending
                      /\ stripe'[x].st \in {"none"} \cup NeverEntitled => ~stripe'[x].tried
    BY <1>2 DEF Books
  <2>1. /\ <<"exclusivity_conflict", x>> \in open => stripe[x].st \in Terminal
        /\ <<"ineligible_trial_rejected", x>> \in open => stripe[x].ending
        /\ stripe[x].st \in {"none"} \cup NeverEntitled => ~stripe[x].tried
    BY DEF DInv, Books
  <2> QED
    BY <2>1, <1>1, <1>3, <1>4 DEF NeverEntitled
<1>8. Debts'
  <2> SUFFICES ASSUME NEW x \in Sub, ~owed'[x] PROVE Right(x)'
    BY DEF Debts
  <2>1. x # s /\ ~owed[x]
    BY <1>2, <1>t
  <2>2. Right(x) /\ stripe'[x] = stripe[x]
    BY <2>1, <1>4 DEF DInv, Debts
  <2>3. \A y : <<y, x>> \in slips => <<y, x>> \in slips'
    BY <2>1, <1>2
  <2>4. Agrees(x) => Agrees(x)'
    BY <2>2, <1>2, AgreesStays DEF Owner
  <2> QED
    BY <2>2, <2>3, <2>4, <1>2 DEF Right, Noted, Owner
<1>9. ASSUME NEW g \in Flow PROVE PInv(g)'
  <2>1. Beside(g)
    BY <1>1, <1>2, <1>3, <1>4, <1>t DEF Beside
  <2>2. Undisturbed(g)
    <3>1. \A x \in Sub : Quiet(x, Flow \ {g}) => Quiet(x, Flow \ {g})'
      BY <1>2, <1>t DEF Quiet
    <3> QED
      BY <3>1, <1>4, <1>5 DEF Undisturbed
  <2>3. Unheard(g)
    <3> SUFFICES ASSUME heard'[g], NEW x \in Sub, x = on[g]
                 PROVE  stripe'[x] = stripe[x] /\ (Owner(x)' => Owner(x)) /\ (Agrees(x) => Agrees(x)')
      BY DEF Unheard
    <3>1. stripe'[x] = stripe[x]
      BY <1>2, <1>4
    <3> QED
      BY <3>1, <1>2, AgreesStays DEF Owner
  <2>4. Sees(g)'
    BY <1>2, SeesStays DEF DInv, PInv
  <2> QED
    BY <2>1, <2>2, <2>3, <2>4, Bystander
<1> QED
  BY <1>6, <1>7, <1>8, <1>9 DEF Rest

\* A completed checkout takes a free slot without the provider: nobody owns it before
\* or after.
LEMMA CheckoutRest ==
  ASSUME DInv, NEW s \in Sub, CheckoutCompleted(s)
  PROVE  Rest'
<1>r. row \in Row /\ s # None
  BY NoneFacts DEF DInv, SInv, TInv, DataTypes
<1>1. /\ row'.provider = row.provider /\ row'.sub = s /\ row'.status = row.status
      /\ row'.tier = row.tier /\ row'.source = row.source /\ row'.trialOf = row.trialOf
  BY <1>r DEF CheckoutCompleted, Row
<1>2. /\ row.provider # "store" /\ row.sub \in {None, s}
      /\ UNCHANGED <<stripe, owed, slips, open, newest, pc, on, heard, snap, rec, stored>>
  BY DEF CheckoutCompleted, Claimable, stripeVars, lockVars, locals
<1>3. \A x \in Sub : Owner(x)' <=> Owner(x)
  BY <1>1, <1>2 DEF DInv, SInv, RInv, Owner
<1>4. Slot' /\ Books'
  BY <1>1, <1>2 DEF DInv, Slot, Books
<1>5. Debts'
  <2>1. \A x \in Sub : Agrees(x) => Agrees(x)'
    BY <1>1, <1>2, <1>3, AgreesStays
  <2> QED
    BY <2>1, <1>1, <1>2, <1>3 DEF DInv, Debts, Right, Noted
<1>6. ASSUME NEW g \in Flow PROVE PInv(g)'
  <2>1. Sees(g)
    BY DEF DInv, PInv
  <2>2. /\ NewStatus(g)' = NewStatus(g) /\ (Consumed(g)' <=> Consumed(g))
        /\ Claimable(row, on[g])' => Claimable(row, on[g])
    BY <1>1, <1>2 DEF NewStatus, statusFromSubscription, Consumed, Trialing, Claimable
  <2>3. Sees(g)'
    BY <2>1, <2>2, <1>1, <1>2 DEF Sees
  <2> QED
    BY <1>1, <1>2, <1>3, <2>3, Unmoved
<1> QED
  BY <1>4, <1>5, <1>6 DEF Rest

LEMMA EventRest ==
  ASSUME DInv, NEW f \in Flow, EventStep(f)
  PROVE  Rest'
<1>1. Slot'
  BY SlotKept DEF DInv, PInv
<1>2. \A g \in Flow : PInv(g)'
  BY OwnPlaces, OtherFlows
<1> QED
  BY <1>1, <1>2, BooksStay, DebtsStay DEF Rest

LEMMA DebtsStart == Init => DInv
<1> SUFFICES ASSUME Init PROVE DInv
  OBVIOUS
<1>1. /\ row = world.row /\ world \in Worlds /\ open = {}
      /\ \A s \in Sub : stripe[s] = NoRec
      /\ \A f \in Flow : pc[f] = "idle" /\ heard[f] = FALSE
  BY DEF Init
<1>2. row.provider # "stripe" /\ row.sub = None
  BY <1>1, RowsAssumption
<1>3. Slot /\ Books /\ Debts
  BY <1>1, <1>2 DEF Slot, Books, Debts, Right, Noted, Agrees, Owner, NoRec, Entitling, Terminal
<1>4. \A f \in Flow : PInv(f)
  BY <1>1 DEF PInv, Waits, Due, UpToDate, Places, Sees, Displaces, Knowing, Working,
     Beaten, Refusing, Settling
<1> QED
  BY <1>3, <1>4, StartFacts DEF DInv

LEMMA DebtsKept == DInv /\ [Next]_vars => DInv'
<1> SUFFICES ASSUME DInv, [Next]_vars PROVE DInv'
  OBVIOUS
<1>s. SInv'
  BY Kept DEF DInv
<1>1. ASSUME UNCHANGED <<stripe, owed, slips, open, pc, on, heard, snap, rec, stored>>,
             newest' = newest \/ newest' = None, row'.provider = row.provider,
             row'.sub = row.sub, row'.tier = row.tier, row'.status = row.status,
             row'.source = row.source, row.trialOf # None => row'.trialOf # None,
             newest' = newest => row' = row
      PROVE Rest'
  <2>1. Slot' /\ Books' /\ Debts'
    BY <1>1, BooksRest
  <2>2. ASSUME NEW g \in Flow PROVE PInv(g)'
    <3>1. newest' = g => newest = g /\ row' = row
      BY <1>1, NoneFacts
    <3>2. Sees(g)'
      BY <1>1, <3>1, SeesStays DEF DInv, PInv
    <3>3. \A s \in Sub : Owner(s)' <=> Owner(s)
      BY <1>1 DEF Owner
    <3> QED
      BY <1>1, <3>1, <3>2, <3>3, Unmoved
  <2> QED
    BY <2>1, <2>2 DEF Rest
<1>2. ASSUME StoreTrial PROVE Rest'
  <2>1. /\ newest' = None /\ row.trialOf = None
        /\ UNCHANGED <<stripe, owed, slips, open, pc, on, heard, snap, rec, stored>>
    BY <1>2 DEF StoreTrial, stripeVars, locals
  <2>2. /\ row'.provider = row.provider /\ row'.sub = row.sub /\ row'.status = row.status
        /\ row'.tier = row.tier /\ row'.source = row.source
    BY <1>2 DEF StoreTrial, DInv, SInv, TInv, DataTypes, Row
  <2>3. CASE newest # None
    BY <2>1, <2>2, <2>3, <1>1
  <2>4. CASE newest = None
    <3>1. Slot' /\ Books' /\ Debts'
      BY <2>1, <2>2, BooksRest
    <3>2. ASSUME NEW g \in Flow PROVE PInv(g)'
      <4>1. newest' # g
        BY <2>1, NoneFacts
      <4>2. Sees(g)'
        BY <4>1 DEF Sees
      <4>3. \A s \in Sub : Owner(s)' <=> Owner(s)
        BY <2>2 DEF Owner
      <4> QED
        BY <2>1, <2>2, <4>1, <4>2, <4>3, Unmoved
    <3> QED
      BY <3>1, <3>2 DEF Rest
  <2> QED
    BY <2>3, <2>4
<1>3. ASSUME Lapse \/ UNCHANGED vars PROVE Rest'
  BY <1>3, <1>1 DEF Lapse, vars, stripeVars, locals, lockVars
<1>4. Rest'
  <2>1. CASE \E f \in Flow :
              \/ EventStep(f) \/ Match(f) \/ Send(f) \/ Fail(f)
              \/ (\E s \in Sub : Deliver(f, s)) \/ \E m \in mail : Take(f, m)
    BY <2>1, EventRest, DeliveryRest, DeliverRest, TakeRest
  <2>2. CASE \E s \in Sub : StripeMoves(s) \/ CheckoutCompleted(s)
    BY <2>2, MovesRest, CheckoutRest
  <2> QED
    BY <2>1, <2>2, <1>2, <1>3 DEF Next
<1> QED
  BY <1>s, <1>4 DEF Rest, DInv

LEMMA DebtsAlways == Spec => []DInv
  BY DebtsStart, DebtsKept, PTL DEF Spec

\* Once every event is acknowledged, row and Stripe agree about every subscription, but
\* for one whose event a reclaim gave to another delivery: whatever was redelivered,
\* reordered, fenced out or cut short.
THEOREM RowSettles == Spec => []SettledRow
<1>1. DInv => SettledRow
  BY DEF DInv, Debts, Right, SettledRow, AtRest
<1> QED
  BY DebtsAlways, <1>1, PTL

\* A trial of the slot's owner is marked once every event is acknowledged, but for the
\* one whose stamp a fenced-out flush skipped.
THEOREM TrialsAreRemembered == Spec => []TrialsAreStamped
<1>1. DInv => TrialsAreStamped
  BY DEF DInv, Debts, Right, Noted, Owner, TrialsAreStamped, AtRest
<1> QED
  BY DebtsAlways, <1>1, PTL
=============================================================================
