--------------------------- MODULE RideStopProofs ---------------------------
(***************************************************************************)
(* Theorems of RideStop: its types, no ride let go of but through a known  *)
(* hole, no stop queued or sent for a ride that goes on, for every set of  *)
(* riders, rides and calls and every bound.                                *)
(***************************************************************************)
EXTENDS RideStop, TLAPS

StartType == [state : {"none", "open", "failed", "done"}, bearer : Who,
              owner : Who, ride : Ride \cup {NoRide}]
ReqType   == [state : {"none", "sent", "retried"}, bearer : Who, user : Who]
Stopping  == {"stop", "alert", "upload"}
CallType  == {h \in [pc : {"idle", "wait", "go", "stop", "alert", "upload"},
                     ride : Ride \cup {NoRide}, n : 0..MaxSessions] :
                h.pc \in Stopping => h.ride \in Ride}
DrainType == [todo : SUBSET Entry, cur : Ride \cup {NoRide}]
SessionType == [n : 0..MaxSessions, owner : Who, ride : Ride \cup {NoRide}]
ServerType  == [state : {"none", "active", "completed"}, owner : Who]
Single(p) == p \subseteq Entry /\ \A d, e \in p : d.ride = e.ride => d = e

\* The types by what changes together: the rider's side, the stops, of which each
\* call has a ride, the rest.
RiderTypes ==
  /\ auth \in Who /\ profile \in Who /\ tracking \in BOOLEAN
  /\ session \in SessionType /\ start \in [Numbers -> StartType]
StopTypes ==
  /\ Single(pending) /\ inFlight \in [Ride -> ReqType]
  /\ hud \in [Call -> CallType] /\ drain \in [Drain -> DrainType]
RestTypes ==
  /\ server \in [Ride -> ServerType] /\ holes \subseteq Ride
  /\ sessions \in 0..MaxSessions /\ faults \in 0..MaxFaults

TInv == RiderTypes /\ StopTypes /\ RestTypes

LEMMA TypeParts == TInv => TypeOK
  BY DEF TInv, TypeOK, RiderTypes, StopTypes, RestTypes, Single, StartType, ReqType, CallType,
         DrainType, SessionType, ServerType

LEMMA NoneFacts ==
  /\ NoReq \in ReqType /\ NoCall \in CallType /\ NoDrain \in DrainType
  /\ NoSession \in SessionType /\ NoStart \in StartType
  /\ Nobody \notin Rider /\ NoRide \notin Ride
  /\ MaxSessions \in Nat /\ MaxFaults \in Nat
  BY NobodyAssumption, BoundAssumption
     DEF NoReq, NoCall, NoDrain, NoSession, NoStart, ReqType, CallType, Stopping, DrainType,
         SessionType, StartType, Who

LEMMA WhoFacts == ASSUME RiderTypes PROVE Me \in Who /\ Owner \in Who
  BY DEF RiderTypes, SessionType, Me, Owner, Who

LEMMA Added ==
  ASSUME StopTypes, NEW r \in Ride, NEW u \in Who
  PROVE  /\ Single(addPending(r, u)) /\ pending \subseteq addPending(r, u)
         /\ \E e \in addPending(r, u) : e.ride = r
         /\ \A e \in addPending(r, u) : e \in pending \/ e.ride = r
<1>1. [ride |-> r, user |-> u] \in Entry
  BY DEF Entry
<1>2. CASE \E e \in pending : e.ride = r
  BY <1>2 DEF addPending, StopTypes
<1>3. CASE ~\E e \in pending : e.ride = r
  <2>1. addPending(r, u) = pending \cup {[ride |-> r, user |-> u]}
    BY <1>3 DEF addPending
  <2> QED
    BY <1>1, <1>3, <2>1 DEF StopTypes, Single
<1> QED
  BY <1>2, <1>3

\* A stop that is reconciled is queued or under way; other stops stay as they are.
LEMMA Reconciled ==
  ASSUME RiderTypes, StopTypes, NEW r \in Ride, NEW u \in Who, reconcileRideStop(r, u)
  PROVE  /\ Single(pending') /\ inFlight' \in [Ride -> ReqType]
         /\ pending \subseteq pending' /\ \A e \in pending' : e \in pending \/ e.ride = r
         /\ \A q \in Ride \ {r} : inFlight'[q] = inFlight[q]
         /\ inFlight[r] # NoReq => inFlight'[r] = inFlight[r]
         /\ inFlight[r] = NoReq /\ inFlight'[r] # NoReq =>
              inFlight'[r].user = u /\ (inFlight'[r].bearer \in {Nobody, u} \/ u = Nobody)
         /\ inFlight'[r] # NoReq \/ \E e \in pending' : e.ride = r
         /\ Resolved(r, u) => inFlight' = inFlight /\ \E e \in pending' : e.ride = r
         /\ pending' # pending => Resolved(r, u)
<1> DEFINE sent == [state |-> "sent", bearer |-> auth, user |-> u]
<1>1. sent \in ReqType /\ sent # NoReq /\ sent.bearer = auth /\ sent.user = u /\ sent.state = "sent"
  BY DEF RiderTypes, ReqType, NoReq
<1>2. CASE Resolved(r, u)
  <2>1. pending' = addPending(r, u) /\ inFlight' = inFlight
    BY <1>2 DEF reconcileRideStop, Resolved
  <2> QED
    BY <1>2, <2>1, Added DEF StopTypes
<1>3. CASE ~Resolved(r, u) /\ inFlight[r] # NoReq
  BY <1>3 DEF reconcileRideStop, StopTypes
<1>4. CASE ~Resolved(r, u) /\ inFlight[r] = NoReq
  <2>1. ~Foreign(u) /\ pending' = pending /\ inFlight' = [inFlight EXCEPT ![r] = sent]
    BY <1>4 DEF reconcileRideStop, Resolved
  <2>2. auth \in {Nobody, u} \/ u = Nobody
    BY <2>1 DEF Foreign
  <2> HIDE DEF sent
  <2> QED
    BY <1>1, <1>4, <2>1, <2>2 DEF StopTypes
<1> QED
  BY <1>2, <1>3, <1>4

\* The promise of r settles, in either way.
Settles(r) ==
  /\ inFlight' = [inFlight EXCEPT ![r] = NoReq]
  /\ hud' \in [Call -> CallType]
  /\ \A c \in Call :
       IF hud[c].pc = "stop" /\ hud[c].ride = r
       THEN hud'[c].ride \in {r, NoRide} /\ hud'[c].pc \in {"upload", "alert", "idle"}
       ELSE hud'[c] = hud[c]
  /\ drain' \in [Drain -> DrainType]
  /\ \A d \in Drain : drain'[d].todo = drain[d].todo /\ drain'[d].cur \in {drain[d].cur, NoRide}

LEMMA StoppedFacts ==
  ASSUME StopTypes, NEW r \in Ride, Stopped(r)
  PROVE  /\ Settles(r) /\ pending' = removePending(r) /\ Single(pending')
         /\ \A c \in Call : hud[c].pc = "stop" /\ hud[c].ride = r =>
              hud'[c].ride = r /\ hud'[c].pc = "upload"
<1>1. /\ pending' = removePending(r) /\ inFlight' = [inFlight EXCEPT ![r] = NoReq]
      /\ hud' = [c \in Call |-> IF hud[c].pc = "stop" /\ hud[c].ride = r
                                THEN [hud[c] EXCEPT !.pc = "upload"] ELSE hud[c]]
      /\ drain' = [d \in Drain |-> IF drain[d].cur = r
                                   THEN [drain[d] EXCEPT !.cur = NoRide] ELSE drain[d]]
  BY DEF Stopped, Settle
<1>2. Single(pending')
  BY <1>1 DEF removePending, Single, StopTypes
<1>3. ASSUME NEW c \in Call
      PROVE  /\ hud'[c] \in CallType
             /\ IF hud[c].pc = "stop" /\ hud[c].ride = r
                THEN hud'[c].ride = r /\ hud'[c].pc = "upload" ELSE hud'[c] = hud[c]
  BY <1>1 DEF StopTypes, CallType, Stopping
<1>4. ASSUME NEW d \in Drain
      PROVE  /\ drain'[d] \in DrainType /\ drain'[d].todo = drain[d].todo
             /\ drain'[d].cur \in {drain[d].cur, NoRide}
  BY <1>1 DEF StopTypes, DrainType
<1>5. hud' \in [Call -> CallType] /\ drain' \in [Drain -> DrainType]
  BY <1>1, <1>3, <1>4
<1> QED
  BY <1>1, <1>2, <1>3, <1>4, <1>5 DEF Settles

LEMMA FailedFacts ==
  ASSUME RiderTypes, StopTypes, NEW r \in Ride, Failed(r)
  PROVE  /\ Settles(r) /\ pending' = addPending(r, inFlight[r].user) /\ Single(pending')
         /\ \A c \in Call : hud[c].pc = "stop" /\ hud[c].ride = r =>
              IF isRiding THEN hud'[c].ride = r /\ hud'[c].pc = "alert" ELSE hud'[c] = NoCall
<1>1. /\ pending' = addPending(r, inFlight[r].user)
      /\ inFlight' = [inFlight EXCEPT ![r] = NoReq]
      /\ hud' = [c \in Call |-> IF hud[c].pc = "stop" /\ hud[c].ride = r
                                THEN IF isRiding THEN [hud[c] EXCEPT !.pc = "alert"] ELSE NoCall
                                ELSE hud[c]]
      /\ drain' = [d \in Drain |-> IF drain[d].cur = r
                                   THEN [drain[d] EXCEPT !.cur = NoRide] ELSE drain[d]]
  BY DEF Failed, Settle
<1>2. Single(pending')
  BY <1>1, Added DEF StopTypes, ReqType
<1>3. ASSUME NEW c \in Call
      PROVE  /\ hud'[c] \in CallType
             /\ IF hud[c].pc = "stop" /\ hud[c].ride = r
                THEN IF isRiding THEN hud'[c].ride = r /\ hud'[c].pc = "alert"
                                 ELSE hud'[c] = NoCall
                ELSE hud'[c] = hud[c]
  BY <1>1, NoneFacts DEF StopTypes, CallType, Stopping
<1>4. ASSUME NEW d \in Drain
      PROVE  /\ drain'[d] \in DrainType /\ drain'[d].todo = drain[d].todo
             /\ drain'[d].cur \in {drain[d].cur, NoRide}
  BY <1>1 DEF StopTypes, DrainType
<1>5. hud' \in [Call -> CallType] /\ drain' \in [Drain -> DrainType]
  BY <1>1, <1>3, <1>4
<1>6. NoCall.ride = NoRide /\ NoCall.pc = "idle"
  BY DEF NoCall
<1> QED
  BY <1>1, <1>2, <1>3, <1>4, <1>5, <1>6 DEF Settles

----------------------------------------------------------------------------
(* Types.                                                                    *)

LEMMA StartDrainFacts ==
  ASSUME StopTypes, NEW u \in Rider, StartDrain(u)
  PROVE  /\ drain' \in [Drain -> DrainType]
         /\ \A d \in Drain : drain'[d] = drain[d] \/
              (drain'[d].todo = Mine(u) /\ drain'[d].cur = NoRide)
<1>1. CASE UNCHANGED drain
  BY <1>1 DEF StopTypes
<1>2. CASE \E d \in Drain : drain[d] = NoDrain /\ drain' = [drain EXCEPT ![d].todo = Mine(u)]
  <2>1. PICK d \in Drain : drain[d] = NoDrain /\ drain' = [drain EXCEPT ![d].todo = Mine(u)]
    BY <1>2
  <2>2. Mine(u) \in SUBSET Entry
    BY DEF Mine, StopTypes, Single
  <2>3. drain[d].cur = NoRide
    BY <2>1 DEF NoDrain
  <2> QED
    BY <2>1, <2>2, <2>3 DEF StopTypes, DrainType
<1> QED
  BY <1>1, <1>2 DEF StartDrain

\* A call that goes on with its stop.
LEMMA StopKnownFacts ==
  ASSUME RiderTypes, StopTypes, NEW c \in Call, NEW r \in Ride, NEW u \in Who, StopKnown(c, r, u)
  PROVE  /\ reconcileRideStop(r, u) /\ UNCHANGED <<session, holes>>
         /\ hud' \in [Call -> CallType] /\ hud'[c].ride = r
         /\ hud'[c].pc = IF Resolved(r, u) THEN "upload" ELSE "stop"
         /\ \A o \in Call \ {c} : hud'[o] = hud[o]
<1> DEFINE new == [pc |-> IF Resolved(r, u) THEN "upload" ELSE "stop", ride |-> r, n |-> 0]
<1>1. new \in CallType
  BY NoneFacts DEF CallType, Stopping
<1>2. new.ride = r /\ new.pc = IF Resolved(r, u) THEN "upload" ELSE "stop"
  OBVIOUS
<1>3. reconcileRideStop(r, u) /\ UNCHANGED <<session, holes>> /\ hud' = [hud EXCEPT ![c] = new]
  BY DEF StopKnown
<1> HIDE DEF new
<1> QED
  BY <1>1, <1>2, <1>3 DEF StopTypes

\* One that ends, and takes the session with it.
LEMMA EndFacts ==
  ASSUME RiderTypes, StopTypes, holes \subseteq Ride, NEW c \in Call, NEW r \in Ride \cup {NoRide},
         stopRideAction(r), hud' = [hud EXCEPT ![c] = NoCall]
  PROVE  /\ hud' \in [Call -> CallType] /\ session' = NoSession /\ session' \in SessionType
         /\ holes' \subseteq Ride /\ holes \subseteq holes'
         /\ session.ride \notin {NoRide, r} => session.ride \in holes'
         /\ hud'[c] = NoCall /\ \A o \in Call \ {c} : hud'[o] = hud[o]
  BY NoneFacts DEF stopRideAction, RiderTypes, SessionType, StopTypes

LEMMA TypesKept == TInv /\ [Next]_vars => TInv'
<1> SUFFICES ASSUME TInv, [Next]_vars PROVE TInv'
  OBVIOUS
<1> USE DEF bounds
<1>t. RiderTypes /\ StopTypes /\ RestTypes
  BY DEF TInv
<1>g. ASSUME RiderTypes', StopTypes', RestTypes' PROVE TInv'
  BY <1>g DEF TInv
<1>w. Me \in Who /\ Owner \in Who
  BY <1>t, WhoFacts
<1>f. Fault => faults' \in 0..MaxFaults
  BY <1>t, NoneFacts DEF Fault, RestTypes
<1>c. ASSUME NEW r \in Ride PROVE Completed(r) \in [Ride -> ServerType]
  BY <1>t DEF Completed, RestTypes, ServerType
<1>k. ASSUME NEW n \in Numbers, NEW o \in Who, kickOffApiStart(n, o)
      PROVE  start' \in [Numbers -> StartType]
  BY <1>t, <1>w, <1>k DEF kickOffApiStart, RiderTypes, StartType
<1>p. pendingStart \in 0..MaxSessions
  BY <1>t, NoneFacts DEF pendingStart, RestTypes
<1>1. ASSUME NEW r \in Ride, Answer(r) PROVE TInv'
  <2>1. StopTypes'
    <3>1. CASE Stopped(r)
      BY <3>1, <1>t, StoppedFacts DEF StopTypes, Settles, ReqType, NoReq, Who
    <3>2. CASE Failed(r)
      BY <3>2, <1>t, FailedFacts DEF StopTypes, Settles, ReqType, NoReq, Who
    <3> QED
      BY <3>1, <3>2, <1>1 DEF Answer
  <2>2. RestTypes'
    BY <1>1, <1>c, <1>t DEF Answer, RestTypes
  <2> QED
    BY <2>1, <2>2, <1>1, <1>g, <1>t DEF Answer, RiderTypes
<1>2. ASSUME NEW r \in Ride, NoAnswer(r) PROVE TInv'
  <2>1. StopTypes'
    BY <1>2, <1>t, FailedFacts DEF NoAnswer, StopTypes, Settles, ReqType, NoReq, Who
  <2>2. RestTypes'
    BY <1>2, <1>c, <1>f, <1>t DEF NoAnswer, RestTypes
  <2> QED
    BY <2>1, <2>2, <1>2, <1>g, <1>t DEF NoAnswer, RiderTypes
<1>3. ASSUME NEW r \in Ride, Expired(r) PROVE TInv'
  <2>1. StopTypes'
    <3>1. CASE Failed(r)
      BY <3>1, <1>t, FailedFacts DEF StopTypes, Settles, ReqType, NoReq, Who
    <3>2. CASE /\ inFlight' = [inFlight EXCEPT ![r].state = "retried", ![r].bearer = auth]
              /\ UNCHANGED <<pending, hud, drain>>
      BY <3>2, <1>t DEF StopTypes, ReqType, RiderTypes
    <3> QED
      BY <3>1, <3>2, <1>3 DEF Expired
  <2>2. RiderTypes' /\ RestTypes'
    BY <1>3, <1>t DEF Expired, RiderTypes, RestTypes, Who
  <2> QED
    BY <2>1, <2>2, <1>g
<1>4. ASSUME FreshStart PROVE TInv'
  <2>1. sessions + 1 \in Numbers /\ sessions + 1 \in 0..MaxSessions
    BY <1>4, <1>t, NoneFacts DEF FreshStart, RestTypes, Numbers
  <2>2. RiderTypes'
    <3>1. start' \in [Numbers -> StartType]
      BY <1>4, <1>k, <1>w, <2>1 DEF FreshStart
    <3> QED
      BY <3>1, <1>4, <1>t, <1>w, <2>1 DEF FreshStart, RiderTypes, SessionType
  <2> QED
    BY <2>1, <2>2, <1>4, <1>g, <1>t DEF FreshStart, StopTypes, RestTypes
<1>5. ASSUME RetryStart PROVE TInv'
  <2>1. session.n \in Numbers /\ session.owner \in Who
    BY <1>5, <1>t, NoneFacts DEF RetryStart, isRiding, RiderTypes, SessionType, Numbers
  <2>2. start' \in [Numbers -> StartType]
    BY <1>5, <1>k, <2>1 DEF RetryStart
  <2> QED
    BY <2>2, <1>5, <1>g, <1>t DEF RetryStart, RiderTypes, StopTypes, RestTypes
<1>6. ASSUME NEW n \in Numbers, NEW r \in Ride, StartLands(n, r) PROVE TInv'
  <2>1. start' \in [Numbers -> StartType]
    BY <1>6, <1>t DEF StartLands, RiderTypes, StartType
  <2>2. server' \in [Ride -> ServerType]
    BY <1>6, <1>t DEF StartLands, RiderTypes, RestTypes, ServerType, StartType
  <2> QED
    BY <2>1, <2>2, <1>6, <1>g, <1>t DEF StartLands, RiderTypes, StopTypes, RestTypes
<1>r. ASSUME NEW n \in Numbers, NEW r \in Ride \cup {NoRide}, Resume(n, r)
      PROVE  hud' \in [Call -> CallType]
  <2>1. n \in 0..MaxSessions
    BY NoneFacts DEF Numbers
  <2> QED
    BY <2>1, <1>r, <1>t DEF Resume, StopTypes, CallType, Stopping
<1>7. ASSUME NEW n \in Numbers, StartOk(n) PROVE TInv'
  <2>0. start[n].ride \in Ride /\ start[n].owner \in Who
    BY <1>7, <1>t DEF StartOk, RiderTypes, StartType
  <2>1. start' \in [Numbers -> StartType] /\ session' \in SessionType
    BY <1>7, <1>t, <2>0 DEF StartOk, RiderTypes, StartType, SessionType
  <2>2. Single(pending') /\ inFlight' \in [Ride -> ReqType]
    <3>1. CASE session.n = n
      BY <3>1, <1>7, <1>t DEF StartOk, StopTypes
    <3>2. CASE reconcileRideStop(start[n].ride, start[n].owner)
      BY <3>2, <1>t, <2>0, Reconciled
    <3> QED
      BY <3>1, <3>2, <1>7 DEF StartOk
  <2>3. hud' \in [Call -> CallType]
    BY <1>7, <1>r, <2>0 DEF StartOk
  <2> QED
    BY <2>1, <2>2, <2>3, <1>7, <1>g, <1>t DEF StartOk, RiderTypes, StopTypes, RestTypes
<1>8. ASSUME NEW n \in Numbers, StartFails(n) PROVE TInv'
  <2>1. start' \in [Numbers -> StartType] /\ holes' \subseteq Ride
    BY <1>8, <1>t DEF StartFails, RiderTypes, StartType, RestTypes
  <2>2. hud' \in [Call -> CallType]
    BY <1>8, <1>r DEF StartFails
  <2>3. faults' \in 0..MaxFaults
    BY <1>8, <1>f, <1>t DEF StartFails, RestTypes
  <2> QED
    BY <2>1, <2>2, <2>3, <1>8, <1>g, <1>t DEF StartFails, RiderTypes, StopTypes, RestTypes
<1>s. ASSUME NEW c \in Call, NEW r \in Ride, StopKnown(c, r, Owner),
             UNCHANGED <<auth, profile, tracking, start, drain, server, bounds>>
      PROVE  TInv'
  <2>1. StopTypes'
    BY <1>s, <1>t, <1>w, StopKnownFacts, Reconciled DEF StopTypes
  <2> QED
    BY <2>1, <1>s, <1>g, <1>t, <1>w, StopKnownFacts DEF RiderTypes, RestTypes
<1>e. ASSUME NEW c \in Call, NEW r \in Ride \cup {NoRide},
             stopRideAction(r), hud' = [hud EXCEPT ![c] = NoCall],
             UNCHANGED <<auth, profile, tracking, start, pending, inFlight, drain, server, bounds>>
      PROVE  TInv'
  BY <1>e, <1>g, <1>t, EndFacts DEF RiderTypes, StopTypes, RestTypes
<1>9. ASSUME NEW c \in Call, TapStop(c) PROVE TInv'
  <2>1. CASE session.ride # NoRide
    BY <2>1, <1>9, <1>s, <1>t DEF TapStop, RiderTypes, SessionType
  <2>2. CASE StopUnknown(c)
    BY <2>2, <1>9, <1>e DEF TapStop, StopUnknown
  <2>3. CASE /\ hud' = [hud EXCEPT ![c] = [pc |-> "wait", ride |-> NoRide, n |-> pendingStart]]
            /\ UNCHANGED <<session, holes, pending, inFlight>>
    <3>1. hud' \in [Call -> CallType]
      BY <2>3, <1>t, <1>p DEF StopTypes, CallType, Stopping
    <3> QED
      BY <3>1, <2>3, <1>9, <1>g, <1>t DEF TapStop, RiderTypes, StopTypes, RestTypes
  <2> QED
    BY <2>1, <2>2, <2>3, <1>9 DEF TapStop
<1>10. ASSUME NEW c \in Call, HudGo(c) PROVE TInv'
  <2>1. CASE hud[c].ride # NoRide
    BY <2>1, <1>10, <1>s, <1>t DEF HudGo, StopTypes, CallType, Stopping
  <2>2. CASE StopUnknown(c)
    BY <2>2, <1>10, <1>e DEF HudGo, StopUnknown
  <2> QED
    BY <2>1, <2>2, <1>10 DEF HudGo
<1>11. ASSUME NEW c \in Call, Finish(c) \/ DiscardLocally(c) PROVE TInv'
  <2>1. hud[c].ride \in Ride \cup {NoRide}
    BY <1>t DEF StopTypes, CallType, Stopping
  <2> QED
    BY <2>1, <1>11, <1>e DEF Finish, DiscardLocally
<1>12. ASSUME NEW c \in Call, KeepRiding(c) PROVE TInv'
  <2>1. Single(pending') /\ hud' \in [Call -> CallType]
    BY <1>12, <1>t, NoneFacts
       DEF KeepRiding, cancelPendingRideStop, removePending, Single, StopTypes
  <2>2. holes' \subseteq Ride
    <3>1. hud[c].ride \in Ride
      BY <1>12, <1>t DEF KeepRiding, StopTypes, CallType, Stopping
    <3> QED
      BY <3>1, <1>12, <1>t DEF KeepRiding, RestTypes
  <2> QED
    BY <2>1, <2>2, <1>12, <1>g, <1>t DEF KeepRiding, RiderTypes, StopTypes, RestTypes
<1>13. ASSUME Kill PROVE TInv'
  <2>1. Single(pending') /\ inFlight' \in [Ride -> ReqType] /\ holes' \subseteq Ride
    <3>0. session.ride \in Ride \cup {NoRide}
      BY <1>t DEF RiderTypes, SessionType
    <3>1. CASE session.ride # NoRide /\ Owner # Nobody
      BY <3>0, <3>1, <1>13, <1>t, <1>w, Reconciled DEF Kill, RestTypes
    <3>2. CASE ~(session.ride # NoRide /\ Owner # Nobody)
      BY <3>0, <3>2, <1>13, <1>t DEF Kill, StopTypes, RestTypes
    <3> QED
      BY <3>1, <3>2
  <2> QED
    BY <2>1, <1>13, <1>g, <1>t, NoneFacts DEF Kill, RiderTypes, StopTypes, RestTypes
<1>14. ASSUME Unkill \/ SignOut PROVE TInv'
  BY <1>14, <1>g, <1>t DEF Unkill, SignOut, RiderTypes, StopTypes, RestTypes, Who
<1>15. ASSUME NEW u \in Rider, SignIn(u) PROVE TInv'
  BY <1>15, <1>g, <1>t, StartDrainFacts DEF SignIn, RiderTypes, StopTypes, RestTypes, Who
<1>16. ASSUME Foreground PROVE TInv'
  <2>1. auth \in Rider
    BY <1>16, <1>t DEF Foreground, RiderTypes, Who
  <2> QED
    BY <2>1, <1>16, <1>g, <1>t, StartDrainFacts DEF Foreground, RiderTypes, StopTypes, RestTypes
<1>17. ASSUME NEW d \in Drain, DrainNext(d) PROVE TInv'
  <2>1. PICK e \in drain[d].todo :
          /\ reconcileRideStop(e.ride, e.user)
          /\ drain' = [drain EXCEPT ![d] =
                         [todo |-> @.todo \ {e},
                          cur |-> IF Resolved(e.ride, e.user) THEN NoRide ELSE e.ride]]
    BY <1>17 DEF DrainNext
  <2>2. e \in Entry /\ e.ride \in Ride /\ e.user \in Who
    BY <1>t DEF StopTypes, DrainType, Entry
  <2>3. drain' \in [Drain -> DrainType]
    BY <2>1, <2>2, <1>t DEF StopTypes, DrainType
  <2>4. Single(pending') /\ inFlight' \in [Ride -> ReqType]
    BY <2>1, <2>2, <1>t, Reconciled
  <2> QED
    BY <2>3, <2>4, <1>17, <1>g, <1>t DEF DrainNext, RiderTypes, StopTypes, RestTypes
<1>18. ASSUME AppDies PROVE TInv'
  <2>1. PICK landed \in SUBSET {r \in Ride : inFlight[r] # NoReq} :
          server' = [r \in Ride |-> IF r \in landed THEN Completed(r)[r] ELSE server[r]]
    BY <1>18 DEF AppDies
  <2>2. server' \in [Ride -> ServerType]
    BY <2>1, <1>c, <1>t DEF RestTypes
  <2>3. RiderTypes' /\ StopTypes'
    BY <1>18, <1>t, NoneFacts DEF AppDies, RiderTypes, StopTypes
  <2>4. RestTypes'
    BY <2>2, <1>18, <1>f, <1>t DEF AppDies, RestTypes
  <2> QED
    BY <2>3, <2>4, <1>g
<1>19. CASE UNCHANGED vars
  BY <1>19, <1>g, <1>t DEF vars, phone, RiderTypes, StopTypes, RestTypes
<1> QED
  BY <1>1, <1>2, <1>3, <1>4, <1>5, <1>6, <1>7, <1>8, <1>9, <1>10, <1>11, <1>12, <1>13, <1>14,
     <1>15, <1>16, <1>17, <1>18, <1>19 DEF Next

LEMMA TypesStart == Init => TInv
  BY NoneFacts DEF Init, TInv, RiderTypes, StopTypes, RestTypes, Single, SessionType, ReqType,
                   StartType, DrainType, ServerType, Who, NoSession, NoStart, NoReq, NoCall, NoDrain, Numbers

\* Every variable keeps its type, and a ride has at most one queued stop.
THEOREM TypeCorrect == Spec => []TypeOK
  BY TypesStart, TypesKept, TypeParts, PTL DEF Spec

----------------------------------------------------------------------------
(* Sessions and starts.                                                      *)

\* The session is the last one; a ride it knows is the one its start was told.
Latest ==
  /\ session.n \in {0, sessions}
  /\ session.ride # NoRide => /\ session.n # 0 /\ start[session.n].ride = session.ride
                             /\ start[session.n].state = "done"
  /\ \A n \in Numbers : n > sessions => start[n] = NoStart
\* Starts have rides of their own, which the server knows.
Apart == \A m, n \in Numbers : m # n /\ start[m].ride # NoRide => start[m].ride # start[n].ride
Landed == \A n \in Numbers : start[n].ride # NoRide => server[start[n].ride].state # "none"
Owned == \A r \in Ride : server[r].state = "active" => server[r].owner \in Rider

AInv == TInv /\ Latest /\ Apart /\ Landed /\ Owned

\* What all other steps do to them: nothing, but for the end of a session or ride.
Calm ==
  /\ UNCHANGED <<start, sessions>>
  /\ session' \in {session, NoSession}
  /\ \A r \in Ride : server'[r] = server[r] \/
       (server[r].state = "active" /\ server'[r].state = "completed")

LEMMA ServerFacts ==
  ASSUME TInv, NEW r \in Ride, server' \in {server, Completed(r)}
  PROVE  \A q \in Ride : server'[q] = server[q] \/
           (q = r /\ server[q].state = "active" /\ server'[q].state = "completed"
            /\ server[q].owner = inFlight[q].bearer)
  BY DEF Completed, TInv, RestTypes, ServerType

LEMMA CalmSteps ==
  ASSUME TInv, Next
  PROVE  \/ FreshStart \/ RetryStart \/ AppDies
         \/ \E n \in Numbers : StartOk(n) \/ StartFails(n) \/ \E r \in Ride : StartLands(n, r)
         \/ Calm
<1> USE DEF bounds
<1>1. ASSUME NEW r \in Ride, Answer(r) \/ NoAnswer(r) \/ Expired(r) PROVE Calm
  <2>1. server' \in {server, Completed(r)}
    BY <1>1 DEF Answer, NoAnswer, Expired
  <2> QED
    BY <2>1, <1>1, ServerFacts DEF Answer, NoAnswer, Expired, Calm
<1>2. ASSUME NEW c \in Call,
             TapStop(c) \/ HudGo(c) \/ Finish(c) \/ DiscardLocally(c) \/ KeepRiding(c)
      PROVE  Calm
  BY <1>2 DEF TapStop, HudGo, Finish, DiscardLocally, KeepRiding, StopKnown, StopUnknown,
              stopRideAction, Calm
<1>3. ASSUME Kill \/ Unkill \/ SignOut \/ Foreground PROVE Calm
  BY <1>3 DEF Kill, Unkill, SignOut, Foreground, Calm
<1>4. ASSUME NEW u \in Rider, SignIn(u) PROVE Calm
  BY <1>4 DEF SignIn, Calm
<1>5. ASSUME NEW d \in Drain, DrainNext(d) PROVE Calm
  BY <1>5 DEF DrainNext, Calm
<1> QED
  BY <1>1, <1>2, <1>3, <1>4, <1>5 DEF Next

LEMMA AStart == Init => AInv
  BY TypesStart, NoneFacts DEF Init, AInv, Latest, Apart, Landed, Owned, NoSession, NoStart

LEMMA AKept == AInv /\ [Next]_vars => AInv'
<1> SUFFICES ASSUME AInv, [Next]_vars PROVE AInv'
  OBVIOUS
<1> USE DEF bounds
<1>t. TInv /\ TInv'
  BY TypesKept DEF AInv
<1>y. /\ start \in [Numbers -> StartType] /\ session \in SessionType
      /\ sessions \in 0..MaxSessions /\ MaxSessions \in Nat
      /\ server \in [Ride -> ServerType]
  BY <1>t, NoneFacts DEF TInv, RiderTypes, RestTypes
<1>n. NoStart.ride = NoRide /\ NoStart.state = "none" /\ NoSession.ride = NoRide /\ NoSession.n = 0
  BY DEF NoStart, NoSession
<1> DEFINE Rest == Latest' /\ Apart' /\ Landed' /\ Owned'
\* A start that is sent anew has no ride yet.
<1>k. ASSUME NEW n \in Numbers, NEW o \in Who, kickOffApiStart(n, o), UNCHANGED server
      PROVE  /\ start'[n].ride = NoRide /\ \A m \in Numbers \ {n} : start'[m] = start[m]
             /\ Apart' /\ Landed' /\ Owned'
  <2>1. start'[n].ride = NoRide /\ \A m \in Numbers \ {n} : start'[m] = start[m]
    BY <1>k, <1>y DEF kickOffApiStart
  <2> QED
    BY <2>1, <1>k DEF Apart, Landed, Owned, AInv
<1>1. ASSUME FreshStart PROVE Rest
  <2>1. sessions + 1 \in Numbers /\ sessions' = sessions + 1
    BY <1>1, <1>y DEF FreshStart, Numbers
  <2>2. Me \in Who
    BY <1>t, WhoFacts DEF TInv
  <2>3. /\ \A m \in Numbers \ {sessions + 1} : start'[m] = start[m]
        /\ Apart' /\ Landed' /\ Owned'
    BY <1>1, <1>k, <2>1, <2>2 DEF FreshStart
  <2>4. session'.n = sessions + 1 /\ session'.ride = NoRide
    BY <1>1 DEF FreshStart
  <2>5. \A n \in Numbers : n > sessions + 1 => n \in Numbers \ {sessions + 1} /\ n > sessions
    BY <1>y DEF Numbers
  <2>6. Latest'
    BY <2>1, <2>3, <2>4, <2>5 DEF Latest, AInv
  <2> QED
    BY <2>3, <2>6
<1>2. ASSUME RetryStart PROVE Rest
  <2>1. session.n \in Numbers /\ session.owner \in Who /\ session.n = sessions
    BY <1>2, <1>y DEF RetryStart, isRiding, Numbers, SessionType, AInv, Latest
  <2>2. /\ \A m \in Numbers \ {session.n} : start'[m] = start[m]
        /\ Apart' /\ Landed' /\ Owned'
    BY <1>2, <1>k, <2>1 DEF RetryStart
  <2>3. session' = session /\ sessions' = sessions /\ session.ride = NoRide
    BY <1>2 DEF RetryStart
  <2>4. \A n \in Numbers : n > sessions => n \in Numbers \ {session.n}
    BY <2>1, <1>y DEF Numbers
  <2>5. Latest'
    BY <2>2, <2>3, <2>4 DEF Latest, AInv
  <2> QED
    BY <2>2, <2>5
<1>3. ASSUME NEW n \in Numbers, NEW r \in Ride, StartLands(n, r) PROVE Rest
  <2>1. /\ start[n].state = "open" /\ start[n].bearer \in Rider /\ server[r].state = "none"
        /\ start'[n].ride = r /\ \A m \in Numbers \ {n} : start'[m] = start[m]
        /\ server'[r].state = "active" /\ server'[r].owner = start[n].bearer
        /\ \A q \in Ride \ {r} : server'[q] = server[q]
        /\ session' = session /\ sessions' = sessions
    BY <1>3, <1>y DEF StartLands, StartType, Who
  <2>2. Apart'
    BY <2>1 DEF Apart, Landed, AInv
  <2>3. Landed' /\ Owned'
    BY <2>1, <1>y, NoneFacts DEF Landed, Owned, AInv, StartType
  <2>4. Latest'
    BY <2>1, <1>n, <1>y DEF Latest, AInv, SessionType, Numbers
  <2> QED
    BY <2>2, <2>3, <2>4
<1>4. ASSUME NEW n \in Numbers, StartOk(n) PROVE Rest
  <2>1. /\ start[n].state = "open" /\ start'[n].state = "done" /\ start'[n].ride = start[n].ride
        /\ \A m \in Numbers \ {n} : start'[m] = start[m]
        /\ UNCHANGED <<server, sessions>>
    BY <1>4, <1>y DEF StartOk, StartType
  <2>2. /\ session'.n = session.n
        /\ session'.ride = IF session.n = n THEN start[n].ride ELSE session.ride
    BY <1>4, <1>y DEF StartOk, SessionType
  <2>3. Apart' /\ Landed' /\ Owned'
    BY <2>1 DEF Apart, Landed, Owned, AInv
  <2>4. Latest'
    <3>1. n # 0
      BY DEF Numbers
    <3>2. session'.ride # NoRide => /\ session'.n # 0 /\ start'[session'.n].ride = session'.ride
                                   /\ start'[session'.n].state = "done"
      BY <2>1, <2>2, <3>1, <1>y DEF Latest, AInv, SessionType, Numbers
    <3>3. \A m \in Numbers : m > sessions => m # n
      BY <2>1, <1>n DEF Latest, AInv
    <3> QED
      BY <2>1, <2>2, <3>2, <3>3 DEF Latest, AInv
  <2> QED
    BY <2>3, <2>4
<1>5. ASSUME NEW n \in Numbers, StartFails(n) PROVE Rest
  <2>1. /\ start[n].state = "open" /\ start'[n].ride = start[n].ride
        /\ \A m \in Numbers \ {n} : start'[m] = start[m]
        /\ UNCHANGED <<server, sessions, session>>
    BY <1>5, <1>y DEF StartFails, StartType
  <2>2. Apart' /\ Landed' /\ Owned'
    BY <2>1 DEF Apart, Landed, Owned, AInv
  <2>3. Latest'
    BY <2>1, <1>n, <1>y DEF Latest, AInv, SessionType, Numbers
  <2> QED
    BY <2>2, <2>3
<1>6. ASSUME AppDies PROVE Rest
  <2>1. PICK landed \in SUBSET {r \in Ride : inFlight[r] # NoReq} :
          server' = [r \in Ride |-> IF r \in landed THEN Completed(r)[r] ELSE server[r]]
    BY <1>6 DEF AppDies
  <2>2. \A r \in Ride : server'[r].state = "active" => server'[r] = server[r]
    BY <2>1, <1>y DEF Completed, ServerType
  <2>3. session' = NoSession /\ sessions' = sessions /\ \A n \in Numbers : start'[n] = NoStart
    BY <1>6 DEF AppDies
  <2> QED
    BY <2>2, <2>3, <1>n DEF Latest, Apart, Landed, Owned, AInv
<1>7. ASSUME Calm PROVE Rest
  <2>1. Latest'
    BY <1>7, <1>n DEF Calm, Latest, AInv
  <2>2. Apart'
    BY <1>7 DEF Calm, Apart, AInv
  <2>3. Landed' /\ Owned'
    BY <1>7, <1>y DEF Calm, Landed, Owned, AInv, StartType
  <2> QED
    BY <2>1, <2>2, <2>3
<1>8. ASSUME UNCHANGED vars PROVE Rest
  <2>1. Calm
    BY <1>8 DEF vars, phone, Calm
  <2> QED
    BY <2>1, <1>7
<1> HIDE DEF Rest
<1>9. Rest
  BY <1>t, <1>1, <1>2, <1>3, <1>4, <1>5, <1>6, <1>7, <1>8, CalmSteps
<1> QED
  BY <1>9, <1>t DEF AInv, Rest

----------------------------------------------------------------------------
(* The ride that is recorded and its stops.                                  *)

\* The app has dealt with r.
Known(r) ==
  \/ session.ride = r \/ Queued(r) \/ inFlight[r] # NoReq
  \/ \E c \in Call : hud[c].ride = r
  \/ \E d \in Drain : \E e \in drain[d].todo : e.ride = r
\* It cannot have: r does not exist, or its start was not answered yet.
Fresh(r) ==
  server[r].state = "none" \/ \E n \in Numbers : start[n].state = "open" /\ start[n].ride = r

Unknown == \A r \in Ride : Fresh(r) => ~Known(r)
\* No drain is about to stop it.
DrainSafe == \A d \in Drain : \A e \in drain[d].todo : e.ride # session.ride
\* A request to stop it is a call's of the HUD.
StopHeld ==
  session.ride # NoRide /\ inFlight[session.ride] # NoReq =>
    \E c \in Call : hud[c].ride = session.ride /\ hud[c].pc = "stop"

BInv == AInv /\ Unknown /\ DrainSafe /\ StopHeld /\ KeptRideIsNotQueued

LEMMA KnownKept ==
  ASSUME TInv, Next, NEW r \in Ride, Known(r)'
  PROVE  Known(r) \/ \E n \in Numbers : StartOk(n) /\ start[n].ride = r
<1> USE DEF bounds
<1>t. RiderTypes /\ StopTypes /\ RestTypes
  BY DEF TInv
<1>n. /\ NoSession.ride = NoRide /\ NoCall.ride = NoRide /\ NoDrain.todo = {}
      /\ r # NoRide
  BY NoneFacts DEF NoSession, NoCall, NoDrain
<1>w. Owner \in Who
  BY <1>t, WhoFacts
<1>c. \A o \in Call : hud[o].ride = r => Known(r)
  BY DEF Known
<1>g. ASSUME session'.ride \in {session.ride, NoRide}, Queued(r)' => Known(r),
             inFlight'[r] # NoReq => Known(r),
             \A c \in Call : hud'[c].ride = r => Known(r),
             \A d \in Drain : \A e \in drain'[d].todo : e.ride = r => Known(r)
      PROVE  Known(r)
  BY <1>g, <1>n DEF Known
\* A stop that is reconciled is the stop of a ride that is known.
<1>k. ASSUME NEW q \in Ride, NEW u \in Who, reconcileRideStop(q, u), q = r => Known(r)
      PROVE  (Queued(r)' => Known(r)) /\ (inFlight'[r] # NoReq => Known(r))
  <2>1. /\ \A e \in pending' : e \in pending \/ e.ride = q
        /\ \A p \in Ride \ {q} : inFlight'[p] = inFlight[p]
    BY <1>k, <1>t, Reconciled
  <2> QED
    BY <2>1, <1>k DEF Known, Queued
<1>a. ASSUME UNCHANGED pending PROVE Queued(r)' => Known(r)
  BY <1>a DEF Queued, Known
<1>b. ASSUME UNCHANGED inFlight PROVE inFlight'[r] # NoReq => Known(r)
  BY <1>b DEF Known
<1>d. ASSUME UNCHANGED drain PROVE \A d \in Drain : \A e \in drain'[d].todo : e.ride = r => Known(r)
  BY <1>d DEF Known
<1>h. ASSUME UNCHANGED hud PROVE \A c \in Call : hud'[c].ride = r => Known(r)
  BY <1>h DEF Known
\* The promise of q settles.
<1>s. ASSUME NEW q \in Ride, Settles(q),
             pending' = removePending(q) \/ pending' = addPending(q, inFlight[q].user),
             inFlight[q] # NoReq, UNCHANGED session
      PROVE  Known(r)
  <2>1. inFlight[q].user \in Who
    BY <1>t DEF StopTypes, ReqType
  <2>2. Queued(r)' => Known(r)
    BY <2>1, <1>s, <1>t, Added DEF Queued, Known, removePending
  <2>3. \A c \in Call : hud'[c].ride = r => Known(r)
    BY <1>s, <1>n DEF Settles, Known
  <2>4. inFlight'[r] # NoReq => Known(r)
    BY <1>s, <1>t DEF Settles, Known, StopTypes
  <2>5. \A d \in Drain : \A e \in drain'[d].todo : e.ride = r => Known(r)
    BY <1>s DEF Settles, Known
  <2> QED
    BY <2>2, <2>3, <2>4, <2>5, <1>s, <1>g
<1>1. ASSUME NEW q \in Ride, Answer(q) \/ NoAnswer(q) \/ Expired(q) PROVE Known(r)
  <2>1. inFlight[q] # NoReq
    BY <1>1 DEF Answer, NoAnswer, Expired, NoReq
  <2>2. CASE Stopped(q) /\ UNCHANGED session
    BY <2>1, <2>2, <1>s, <1>t, StoppedFacts
  <2>3. CASE Failed(q) /\ UNCHANGED session
    BY <2>1, <2>3, <1>s, <1>t, FailedFacts
  <2>4. CASE /\ inFlight' = [inFlight EXCEPT ![q].state = "retried", ![q].bearer = auth]
            /\ UNCHANGED <<pending, hud, drain, session>>
    <3>1. inFlight'[r] # NoReq => Known(r)
      BY <2>1, <2>4, <1>t DEF StopTypes, Known
    <3> QED
      BY <3>1, <2>4, <1>a, <1>d, <1>h, <1>g
  <2> QED
    BY <1>1, <2>2, <2>3, <2>4 DEF Answer, NoAnswer, Expired
<1>2. ASSUME FreshStart \/ RetryStart \/ Unkill \/ SignOut PROVE Known(r)
  BY <1>2, <1>a, <1>b, <1>d, <1>h, <1>g DEF FreshStart, RetryStart, Unkill, SignOut
<1>3. ASSUME NEW n \in Numbers, NEW q \in Ride, StartLands(n, q) PROVE Known(r)
  BY <1>3, <1>a, <1>b, <1>d, <1>h, <1>g DEF StartLands
<1>4. ASSUME NEW n \in Numbers, StartOk(n), start[n].ride # r PROVE Known(r)
  <2>1. start[n].ride \in Ride /\ start[n].owner \in Who
    BY <1>4, <1>t DEF StartOk, RiderTypes, StartType
  <2>2. (Queued(r)' => Known(r)) /\ (inFlight'[r] # NoReq => Known(r))
    BY <2>1, <1>4, <1>a, <1>b, <1>k DEF StartOk
  <2>3. \A c \in Call : hud'[c].ride = r => Known(r)
    BY <1>4, <1>c DEF StartOk, Resume
  <2>4. session'.ride = r => Known(r)
    BY <1>4, <1>t DEF StartOk, RiderTypes, SessionType, Known
  <2>5. drain' = drain
    BY <1>4 DEF StartOk
  <2> QED
    BY <2>2, <2>3, <2>4, <2>5, <1>d DEF Known
<1>5. ASSUME NEW n \in Numbers, StartFails(n) PROVE Known(r)
  <2>1. \A c \in Call : hud'[c].ride = r => Known(r)
    BY <1>5, <1>c, <1>n DEF StartFails, Resume
  <2> QED
    BY <2>1, <1>5, <1>a, <1>b, <1>d, <1>g DEF StartFails
<1>6. ASSUME NEW c \in Call, NEW q \in Ride, StopKnown(c, q, Owner), UNCHANGED drain,
             q = r => Known(r)
      PROVE  Known(r)
  <2>1. /\ reconcileRideStop(q, Owner) /\ UNCHANGED session /\ hud'[c].ride = q
        /\ \A o \in Call \ {c} : hud'[o] = hud[o]
    BY <1>6, <1>t, <1>w, StopKnownFacts
  <2>2. \A o \in Call : hud'[o].ride = r => Known(r)
    BY <2>1, <1>6, <1>c
  <2> QED
    BY <2>1, <2>2, <1>6, <1>k, <1>d, <1>w, <1>g
<1>7. ASSUME NEW c \in Call, NEW q \in Ride \cup {NoRide}, stopRideAction(q),
             hud' = [hud EXCEPT ![c] = NoCall], UNCHANGED <<pending, inFlight, drain>>
      PROVE  Known(r)
  <2>1. session'.ride = NoRide /\ \A o \in Call : hud'[o].ride = r => Known(r)
    BY <1>7, <1>t, <1>n, <1>c, EndFacts DEF RestTypes
  <2> QED
    BY <2>1, <1>7, <1>a, <1>b, <1>d, <1>g
<1>8. ASSUME NEW c \in Call, TapStop(c) PROVE Known(r)
  <2>1. CASE session.ride # NoRide
    <3>1. session.ride \in Ride /\ (session.ride = r => Known(r))
      BY <2>1, <1>t DEF RiderTypes, SessionType, Known
    <3> QED
      BY <2>1, <3>1, <1>6, <1>8 DEF TapStop
  <2>2. CASE StopUnknown(c)
    BY <2>2, <1>7, <1>8 DEF TapStop, StopUnknown
  <2>3. CASE /\ hud' = [hud EXCEPT ![c] = [pc |-> "wait", ride |-> NoRide, n |-> pendingStart]]
            /\ UNCHANGED <<session, holes, pending, inFlight>>
    <3>1. \A o \in Call : hud'[o].ride = r => Known(r)
      BY <2>3, <1>t, <1>n, <1>c DEF StopTypes
    <3> QED
      BY <3>1, <2>3, <1>8, <1>a, <1>b, <1>d, <1>g DEF TapStop
  <2> QED
    BY <2>1, <2>2, <2>3, <1>8 DEF TapStop
<1>9. ASSUME NEW c \in Call, HudGo(c) PROVE Known(r)
  <2>1. CASE hud[c].ride # NoRide
    <3>1. hud[c].ride \in Ride
      BY <2>1, <1>t DEF StopTypes, CallType
    <3> QED
      BY <2>1, <3>1, <1>6, <1>9, <1>c DEF HudGo
  <2>2. CASE StopUnknown(c)
    BY <2>2, <1>7, <1>9 DEF HudGo, StopUnknown
  <2> QED
    BY <2>1, <2>2, <1>9 DEF HudGo
<1>10. ASSUME NEW c \in Call, Finish(c) \/ DiscardLocally(c) PROVE Known(r)
  <2>1. hud[c].ride \in Ride \cup {NoRide}
    BY <1>t DEF StopTypes, CallType
  <2> QED
    BY <2>1, <1>10, <1>7 DEF Finish, DiscardLocally
<1>11. ASSUME NEW c \in Call, KeepRiding(c) PROVE Known(r)
  <2>1. Queued(r)' => Known(r)
    BY <1>11 DEF KeepRiding, cancelPendingRideStop, removePending, Queued, Known
  <2>2. \A o \in Call : hud'[o].ride = r => Known(r)
    BY <1>11, <1>t, <1>n, <1>c DEF KeepRiding, StopTypes
  <2> QED
    BY <2>1, <2>2, <1>11, <1>b, <1>d, <1>g DEF KeepRiding
<1>12. ASSUME Kill PROVE Known(r)
  <2>1. (Queued(r)' => Known(r)) /\ (inFlight'[r] # NoReq => Known(r))
    <3>1. CASE session.ride # NoRide /\ Owner # Nobody
      <4>1. session.ride \in Ride /\ (session.ride = r => Known(r))
        BY <3>1, <1>t DEF RiderTypes, SessionType, Known
      <4> QED
        BY <3>1, <4>1, <1>12, <1>k, <1>w DEF Kill
    <3>2. CASE ~(session.ride # NoRide /\ Owner # Nobody)
      BY <3>2, <1>12, <1>a, <1>b DEF Kill
    <3> QED
      BY <3>1, <3>2
  <2> QED
    BY <2>1, <1>12, <1>d, <1>h, <1>n, <1>g DEF Kill
<1>13. ASSUME NEW u \in Rider, StartDrain(u), UNCHANGED <<session, pending, inFlight, hud>>
       PROVE  Known(r)
  <2>1. \A d \in Drain : \A e \in drain'[d].todo : e \in drain[d].todo \/ e \in pending
    BY <1>13, <1>t, StartDrainFacts DEF Mine
  <2>2. \A d \in Drain : \A e \in drain'[d].todo : e.ride = r => Known(r)
    BY <2>1 DEF Known, Queued
  <2> QED
    BY <2>2, <1>13, <1>a, <1>b, <1>h, <1>g
<1>14. ASSUME NEW u \in Rider, SignIn(u) PROVE Known(r)
  BY <1>14, <1>13 DEF SignIn
<1>15. ASSUME Foreground PROVE Known(r)
  <2>1. auth \in Rider
    BY <1>15, <1>t DEF Foreground, RiderTypes, Who
  <2> QED
    BY <2>1, <1>15, <1>13 DEF Foreground
<1>16. ASSUME NEW d \in Drain, DrainNext(d) PROVE Known(r)
  <2>1. PICK e \in drain[d].todo :
          /\ reconcileRideStop(e.ride, e.user)
          /\ drain' = [drain EXCEPT ![d] =
                         [todo |-> @.todo \ {e},
                          cur |-> IF Resolved(e.ride, e.user) THEN NoRide ELSE e.ride]]
    BY <1>16 DEF DrainNext
  <2>2. e.ride \in Ride /\ e.user \in Who /\ (e.ride = r => Known(r))
    BY <1>t DEF StopTypes, DrainType, Entry, Known
  <2>3. \A a \in Drain : \A f \in drain'[a].todo : f.ride = r => Known(r)
    BY <2>1, <1>t DEF StopTypes, DrainType, Known
  <2> QED
    BY <2>1, <2>2, <2>3, <1>16, <1>k, <1>h, <1>g DEF DrainNext
<1>17. ASSUME AppDies PROVE Known(r)
  BY <1>17, <1>n, <1>a, <1>g DEF AppDies
<1> QED
  BY <1>1, <1>2, <1>3, <1>4, <1>5, <1>8, <1>9, <1>10, <1>11, <1>12, <1>14, <1>15, <1>16, <1>17
     DEF Next

\* Only the answer to its start makes a ride known, and then it is not fresh any more.
LEMMA UnknownKept ==
  ASSUME AInv, AInv', Unknown, Next
  PROVE  Unknown'
<1> SUFFICES ASSUME NEW r \in Ride, Fresh(r)', Known(r)' PROVE FALSE
  BY DEF Unknown
<1> USE DEF bounds
<1>y. /\ start \in [Numbers -> StartType] /\ session \in SessionType
      /\ sessions \in 0..MaxSessions /\ MaxSessions \in Nat
      /\ server \in [Ride -> ServerType] /\ r # NoRide
  BY NoneFacts DEF AInv, TInv, RiderTypes, RestTypes
<1>1. CASE \E n \in Numbers : StartOk(n) /\ start[n].ride = r
  <2>1. PICK n \in Numbers : StartOk(n) /\ start[n].ride = r
    BY <1>1
  <2>2. /\ start'[n].state = "done" /\ start'[n].ride = r
        /\ \A m \in Numbers \ {n} : start'[m] = start[m]
    BY <2>1, <1>y DEF StartOk, StartType
  <2>3. server'[r].state # "none"
    BY <2>2, <1>y DEF AInv, Landed
  <2>4. ~\E m \in Numbers : start'[m].state = "open" /\ start'[m].ride = r
    BY <2>1, <2>2, <1>y DEF AInv, Apart
  <2> QED
    BY <2>3, <2>4 DEF Fresh
<1>2. CASE Known(r)
  <2>1. ~Fresh(r)
    BY <1>2 DEF Unknown
  <2>2. server[r].state # "none" /\ \A n \in Numbers : ~(start[n].state = "open" /\ start[n].ride = r)
    BY <2>1 DEF Fresh
  <2>3. ASSUME NEW n \in Numbers, NEW o \in Who, kickOffApiStart(n, o), UNCHANGED server PROVE FALSE
    <3>1. start'[n].ride = NoRide /\ \A m \in Numbers \ {n} : start'[m] = start[m]
      BY <2>3, <1>y DEF kickOffApiStart
    <3> QED
      BY <2>2, <2>3, <3>1, <1>y DEF Fresh
  <2>4. CASE FreshStart \/ RetryStart
    <3>1. CASE FreshStart
      <4>1. sessions + 1 \in Numbers /\ Me \in Who
        BY <3>1, <1>y, WhoFacts DEF FreshStart, Numbers, AInv, TInv
      <4> QED
        BY <4>1, <3>1, <2>3 DEF FreshStart
    <3>2. CASE RetryStart
      <4>1. session.n \in Numbers /\ session.owner \in Who
        BY <3>2, <1>y DEF RetryStart, isRiding, Numbers, SessionType
      <4> QED
        BY <4>1, <3>2, <2>3 DEF RetryStart
    <3> QED
      BY <2>4, <3>1, <3>2
  <2>5. ASSUME NEW n \in Numbers, NEW q \in Ride, StartLands(n, q) PROVE FALSE
    <3>1. /\ q # r /\ start'[n].ride = q /\ server'[r] = server[r]
          /\ \A m \in Numbers \ {n} : start'[m] = start[m]
      BY <2>5, <2>2, <1>y DEF StartLands
    <3> QED
      BY <3>1, <2>2 DEF Fresh
  <2>6. ASSUME NEW n \in Numbers, StartOk(n) \/ StartFails(n) PROVE FALSE
    <3>1. /\ start'[n].state # "open" /\ server' = server
          /\ \A m \in Numbers \ {n} : start'[m] = start[m]
      BY <2>6, <1>y DEF StartOk, StartFails, StartType
    <3> QED
      BY <3>1, <2>2 DEF Fresh
  <2>7. CASE Calm
    BY <2>7, <2>2 DEF Calm, Fresh
  <2>8. CASE AppDies
    <3>1. \A n \in Numbers : start'[n].state # "open"
      BY <2>8 DEF AppDies, NoStart
    <3>2. server'[r].state # "none"
      BY <2>8, <2>2, <1>y DEF AppDies, Completed, ServerType
    <3> QED
      BY <3>1, <3>2 DEF Fresh
  <2> QED
    BY <2>4, <2>5, <2>6, <2>7, <2>8, CalmSteps DEF AInv
<1> QED
  BY <1>1, <1>2, KnownKept DEF AInv

LEMMA BKept == BInv /\ [Next]_vars => BInv'
<1> SUFFICES ASSUME BInv, [Next]_vars PROVE BInv'
  OBVIOUS
<1> USE DEF bounds
<1>i. AInv /\ AInv' /\ Unknown /\ DrainSafe /\ StopHeld /\ KeptRideIsNotQueued
  BY AKept DEF BInv
<1>t. RiderTypes /\ StopTypes /\ RestTypes
  BY <1>i DEF AInv, TInv
<1>n. NoSession.ride = NoRide /\ NoCall.pc = "idle" /\ NoRide \notin Ride
  BY NoneFacts DEF NoSession, NoCall
<1>w. Owner \in Who
  BY <1>t, WhoFacts
<1>s. session.ride # NoRide => session.ride \in Ride /\ isRiding /\ start[session.n].ride = session.ride
                               /\ session.n \in Numbers /\ start[session.n].state = "done"
  BY <1>i, <1>t, NoneFacts DEF AInv, Latest, RiderTypes, SessionType, isRiding, Numbers
<1> DEFINE Safe == DrainSafe' /\ StopHeld' /\ KeptRideIsNotQueued'
           Ending == {"go", "stop", "alert", "upload"}
\* Without a ride there is nothing to show.
<1>z. ASSUME session'.ride = NoRide PROVE Safe
  <2>1. \A d \in Drain : \A e \in drain'[d].todo : e.ride \in Ride
    BY <1>i DEF AInv, TInv, StopTypes, DrainType, Entry
  <2> QED
    BY <2>1, <1>z, <1>n DEF DrainSafe, StopHeld, KeptRideIsNotQueued
<1>d. ASSUME UNCHANGED session,
             \A d \in Drain : \A e \in drain'[d].todo : e \in drain[d].todo \/ e.ride # session.ride
      PROVE  DrainSafe'
  BY <1>d, <1>i DEF DrainSafe
\* Nor when neither its stop nor the calls that end it change.
<1>u. ASSUME UNCHANGED session, Queued(session.ride)' => Queued(session.ride),
             session.ride # NoRide => inFlight'[session.ride] \in {inFlight[session.ride], NoReq},
             \A c \in Call : hud[c].ride = session.ride /\ hud[c].pc \in Ending => hud'[c] = hud[c]
      PROVE  StopHeld' /\ KeptRideIsNotQueued'
  <2>1. StopHeld'
    BY <1>u, <1>i DEF StopHeld
  <2>2. KeptRideIsNotQueued'
    BY <1>u, <1>i DEF KeptRideIsNotQueued
  <2> QED
    BY <2>1, <2>2
\* A call takes the stop of q over: q's or nobody's stop changes.
<1>k. ASSUME NEW c \in Call, NEW q \in Ride, StopKnown(c, q, Owner), UNCHANGED drain,
             hud[c].pc # "stop", hud[c].pc \in Ending => hud[c].ride = q \/ session.ride = q
      PROVE  Safe
  <2>1. /\ reconcileRideStop(q, Owner) /\ UNCHANGED session
        /\ hud'[c].ride = q /\ hud'[c].pc = IF Resolved(q, Owner) THEN "upload" ELSE "stop"
        /\ \A o \in Call \ {c} : hud'[o] = hud[o]
    BY <1>k, <1>t, <1>w, StopKnownFacts
  <2>2. /\ \A e \in pending' : e \in pending \/ e.ride = q
        /\ \A p \in Ride \ {q} : inFlight'[p] = inFlight[p]
        /\ Resolved(q, Owner) => inFlight' = inFlight
    BY <2>1, <1>t, <1>w, Reconciled
  <2>3. DrainSafe'
    BY <2>1, <1>k, <1>d
  <2>4. CASE session.ride = q
    <3>1. StopHeld'
      BY <2>1, <2>2, <2>4 DEF StopHeld, Resolved
    <3>2. KeptRideIsNotQueued'
      BY <2>1, <2>4 DEF KeptRideIsNotQueued
    <3> QED
      BY <3>1, <3>2, <2>3
  <2>5. CASE session.ride # q
    <3>1. Queued(session.ride)' => Queued(session.ride)
      BY <2>1, <2>2, <2>5 DEF Queued
    <3>2. session.ride # NoRide => inFlight'[session.ride] = inFlight[session.ride]
      BY <2>2, <2>5, <1>s
    <3>3. \A o \in Call : hud[o].ride = session.ride /\ hud[o].pc \in Ending => hud'[o] = hud[o]
      BY <2>1, <2>5, <1>k
    <3> QED
      BY <3>1, <3>2, <3>3, <2>1, <2>3, <1>u
  <2> QED
    BY <2>4, <2>5
\* The promise of q settles.
<1>f. ASSUME NEW q \in Ride, Settles(q), UNCHANGED session,
             \/ pending' = removePending(q)
             \/ /\ pending' = addPending(q, inFlight[q].user)
                /\ \A c \in Call : hud[c].pc = "stop" /\ hud[c].ride = q =>
                     IF isRiding THEN hud'[c].ride = q /\ hud'[c].pc = "alert" ELSE hud'[c] = NoCall,
             inFlight[q] # NoReq
      PROVE  Safe
  <2>1. inFlight[q].user \in Who
    BY <1>t DEF StopTypes, ReqType
  <2>2. DrainSafe'
    BY <1>f, <1>d DEF Settles
  <2>3. inFlight'[q] = NoReq /\ \A p \in Ride \ {q} : inFlight'[p] = inFlight[p]
    BY <1>f, <1>t DEF Settles, StopTypes
  <2>4. CASE session.ride = q
    <3>1. StopHeld'
      BY <2>3, <2>4, <1>f DEF StopHeld
    <3>2. KeptRideIsNotQueued'
      <4>1. CASE pending' = removePending(q)
        BY <4>1, <2>4, <1>f DEF KeptRideIsNotQueued, Queued, removePending
      <4>2. CASE pending' # removePending(q)
        <5>1. PICK c \in Call : hud[c].ride = q /\ hud[c].pc = "stop"
          BY <2>4, <1>f, <1>i, <1>n DEF StopHeld
        <5>2. hud'[c].ride = q /\ hud'[c].pc = "alert"
          BY <5>1, <4>2, <2>4, <1>f, <1>s, <1>n
        <5> QED
          BY <5>2, <2>4, <1>f DEF KeptRideIsNotQueued
      <4> QED
        BY <4>1, <4>2
    <3> QED
      BY <3>1, <3>2, <2>2
  <2>5. CASE session.ride # q
    <3>1. Queued(session.ride)' => Queued(session.ride)
      BY <2>1, <2>5, <1>f, <1>t, Added DEF Queued, removePending
    <3>2. session.ride # NoRide => inFlight'[session.ride] = inFlight[session.ride]
      BY <2>3, <2>5, <1>s
    <3>3. \A o \in Call : hud[o].ride = session.ride => hud'[o] = hud[o]
      BY <2>5, <1>f DEF Settles
    <3> QED
      BY <3>1, <3>2, <3>3, <2>2, <1>f, <1>u
  <2> QED
    BY <2>4, <2>5
<1>1. ASSUME NEW q \in Ride, Answer(q) \/ NoAnswer(q) \/ Expired(q) PROVE Safe
  <2>1. inFlight[q] # NoReq
    BY <1>1 DEF Answer, NoAnswer, Expired, NoReq
  <2>2. CASE Stopped(q) /\ UNCHANGED session
    BY <2>1, <2>2, <1>f, <1>t, StoppedFacts
  <2>3. CASE Failed(q) /\ UNCHANGED session
    BY <2>1, <2>3, <1>f, <1>t, FailedFacts
  <2>4. CASE /\ inFlight' = [inFlight EXCEPT ![q].state = "retried", ![q].bearer = auth]
            /\ UNCHANGED <<pending, hud, drain, session>>
    <3>1. \A p \in Ride : inFlight[p] = NoReq => inFlight'[p] = NoReq
      BY <2>1, <2>4, <1>t DEF StopTypes
    <3>2. DrainSafe'
      BY <2>4, <1>d
    <3>3. StopHeld'
      BY <3>1, <2>4, <1>i, <1>s DEF StopHeld
    <3>4. KeptRideIsNotQueued'
      BY <2>4, <1>i DEF KeptRideIsNotQueued, Queued
    <3> QED
      BY <3>2, <3>3, <3>4
  <2> QED
    BY <1>1, <2>2, <2>3, <2>4 DEF Answer, NoAnswer, Expired
<1>2. ASSUME FreshStart PROVE Safe
  BY <1>2, <1>z DEF FreshStart
<1>3. ASSUME UNCHANGED <<session, pending, inFlight, drain>>,
             \A c \in Call : hud[c].ride = session.ride /\ hud[c].pc \in Ending => hud'[c] = hud[c]
      PROVE  Safe
  BY <1>3, <1>d, <1>u DEF Queued
<1>4. ASSUME RetryStart \/ Unkill \/ SignOut PROVE Safe
  BY <1>4, <1>3 DEF RetryStart, Unkill, SignOut
<1>5. ASSUME NEW n \in Numbers, NEW q \in Ride, StartLands(n, q) PROVE Safe
  BY <1>5, <1>3 DEF StartLands
<1>6. ASSUME NEW n \in Numbers, StartOk(n) PROVE Safe
  <2>1. /\ start[n].ride \in Ride /\ start[n].owner \in Who /\ start[n].state = "open"
        /\ ~Known(start[n].ride)
    BY <1>6, <1>i, <1>t DEF StartOk, RiderTypes, StartType, Unknown, Fresh
  <2>2. \A c \in Call : hud[c].pc \in Ending => hud'[c] = hud[c]
    BY <1>6, <1>t DEF StartOk, Resume, StopTypes, CallType
  <2>3. drain' = drain
    BY <1>6 DEF StartOk
  <2>4. CASE session.n = n
    <3>1. session'.ride = start[n].ride /\ UNCHANGED <<pending, inFlight>>
      BY <2>4, <1>6, <1>t DEF StartOk, RiderTypes, SessionType
    <3>2. DrainSafe'
      BY <2>1, <2>3, <3>1 DEF DrainSafe, Known
    <3>3. StopHeld' /\ KeptRideIsNotQueued'
      BY <2>1, <3>1 DEF StopHeld, KeptRideIsNotQueued, Known, Queued
    <3> QED
      BY <3>2, <3>3
  <2>5. CASE session.n # n
    <3>1. reconcileRideStop(start[n].ride, start[n].owner) /\ UNCHANGED session
      BY <2>5, <1>6 DEF StartOk
    <3>2. session.ride # start[n].ride
      BY <2>1, <1>s, <1>n DEF Known
    <3>3. Queued(session.ride)' => Queued(session.ride)
      BY <2>1, <3>1, <3>2, <1>t, Reconciled DEF Queued
    <3>4. session.ride # NoRide => inFlight'[session.ride] = inFlight[session.ride]
      BY <2>1, <3>1, <3>2, <1>s, <1>t, Reconciled
    <3> QED
      BY <3>1, <3>3, <3>4, <2>2, <2>3, <1>d, <1>u
  <2> QED
    BY <2>4, <2>5
<1>7. ASSUME NEW n \in Numbers, StartFails(n) PROVE Safe
  <2>1. \A c \in Call : hud[c].pc \in Ending => hud'[c] = hud[c]
    BY <1>7, <1>t DEF StartFails, Resume, StopTypes, CallType
  <2> QED
    BY <2>1, <1>7, <1>3 DEF StartFails
<1>8. ASSUME NEW c \in Call, TapStop(c) PROVE Safe
  <2>1. CASE session.ride # NoRide
    BY <2>1, <1>8, <1>k, <1>s DEF TapStop
  <2>2. CASE session.ride = NoRide
    <3>1. session'.ride = NoRide
      BY <2>2, <1>8, <1>n DEF TapStop, StopUnknown, stopRideAction
    <3> QED
      BY <3>1, <1>z
  <2> QED
    BY <2>1, <2>2
<1>9. ASSUME NEW c \in Call, HudGo(c) PROVE Safe
  <2>1. CASE hud[c].ride # NoRide
    <3>1. hud[c].ride \in Ride
      BY <2>1, <1>t DEF StopTypes, CallType
    <3> QED
      BY <2>1, <3>1, <1>9, <1>k DEF HudGo
  <2>2. CASE StopUnknown(c)
    BY <2>2, <1>z, <1>n DEF StopUnknown, stopRideAction
  <2> QED
    BY <2>1, <2>2, <1>9 DEF HudGo
<1>10. ASSUME NEW c \in Call, Finish(c) \/ DiscardLocally(c) PROVE Safe
  BY <1>10, <1>z, <1>n DEF Finish, DiscardLocally, stopRideAction
<1>11. ASSUME NEW c \in Call, KeepRiding(c) PROVE Safe
  <2>1. /\ hud[c].pc = "alert" /\ pending' = removePending(hud[c].ride)
        /\ \A o \in Call \ {c} : hud'[o] = hud[o]
        /\ UNCHANGED <<session, inFlight, drain>>
    BY <1>11, <1>t DEF KeepRiding, cancelPendingRideStop, StopTypes
  <2>2. DrainSafe'
    BY <2>1, <1>d
  <2>3. StopHeld'
    BY <2>1, <1>i DEF StopHeld
  <2>4. KeptRideIsNotQueued'
    BY <2>1, <1>i DEF KeptRideIsNotQueued, Queued, removePending
  <2> QED
    BY <2>2, <2>3, <2>4
<1>12. ASSUME Kill \/ AppDies PROVE Safe
  BY <1>12, <1>z, <1>n DEF Kill, AppDies
<1>13. ASSUME NEW u \in Rider, StartDrain(u), UNCHANGED <<session, pending, inFlight, hud>>
       PROVE  Safe
  <2>1. \A d \in Drain : \A e \in drain'[d].todo : e \in drain[d].todo \/ e.ride # session.ride
    BY <1>13, <1>t, StartDrainFacts DEF Mine
  <2> QED
    BY <2>1, <1>13, <1>d, <1>u DEF Queued
<1>14. ASSUME NEW u \in Rider, SignIn(u) PROVE Safe
  BY <1>14, <1>13 DEF SignIn
<1>15. ASSUME Foreground PROVE Safe
  <2>1. auth \in Rider
    BY <1>15, <1>t DEF Foreground, RiderTypes, Who
  <2> QED
    BY <2>1, <1>15, <1>13 DEF Foreground
<1>16. ASSUME NEW d \in Drain, DrainNext(d) PROVE Safe
  <2>1. PICK e \in drain[d].todo :
          /\ reconcileRideStop(e.ride, e.user)
          /\ drain' = [drain EXCEPT ![d] =
                         [todo |-> @.todo \ {e},
                          cur |-> IF Resolved(e.ride, e.user) THEN NoRide ELSE e.ride]]
          /\ UNCHANGED <<session, hud>>
    BY <1>16 DEF DrainNext
  <2>2. e.ride \in Ride /\ e.user \in Who /\ e.ride # session.ride
    BY <1>t, <1>i DEF StopTypes, DrainType, Entry, DrainSafe
  <2>3. DrainSafe'
    BY <2>1, <1>d, <1>t DEF StopTypes, DrainType
  <2>4. Queued(session.ride)' => Queued(session.ride)
    BY <2>1, <2>2, <1>t, Reconciled DEF Queued
  <2>5. session.ride # NoRide => inFlight'[session.ride] = inFlight[session.ride]
    BY <2>1, <2>2, <1>s, <1>t, Reconciled
  <2> QED
    BY <2>1, <2>3, <2>4, <2>5, <1>u
<1>17. ASSUME UNCHANGED vars PROVE Safe
  BY <1>17, <1>3 DEF vars, phone
<1> HIDE DEF Safe
<1>18. Safe
  BY <1>1, <1>2, <1>4, <1>5, <1>6, <1>7, <1>8, <1>9, <1>10, <1>11, <1>12, <1>14, <1>15, <1>16,
     <1>17 DEF Next
<1>19. Unknown'
  <2>1. CASE Next
    BY <2>1, <1>i, UnknownKept
  <2>2. CASE UNCHANGED vars
    BY <2>2, <1>i DEF vars, phone, Unknown, Known, Fresh, Queued
  <2> QED
    BY <2>1, <2>2
<1> QED
  BY <1>18, <1>19, <1>i DEF BInv, Safe

LEMMA BStart == Init => BInv
  BY AStart, NoneFacts
     DEF Init, BInv, Unknown, Known, Fresh, Queued, DrainSafe, StopHeld, KeptRideIsNotQueued,
         NoSession, NoCall, NoDrain, NoStart

\* No stop is queued for the ride that is recorded, unless a call of the HUD is about to end it.
THEOREM KeptRide == Spec => []KeptRideIsNotQueued
<1>1. BInv => KeptRideIsNotQueued
  BY DEF BInv
<1> QED
  BY <1>1, BStart, BKept, PTL DEF Spec

\* Nobody but the rider asks for the end of the ride that is recorded: of a request that
\* is sent in a step, the state after the step has the call that waits for it.
THEOREM RiderStops == Spec => OnlyTheRiderStopsARecordedRide
<1> DEFINE ByTheRider ==
      \A r \in Ride :
        inFlight[r] = NoReq /\ inFlight'[r] # NoReq /\ session'.ride = r =>
          \E c \in Call : hud'[c].ride = r /\ hud'[c].pc = "stop"
<1>1. BInv' => ByTheRider
  BY NoneFacts DEF BInv, StopHeld
<1>2. BInv' => [ByTheRider]_vars
  BY <1>1
<1> QED
  BY <1>2, BStart, BKept, PTL DEF Spec, OnlyTheRiderStopsARecordedRide

----------------------------------------------------------------------------
(* No ride is let go of.                                                     *)

\* The first attempt of a stop carries the tokens of the rider it is for.
Sent ==
  \A r \in Ride : inFlight[r].state = "sent" =>
    inFlight[r].bearer \in {Nobody, inFlight[r].user} \/ inFlight[r].user = Nobody
\* A call that took a ride to its end leaves a record of it, or the ride is over.
Recorded(r) == Queued(r) \/ inFlight[r] # NoReq \/ r \in holes
Caught ==
  \A c \in Call :
    hud[c].pc \in {"upload", "alert"} /\ server[hud[c].ride].state = "active" => Recorded(hud[c].ride)

\* So it is after the step.
StillRecorded(r) == (\E e \in pending' : e.ride = r) \/ inFlight'[r] # NoReq \/ r \in holes'

CInv == BInv /\ Sent /\ Caught /\ NoOrphan

\* A ride that a stop settles as done is over, or is a known hole.
LEMMA DoneOrHole ==
  ASSUME BInv, Sent, NEW r \in Ride, Answer(r), inFlight[r].bearer # Nobody,
         server'[r].state = "active"
  PROVE  r \in holes'
<1>1. /\ server' = Completed(r) /\ inFlight[r].state \in {"sent", "retried"}
      /\ holes' = IF Misdirected(r) /\ inFlight[r].bearer \notin {Nobody, server[r].owner}
                  THEN holes \cup {r} ELSE holes
  BY DEF Answer
<1>2. server[r].state = "active" /\ server[r].owner # inFlight[r].bearer /\ server[r].owner # Nobody
  BY <1>1, NoneFacts DEF Completed, BInv, AInv, TInv, RestTypes, ServerType, Owned
<1>3. Misdirected(r)
  BY <1>1, <1>2 DEF Misdirected, Sent
<1> QED
  BY <1>1, <1>2, <1>3

LEMMA SentKept == CInv /\ [Next]_vars => Sent'
<1> SUFFICES ASSUME CInv, [Next]_vars PROVE Sent'
  OBVIOUS
<1>t. RiderTypes /\ StopTypes /\ RestTypes /\ Sent
  BY DEF CInv, BInv, AInv, TInv
<1>n. NoReq.state = "none"
  BY DEF NoReq
<1>w. Owner \in Who
  BY <1>t, WhoFacts
<1>u. ASSUME UNCHANGED inFlight PROVE Sent'
  BY <1>u, <1>t DEF Sent
<1>k. ASSUME NEW q \in Ride, NEW u \in Who, reconcileRideStop(q, u) PROVE Sent'
  <2>1. /\ \A p \in Ride \ {q} : inFlight'[p] = inFlight[p]
        /\ inFlight[q] # NoReq => inFlight'[q] = inFlight[q]
        /\ inFlight[q] = NoReq /\ inFlight'[q] # NoReq =>
             inFlight'[q].user = u /\ (inFlight'[q].bearer \in {Nobody, u} \/ u = Nobody)
    BY <1>k, <1>t, Reconciled
  <2> QED
    BY <2>1, <1>t, <1>n DEF Sent
<1>s. ASSUME NEW q \in Ride, inFlight' = [inFlight EXCEPT ![q] = NoReq] PROVE Sent'
  BY <1>s, <1>t, <1>n DEF Sent, StopTypes
<1>1. ASSUME NEW q \in Ride, Answer(q) \/ NoAnswer(q) \/ Expired(q) PROVE Sent'
  <2>1. CASE Stopped(q) \/ Failed(q)
    BY <2>1, <1>s DEF Stopped, Failed, Settle
  <2>2. CASE inFlight' = [inFlight EXCEPT ![q].state = "retried", ![q].bearer = auth]
    BY <2>2, <1>t DEF Sent, StopTypes, ReqType
  <2> QED
    BY <2>1, <2>2, <1>1 DEF Answer, NoAnswer, Expired
<1>2. ASSUME FreshStart \/ RetryStart \/ Unkill \/ SignOut \/ Foreground PROVE Sent'
  BY <1>2, <1>u DEF FreshStart, RetryStart, Unkill, SignOut, Foreground
<1>3. ASSUME NEW n \in Numbers, StartFails(n) \/ \E q \in Ride : StartLands(n, q) PROVE Sent'
  BY <1>3, <1>u DEF StartFails, StartLands
<1>4. ASSUME NEW n \in Numbers, StartOk(n) PROVE Sent'
  <2>1. start[n].ride \in Ride /\ start[n].owner \in Who
    BY <1>4, <1>t DEF StartOk, RiderTypes, StartType
  <2> QED
    BY <2>1, <1>4, <1>u, <1>k DEF StartOk
<1>5. ASSUME NEW c \in Call, TapStop(c) \/ HudGo(c) PROVE Sent'
  <2>1. ASSUME NEW q \in Ride, StopKnown(c, q, Owner) PROVE Sent'
    BY <2>1, <1>k, <1>w DEF StopKnown
  <2>2. session.ride \in Ride \cup {NoRide} /\ hud[c].ride \in Ride \cup {NoRide}
    BY <1>t DEF RiderTypes, SessionType, StopTypes, CallType
  <2> QED
    BY <2>1, <2>2, <1>5, <1>u DEF TapStop, HudGo, StopUnknown
<1>6. ASSUME NEW c \in Call, Finish(c) \/ DiscardLocally(c) \/ KeepRiding(c) PROVE Sent'
  BY <1>6, <1>u DEF Finish, DiscardLocally, KeepRiding
<1>7. ASSUME Kill PROVE Sent'
  <2>1. session.ride \in Ride \cup {NoRide}
    BY <1>t DEF RiderTypes, SessionType
  <2> QED
    BY <2>1, <1>7, <1>u, <1>k, <1>w DEF Kill
<1>8. ASSUME NEW u \in Rider, SignIn(u) PROVE Sent'
  BY <1>8, <1>u DEF SignIn
<1>9. ASSUME NEW d \in Drain, DrainNext(d) PROVE Sent'
  <2>1. \A e \in drain[d].todo : e.ride \in Ride /\ e.user \in Who
    BY <1>t DEF StopTypes, DrainType, Entry
  <2> QED
    BY <2>1, <1>9, <1>k DEF DrainNext
<1>10. ASSUME AppDies PROVE Sent'
  BY <1>10, <1>n DEF AppDies, Sent
<1>11. ASSUME UNCHANGED vars PROVE Sent'
  BY <1>11, <1>u DEF vars, phone
<1> QED
  BY <1>1, <1>2, <1>3, <1>4, <1>5, <1>6, <1>7, <1>8, <1>9, <1>10, <1>11 DEF Next

LEMMA CKept == CInv /\ [Next]_vars => CInv'
<1> SUFFICES ASSUME CInv, [Next]_vars PROVE CInv'
  OBVIOUS
<1> USE DEF bounds
<1>i. BInv /\ BInv' /\ Sent /\ Sent' /\ Caught /\ NoOrphan /\ Latest /\ Unknown
  BY BKept, SentKept DEF CInv, BInv, AInv
<1>t. RiderTypes /\ StopTypes /\ RestTypes /\ TInv
  BY <1>i DEF BInv, AInv, TInv
<1>n. NoSession.ride = NoRide /\ NoCall.pc = "idle" /\ NoReq.state = "none" /\ NoRide \notin Ride
  BY NoneFacts DEF NoSession, NoCall, NoReq
<1>w. Owner \in Who
  BY <1>t, WhoFacts
<1>r. session.ride \in Ride \cup {NoRide}
  BY <1>t DEF RiderTypes, SessionType
<1>h. \A c \in Call : hud'[c].pc \in {"upload", "alert"} => hud'[c].ride \in Ride
  BY <1>i DEF BInv, AInv, TInv, StopTypes, CallType, Stopping
<1> DEFINE Safe == Caught' /\ NoOrphan'
           Late == {"upload", "alert"}
           Opened(p) == \E n \in Numbers : start[n].state = "open" /\ start[n].ride = p
           Going(p) == \E c \in Call : hud[c].pc = "go" /\ hud[c].ride = p
           \* Of rides that are still active: what is recorded stays so, and what else
           \* holds a ride gives way to a record only.
           Recording == \A p \in Ride : server'[p].state = "active" /\ Recorded(p) => StillRecorded(p)
           Sitting == \A p \in Ride : session.ride = p => session'.ride = p \/ StillRecorded(p)
           Starting == \A p \in Ride : Opened(p) => Opened(p)' \/ session'.ride = p \/ StillRecorded(p)
           Walking == \A c \in Call : hud[c].pc = "go" /\ hud[c].ride # NoRide =>
                        hud'[c] = hud[c] \/ StillRecorded(hud[c].ride)
           Closing == \A c \in Call : hud'[c].pc \in Late =>
                        \/ hud[c].pc \in Late /\ hud'[c].ride = hud[c].ride
                        \/ server'[hud'[c].ride].state = "active" => StillRecorded(hud'[c].ride)
           NoneNew == \A p \in Ride : server'[p].state = "active" => server[p].state = "active"
<1>g. ASSUME Recording, Sitting, Starting, Walking, Closing, NoneNew PROVE Safe
  <2>1. Caught'
    <3> SUFFICES ASSUME NEW c \in Call, hud'[c].pc \in Late, server'[hud'[c].ride].state = "active"
                 PROVE  StillRecorded(hud'[c].ride)
      BY DEF Caught, Recorded, StillRecorded, Queued
    <3>1. hud'[c].ride \in Ride
      BY <1>h
    <3>2. CASE hud[c].pc \in Late /\ hud'[c].ride = hud[c].ride
      BY <3>1, <3>2, <1>g, <1>i DEF Caught
    <3> QED
      BY <3>1, <3>2, <1>g
  <2>2. NoOrphan'
    <3> SUFFICES ASSUME NEW p \in Ride, server'[p].state = "active"
                 PROVE  (Held(p) \/ p \in holes)'
      BY DEF NoOrphan
    <3>1. server[p].state = "active" /\ p # NoRide
      BY <1>g, <1>n
    <3>2. session.ride = p \/ Opened(p) \/ Going(p) \/ Recorded(p)
      BY <3>1, <1>i DEF NoOrphan, Held, Recorded, StillRecorded, Queued
    <3>3. session'.ride = p \/ Opened(p)' \/ Going(p)' \/ StillRecorded(p)
      BY <3>1, <3>2, <1>g
    <3> QED
      BY <3>3 DEF Held, Recorded, StillRecorded, Queued
  <2> QED
    BY <2>1, <2>2
<1> HIDE DEF Safe
\* Steps that touch no record and no server.
<1>a. ASSUME UNCHANGED <<pending, inFlight>>, holes \subseteq holes' PROVE Recording
  BY <1>a DEF Recorded, StillRecorded, Queued
<1>b. ASSUME UNCHANGED server PROVE NoneNew
  BY <1>b
<1>c. ASSUME UNCHANGED session PROVE Sitting
  BY <1>c
<1>d. ASSUME UNCHANGED start PROVE Starting
  BY <1>d
<1>e. ASSUME UNCHANGED hud PROVE Walking /\ Closing
  BY <1>e
\* A stop that is reconciled is recorded.
<1>k. ASSUME NEW q \in Ride, NEW u \in Who, reconcileRideStop(q, u), UNCHANGED holes
      PROVE  Recording /\ StillRecorded(q)
  <2>1. /\ pending \subseteq pending'
        /\ \A p \in Ride \ {q} : inFlight'[p] = inFlight[p]
        /\ inFlight'[q] # NoReq \/ \E e \in pending' : e.ride = q
    BY <1>k, <1>t, Reconciled
  <2> QED
    BY <2>1, <1>k DEF Recorded, StillRecorded, Queued
\* The promise of q settles.
<1>f. ASSUME NEW q \in Ride, Settles(q), UNCHANGED <<session, start>>,
             server' \in {server, Completed(q)}, holes \subseteq holes',
             \/ pending' = removePending(q) /\ (server'[q].state = "active" => q \in holes')
             \/ pending' = addPending(q, inFlight[q].user)
      PROVE  Safe
  <2>0. inFlight[q].user \in Who
    BY <1>t DEF StopTypes, ReqType
  <2>1. server'[q].state = "active" => StillRecorded(q)
    BY <2>0, <1>f, <1>t, Added DEF Recorded, StillRecorded, Queued
  <2>2. Recording
    <3> SUFFICES ASSUME NEW p \in Ride, p # q, Recorded(p) PROVE StillRecorded(p)
      BY <2>1
    <3>1. inFlight'[p] = inFlight[p]
      BY <1>f, <1>t DEF Settles, StopTypes
    <3>2. Queued(p) => Queued(p)'
      BY <2>0, <1>f, <1>t, Added DEF Queued, removePending
    <3> QED
      BY <3>1, <3>2, <1>f DEF Recorded, StillRecorded, Queued
  <2>3. Walking
    BY <1>f DEF Settles
  <2>4. Closing
    <3> SUFFICES ASSUME NEW c \in Call, hud'[c].pc \in Late,
                        ~(hud[c].pc \in Late /\ hud'[c].ride = hud[c].ride),
                        server'[hud'[c].ride].state = "active"
                 PROVE  StillRecorded(hud'[c].ride)
      OBVIOUS
    <3>1. hud'[c].ride \in Ride /\ hud'[c].ride \in {q, NoRide}
      BY <1>f, <1>h DEF Settles
    <3> QED
      BY <3>1, <2>1, <1>n
  <2>5. NoneNew
    BY <1>f, <1>t, ServerFacts
  <2> QED
    BY <2>2, <2>3, <2>4, <2>5, <1>f, <1>c, <1>d, <1>g
<1>1. ASSUME NEW q \in Ride, Answer(q) PROVE Safe
  <2>1. UNCHANGED <<session, start>> /\ server' = Completed(q) /\ holes \subseteq holes'
    BY <1>1 DEF Answer
  <2>2. CASE inFlight[q].bearer = Nobody
    <3>1. Failed(q)
      BY <2>2, <1>1 DEF Answer
    <3> QED
      BY <2>1, <3>1, <1>f, <1>t, FailedFacts
  <2>3. CASE inFlight[q].bearer # Nobody
    <3>1. Stopped(q)
      BY <2>3, <1>1 DEF Answer
    <3>2. server'[q].state = "active" => q \in holes'
      BY <2>3, <1>1, <1>i, DoneOrHole
    <3> QED
      BY <2>1, <3>1, <3>2, <1>f, <1>t, StoppedFacts
  <2> QED
    BY <2>2, <2>3
<1>2. ASSUME NEW q \in Ride, NoAnswer(q) PROVE Safe
  BY <1>2, <1>f, <1>t, FailedFacts DEF NoAnswer
<1>3. ASSUME NEW q \in Ride, Expired(q) PROVE Safe
  <2>1. CASE Failed(q)
    BY <2>1, <1>3, <1>f, <1>t, FailedFacts DEF Expired
  <2>2. CASE /\ inFlight' = [inFlight EXCEPT ![q].state = "retried", ![q].bearer = auth]
            /\ UNCHANGED <<pending, hud, drain>>
    <3>1. UNCHANGED <<session, start, server, holes>> /\ inFlight[q].state = "sent"
      BY <1>3 DEF Expired
    <3>2. inFlight'[q].state = "retried" /\ \A p \in Ride \ {q} : inFlight'[p] = inFlight[p]
      BY <2>2, <1>t DEF StopTypes, ReqType
    <3>3. Recording
      BY <2>2, <3>1, <3>2, <1>n DEF Recorded, StillRecorded, Queued
    <3> QED
      BY <2>2, <3>1, <3>3, <1>b, <1>c, <1>d, <1>e, <1>g
  <2> QED
    BY <2>1, <2>2, <1>3 DEF Expired
\* A start that is sent anew was not open.
<1>4. ASSUME FreshStart \/ RetryStart PROVE Safe
  <2>1. PICK n \in Numbers : start[n].state # "open" /\ \A m \in Numbers \ {n} : start'[m] = start[m]
    <3>1. CASE FreshStart
      <4>1. sessions + 1 \in Numbers /\ start[sessions + 1] = NoStart
        BY <3>1, <1>i, <1>t, NoneFacts DEF FreshStart, RestTypes, Numbers, Latest
      <4>2. start[sessions + 1].state # "open"
        BY <4>1 DEF NoStart
      <4>3. \A m \in Numbers \ {sessions + 1} : start'[m] = start[m]
        BY <3>1, <1>t DEF FreshStart, kickOffApiStart, RiderTypes
      <4> QED
        BY <4>1, <4>2, <4>3
    <3>2. CASE RetryStart
      <4>1. session.n \in Numbers /\ session.n = sessions /\ sessions # 0
        BY <3>2, <1>i, <1>t, NoneFacts
           DEF RetryStart, isRiding, Latest, RiderTypes, SessionType, Numbers
      <4>2. start[session.n].state # "open"
        BY <4>1, <3>2 DEF RetryStart, pendingStart
      <4>3. \A m \in Numbers \ {session.n} : start'[m] = start[m]
        BY <3>2, <1>t DEF RetryStart, kickOffApiStart, RiderTypes
      <4> QED
        BY <4>1, <4>2, <4>3
    <3> QED
      BY <1>4, <3>1, <3>2
  <2>2. Starting
    BY <2>1
  <2>3. session.ride = NoRide
    BY <1>4, <1>i DEF FreshStart, RetryStart, isRiding, Latest
  <2>4. Sitting
    BY <2>3, <1>n
  <2> QED
    BY <2>2, <2>4, <1>4, <1>a, <1>b, <1>e, <1>g DEF FreshStart, RetryStart
\* A ride that begins is held by its start, and no call has it yet.
<1>5. ASSUME NEW n \in Numbers, NEW q \in Ride, StartLands(n, q) PROVE Safe
  <2>1. /\ start[n].ride = NoRide /\ start'[n].state = "open" /\ start'[n].ride = q
        /\ \A m \in Numbers \ {n} : start'[m] = start[m]
        /\ \A p \in Ride \ {q} : server'[p] = server[p]
        /\ UNCHANGED <<session, pending, inFlight, hud, holes>>
    BY <1>5, <1>t DEF StartLands, RiderTypes, StartType, RestTypes
  <2>2. ~Known(q)
    BY <1>5, <1>i DEF StartLands, Unknown, Fresh
  <2>3. Caught'
    BY <2>1, <2>2, <1>i, <1>h DEF Caught, Recorded, StillRecorded, Queued, Known
  <2>4. NoOrphan'
    <3>1. ASSUME NEW p \in Ride, p # q, server'[p].state = "active" PROVE (Held(p) \/ p \in holes)'
      <4>1. Held(p) \/ p \in holes
        BY <2>1, <3>1, <1>i DEF NoOrphan
      <4>2. Opened(p) => Opened(p)'
        BY <2>1, <1>n
      <4> QED
        BY <4>1, <4>2, <2>1 DEF Held, Queued
    <3>2. Held(q)'
      BY <2>1 DEF Held
    <3> QED
      BY <3>1, <3>2 DEF NoOrphan
  <2> QED
    BY <2>3, <2>4 DEF Safe
<1>6. ASSUME NEW n \in Numbers, StartOk(n) PROVE Safe
  <2>1. /\ start[n].ride \in Ride /\ start[n].owner \in Who /\ start[n].state = "open"
        /\ \A m \in Numbers \ {n} : start'[m] = start[m]
        /\ UNCHANGED <<server, holes>>
    BY <1>6, <1>t DEF StartOk, RiderTypes, StartType
  <2>2. Walking /\ Closing
    BY <1>6, <1>t DEF StartOk, Resume
  <2>3. CASE session.n = n
    <3>1. session'.ride = start[n].ride /\ UNCHANGED <<pending, inFlight>>
      BY <2>3, <1>6, <1>t DEF StartOk, RiderTypes, SessionType
    <3>2. Sitting
      BY <2>1, <2>3, <1>i, <1>n DEF Latest
    <3>3. Starting
      BY <2>1, <3>1
    <3> QED
      BY <2>1, <2>2, <3>1, <3>2, <3>3, <1>a, <1>b, <1>g
  <2>4. CASE session.n # n
    <3>1. reconcileRideStop(start[n].ride, start[n].owner) /\ UNCHANGED session
      BY <2>4, <1>6 DEF StartOk
    <3>2. Recording /\ StillRecorded(start[n].ride)
      BY <2>1, <3>1, <1>k
    <3>3. Starting
      BY <2>1, <3>2
    <3> QED
      BY <2>1, <2>2, <3>1, <3>2, <3>3, <1>b, <1>c, <1>g
  <2> QED
    BY <2>3, <2>4
<1>7. ASSUME NEW n \in Numbers, StartFails(n) PROVE Safe
  <2>1. /\ start'[n].ride = start[n].ride
        /\ start[n].ride # NoRide => start[n].ride \in holes'
        /\ \A m \in Numbers \ {n} : start'[m] = start[m]
        /\ UNCHANGED <<server, session, pending, inFlight>> /\ holes \subseteq holes'
    BY <1>7, <1>t DEF StartFails, RiderTypes, StartType
  <2>2. Walking /\ Closing
    BY <1>7, <1>t DEF StartFails, Resume
  <2>3. Starting
    BY <2>1, <1>n DEF Recorded, StillRecorded, Queued
  <2> QED
    BY <2>1, <2>2, <2>3, <1>a, <1>b, <1>c, <1>g
<1>8. ASSUME NEW c \in Call, NEW q \in Ride, StopKnown(c, q, Owner), UNCHANGED <<start, server>>,
             hud[c].pc = "go" => hud[c].ride = q
      PROVE  Safe
  <2>1. /\ reconcileRideStop(q, Owner) /\ UNCHANGED <<session, holes>>
        /\ hud'[c].ride = q /\ \A o \in Call \ {c} : hud'[o] = hud[o]
    BY <1>8, <1>t, <1>w, StopKnownFacts
  <2>2. Recording /\ StillRecorded(q)
    BY <2>1, <1>k, <1>w
  <2>3. Walking /\ Closing
    BY <2>1, <2>2, <1>8
  <2> QED
    BY <2>1, <2>2, <2>3, <1>8, <1>b, <1>c, <1>d, <1>g
\* A call that ends the session has recorded the ride it leaves out.
<1>9. ASSUME NEW c \in Call, NEW q \in Ride \cup {NoRide}, stopRideAction(q),
             hud' = [hud EXCEPT ![c] = NoCall], UNCHANGED <<start, pending, inFlight, server>>,
             hud[c].pc = "go" => hud[c].ride = NoRide,
             q \in Ride /\ server[q].state = "active" => Recorded(q)
      PROVE  Safe
  <2>1. /\ hud'[c] = NoCall /\ \A o \in Call \ {c} : hud'[o] = hud[o]
        /\ holes \subseteq holes'
        /\ session.ride \notin {NoRide, q} => session.ride \in holes'
    BY <1>9, <1>t, EndFacts DEF RestTypes
  <2>2. Recording
    BY <2>1, <1>9, <1>a
  <2>3. Walking /\ Closing
    BY <2>1, <1>9, <1>n
  <2>4. Caught'
    <3> SUFFICES ASSUME NEW o \in Call, hud'[o].pc \in Late, server'[hud'[o].ride].state = "active"
                 PROVE  StillRecorded(hud'[o].ride)
      BY DEF Caught, Recorded, StillRecorded, Queued
    <3>1. o # c /\ hud'[o] = hud[o] /\ hud'[o].ride \in Ride
      BY <2>1, <1>h, <1>n
    <3> QED
      BY <3>1, <2>2, <1>9, <1>i DEF Caught
  <2>5. NoOrphan'
    <3> SUFFICES ASSUME NEW p \in Ride, server'[p].state = "active"
                 PROVE  (Held(p) \/ p \in holes)'
      BY DEF NoOrphan
    <3>1. Held(p) \/ p \in holes
      BY <1>9, <1>i DEF NoOrphan
    <3>2. session.ride = p => StillRecorded(p)
      BY <2>1, <2>2, <1>9, <1>n DEF Recorded, StillRecorded, Queued
    <3>3. Going(p) => Going(p)'
      BY <2>1, <1>9, <1>n
    <3>4. Recorded(p) => StillRecorded(p)
      BY <2>2
    <3> QED
      BY <3>1, <3>2, <3>3, <3>4, <1>9 DEF Held, Recorded, StillRecorded, Queued
  <2> QED
    BY <2>4, <2>5 DEF Safe
<1>10. ASSUME NEW c \in Call, TapStop(c) PROVE Safe
  <2>1. CASE session.ride # NoRide
    BY <2>1, <1>10, <1>8, <1>r DEF TapStop
  <2>2. CASE StopUnknown(c)
    BY <2>2, <1>10, <1>9, <1>n DEF TapStop, StopUnknown
  <2>3. CASE /\ hud' = [hud EXCEPT ![c] = [pc |-> "wait", ride |-> NoRide, n |-> pendingStart]]
            /\ UNCHANGED <<session, holes, pending, inFlight>>
    <3>1. hud'[c].pc = "wait" /\ \A o \in Call \ {c} : hud'[o] = hud[o]
      BY <2>3, <1>t DEF StopTypes
    <3>2. Walking /\ Closing
      BY <3>1, <1>10 DEF TapStop
    <3> QED
      BY <2>3, <3>2, <1>10, <1>a, <1>b, <1>c, <1>d, <1>g DEF TapStop
  <2> QED
    BY <2>1, <2>2, <2>3, <1>10 DEF TapStop
<1>11. ASSUME NEW c \in Call, HudGo(c) PROVE Safe
  <2>1. CASE hud[c].ride # NoRide
    <3>1. hud[c].ride \in Ride
      BY <2>1, <1>t DEF StopTypes, CallType
    <3> QED
      BY <2>1, <3>1, <1>11, <1>8 DEF HudGo
  <2>2. CASE StopUnknown(c) /\ hud[c].ride = NoRide
    BY <2>2, <1>11, <1>9, <1>n DEF HudGo, StopUnknown
  <2> QED
    BY <2>1, <2>2, <1>11 DEF HudGo
<1>12. ASSUME NEW c \in Call, Finish(c) \/ DiscardLocally(c) PROVE Safe
  <2>1. hud[c].pc \in Late /\ hud[c].ride \in Ride
    BY <1>12, <1>t DEF Finish, DiscardLocally, StopTypes, CallType, Stopping
  <2>2. server[hud[c].ride].state = "active" => Recorded(hud[c].ride)
    BY <2>1, <1>i DEF Caught
  <2> QED
    BY <2>1, <2>2, <1>12, <1>9 DEF Finish, DiscardLocally
\* Taking a stop back leaves the ride recorded as going on, or is a known hole.
<1>13. ASSUME NEW c \in Call, KeepRiding(c) PROVE Safe
  <2>0. hud[c].pc = "alert" /\ hud[c].ride \in Ride
    BY <1>13, <1>t DEF KeepRiding, StopTypes, CallType, Stopping
  <2> PICK q \in Ride : hud[c].ride = q
    BY <2>0
  <2>1. /\ pending' = removePending(q)
        /\ hud'[c] = NoCall /\ \A o \in Call \ {c} : hud'[o] = hud[o]
        /\ UNCHANGED <<session, start, inFlight, server>> /\ holes \subseteq holes'
    BY <1>13, <1>t DEF KeepRiding, cancelPendingRideStop, StopTypes
  <2>2. \A o \in Call \ {c} : hud[o].ride = q => q \in holes'
    BY <1>13 DEF KeepRiding
  <2>3. session.ride # q /\ pending' # pending => q \in holes'
    BY <2>1, <1>13 DEF KeepRiding
  <2>4. \A p \in Ride : p # q => (Queued(p)' <=> Queued(p))
    BY <2>1 DEF Queued, removePending
  <2>5. session.ride # q => Queued(q)' \/ ~Queued(q) \/ q \in holes'
    BY <2>1, <2>3 DEF Queued
  <2>6. Caught'
    <3> SUFFICES ASSUME NEW o \in Call, hud'[o].pc \in Late, server'[hud'[o].ride].state = "active"
                 PROVE  StillRecorded(hud'[o].ride)
      BY DEF Caught, Recorded, StillRecorded, Queued
    <3>1. o # c /\ hud'[o] = hud[o] /\ hud'[o].ride \in Ride
      BY <2>1, <1>h, <1>n
    <3>2. Recorded(hud[o].ride)
      BY <2>1, <3>1, <1>i DEF Caught
    <3> QED
      BY <3>1, <3>2, <2>1, <2>2, <2>4 DEF Recorded, StillRecorded, Queued
  <2>7. NoOrphan'
    <3> SUFFICES ASSUME NEW p \in Ride, server'[p].state = "active"
                 PROVE  (Held(p) \/ p \in holes)'
      BY DEF NoOrphan
    <3>1. Held(p) \/ p \in holes
      BY <2>1, <1>i DEF NoOrphan
    <3>2. Going(p) => Going(p)'
      BY <2>0, <2>1
    <3>3. Queued(p) => Queued(p)' \/ session'.ride = p \/ p \in holes'
      BY <2>1, <2>4, <2>5
    <3> QED
      BY <3>1, <3>2, <3>3, <2>1 DEF Held
  <2> QED
    BY <2>6, <2>7 DEF Safe
<1>14. ASSUME Kill PROVE Safe
  <2>1. UNCHANGED <<start, hud, server>> /\ session'.ride = NoRide
    BY <1>14, <1>n DEF Kill
  <2>2. CASE session.ride # NoRide /\ Owner # Nobody
    <3>1. Recording /\ StillRecorded(session.ride)
      BY <2>2, <1>14, <1>k, <1>r, <1>w DEF Kill
    <3>2. Sitting
      BY <3>1
    <3> QED
      BY <2>1, <3>1, <3>2, <1>b, <1>d, <1>e, <1>g
  <2>3. CASE ~(session.ride # NoRide /\ Owner # Nobody)
    <3>1. /\ UNCHANGED <<pending, inFlight>> /\ holes \subseteq holes'
          /\ session.ride # NoRide => session.ride \in holes'
      BY <2>3, <1>14 DEF Kill
    <3>2. Sitting
      BY <3>1, <1>n DEF Recorded, StillRecorded, Queued
    <3> QED
      BY <2>1, <3>1, <3>2, <1>a, <1>b, <1>d, <1>e, <1>g
  <2> QED
    BY <2>2, <2>3
<1>15. ASSUME UNCHANGED <<session, start, pending, inFlight, hud, server, holes>> PROVE Safe
  BY <1>15, <1>a, <1>b, <1>c, <1>d, <1>e, <1>g
<1>16. ASSUME Unkill \/ SignOut \/ Foreground PROVE Safe
  BY <1>16, <1>15 DEF Unkill, SignOut, Foreground
<1>17. ASSUME NEW u \in Rider, SignIn(u) PROVE Safe
  BY <1>17, <1>15 DEF SignIn
<1>18. ASSUME NEW d \in Drain, DrainNext(d) PROVE Safe
  <2>1. \A e \in drain[d].todo : e.ride \in Ride /\ e.user \in Who
    BY <1>t DEF StopTypes, DrainType, Entry
  <2>2. Recording
    BY <2>1, <1>18, <1>k DEF DrainNext
  <2> QED
    BY <2>2, <1>18, <1>b, <1>c, <1>d, <1>e, <1>g DEF DrainNext
\* What the app forgets when it dies is a hole.
<1>19. ASSUME AppDies PROVE Safe
  <2>1. PICK landed \in SUBSET {r \in Ride : inFlight[r] # NoReq} :
          server' = [r \in Ride |-> IF r \in landed THEN Completed(r)[r] ELSE server[r]]
    BY <1>19 DEF AppDies
  <2>2. NoneNew
    BY <2>1, <1>t DEF Completed, RestTypes, ServerType
  <2>3. \A p \in Ride : server[p].state = "active" => StillRecorded(p)
    BY <1>19 DEF AppDies, Recorded, StillRecorded, Queued
  <2>4. Caught'
    BY <1>19, <1>n DEF AppDies, Caught
  <2>5. NoOrphan'
    BY <2>2, <2>3 DEF NoOrphan, Held, Recorded, StillRecorded, Queued
  <2> QED
    BY <2>4, <2>5 DEF Safe
<1>20. ASSUME UNCHANGED vars PROVE Safe
  BY <1>20, <1>15 DEF vars, phone
<1>21. Safe
  BY <1>1, <1>2, <1>3, <1>4, <1>5, <1>6, <1>7, <1>10, <1>11, <1>12, <1>13, <1>14, <1>16, <1>17,
     <1>18, <1>19, <1>20 DEF Next
<1> QED
  BY <1>21, <1>i DEF CInv, Safe

LEMMA CStart == Init => CInv
  BY BStart, NoneFacts DEF Init, CInv, Sent, Caught, NoOrphan, NoReq, NoCall

\* A ride that is active on the server is held by the app, or slipped through a known hole.
THEOREM NoRideIsOrphaned == Spec => []NoOrphan
<1>1. CInv => NoOrphan
  BY DEF CInv
<1> QED
  BY <1>1, CStart, CKept, PTL DEF Spec
============================================================================
