------------------------------ MODULE RideStop ------------------------------
(***************************************************************************)
(* Ending a ride from the phone                                            *)
(* (apps/mobile/src/services/rideStopReconciler.ts with its callers        *)
(* RideActiveScreen.tsx, RideTrackingKillWatcher.tsx and App.tsx, and      *)
(* start and stop of apps/backend/src/modules/rides/rides.service.ts).     *)
(*                                                                         *)
(* JavaScript runs to completion, so an action is what happens between two *)
(* awaits; continuations that are ready (microtasks) run before anything   *)
(* else happens.  The server enforces one active ride per rider, so a ride *)
(* nobody will stop locks its rider out.                                   *)
(***************************************************************************)
EXTENDS Integers

CONSTANTS
  Rider, Ride, Call,  \* Call: invocations of stopAndExit that may be open
  Drain,              \* drains of the queue that may be open
  Nobody, NoRide,
  MaxSessions,        \* local ride sessions, in sequence
  MaxFaults,          \* lost replies, outages and deaths of the app
  Killable,           \* may the operator kill ride_tracking?
  Expires             \* may an access token expire under a request?

ASSUME NobodyAssumption == Nobody \notin Rider /\ NoRide \notin Ride
ASSUME BoundAssumption ==
  /\ MaxSessions \in Nat /\ MaxFaults \in Nat
  /\ Killable \in BOOLEAN /\ Expires \in BOOLEAN

VARIABLES
  auth,       \* whose tokens the phone has
  profile,    \* useAuthStore.user: survives a session that a 401 ended
  tracking,   \* the ride_tracking switch
  session,    \* useRideStore: number (startedAtMs), owner, ride
  start,      \* the POST /rides/start of each session
  pending,    \* the persisted queue of stops
  inFlight,   \* POST /rides/:id/stop per ride
  hud,        \* open calls of stopAndExit
  drain,      \* open calls of drainPendingRideStops
  server,     \* rides on the server: state and owner
  holes,      \* rides the app lost track of for a known reason
  sessions, faults   \* bounds

phone == <<auth, profile, tracking, session, start, pending, inFlight, hud, drain>>
bounds == <<sessions, faults>>
vars  == <<phone, server, holes, bounds>>

Who       == Rider \cup {Nobody}
Entry     == [ride : Ride, user : Who]
Numbers   == 1..MaxSessions
NoSession == [n |-> 0, owner |-> Nobody, ride |-> NoRide]
NoReq     == [state |-> "none", bearer |-> Nobody, user |-> Nobody]
NoCall    == [pc |-> "idle", ride |-> NoRide, n |-> 0]
NoDrain   == [todo |-> {}, cur |-> NoRide]
NoStart   == [state |-> "none", bearer |-> Nobody, owner |-> Nobody, ride |-> NoRide]

TypeOK ==
  /\ auth \in Who /\ profile \in Who /\ tracking \in BOOLEAN
  /\ session \in [n : 0..MaxSessions, owner : Who, ride : Ride \cup {NoRide}]
  /\ start \in [Numbers -> [state : {"none", "open", "failed", "done"}, bearer : Who,
                            owner : Who, ride : Ride \cup {NoRide}]]
  /\ pending \subseteq Entry
  /\ \A d, e \in pending : d.ride = e.ride => d = e
  /\ inFlight \in [Ride -> [state : {"none", "sent", "retried"}, bearer : Who, user : Who]]
  /\ hud \in [Call -> [pc : {"idle", "wait", "go", "stop", "alert", "upload"},
                       ride : Ride \cup {NoRide}, n : 0..MaxSessions]]
  /\ drain \in [Drain -> [todo : SUBSET Entry, cur : Ride \cup {NoRide}]]
  /\ server \in [Ride -> [state : {"none", "active", "completed"}, owner : Who]]
  /\ holes \subseteq Ride
  /\ sessions \in 0..MaxSessions /\ faults \in 0..MaxFaults

Init ==
  /\ auth = Nobody /\ profile = Nobody /\ tracking = TRUE /\ session = NoSession
  /\ start = [n \in Numbers |-> NoStart]
  /\ pending = {}
  /\ inFlight = [r \in Ride |-> NoReq]
  /\ hud = [c \in Call |-> NoCall]
  /\ drain = [d \in Drain |-> NoDrain]
  /\ server = [r \in Ride |-> [state |-> "none", owner |-> Nobody]]
  /\ holes = {}
  /\ sessions = 0 /\ faults = 0

isRiding == session.n # 0
\* api.getAuthenticatedUserId(), else the profile's id.
Me == IF auth # Nobody THEN auth ELSE profile
Fault == faults < MaxFaults /\ faults' = faults + 1

\* Continuations ready to run come first.
Quiet == /\ \A c \in Call : hud[c].pc # "go"
         /\ \A d \in Drain : drain[d].cur = NoRide => drain[d].todo = {}

----------------------------------------------------------------------------
(* reconcileRideStop.                                                       *)

\* Mutant: entries are told apart by ride and rider.
addPair(r, u) == pending \cup {[ride |-> r, user |-> u]}

addPending(r, u) ==
  IF \E e \in pending : e.ride = r THEN pending ELSE pending \cup {[ride |-> r, user |-> u]}

removePending(r) == {e \in pending : e.ride # r}

\* Mutant: no session-swap guard.
NeverForeign(u) == FALSE

\* The session-swap guard: somebody else is signed in.
Foreign(u) == auth # Nobody /\ u # Nobody /\ auth # u

\* Does the call return a promise that is already resolved?
Resolved(r, u) == inFlight[r] = NoReq /\ Foreign(u)

\* Mutant: the guard inside the async function leaves a resolved promise behind.
reconcileInside(r, u) ==
  /\ pending' = IF Resolved(r, u) THEN addPending(r, u) ELSE pending
  /\ inFlight' = IF inFlight[r] # NoReq THEN inFlight
                 ELSE [inFlight EXCEPT ![r] =
                         [state |-> IF Foreign(u) THEN "stale" ELSE "sent",
                          bearer |-> auth, user |-> u]]

\* Share the request in flight, persist the stop for its owner, or POST with the
\* bearer of whoever is signed in.
reconcileRideStop(r, u) ==
  /\ pending' = IF Resolved(r, u) THEN addPending(r, u) ELSE pending
  /\ inFlight' = IF inFlight[r] # NoReq \/ Foreign(u) THEN inFlight
                 ELSE [inFlight EXCEPT ![r] = [state |-> "sent", bearer |-> auth, user |-> u]]

\* The promise of r settles: calls of the HUD go on to outcome, drains to their next
\* entry.
Settle(r, outcome(_)) ==
  /\ inFlight' = [inFlight EXCEPT ![r] = NoReq]
  /\ hud' = [c \in Call |-> IF hud[c].pc = "stop" /\ hud[c].ride = r THEN outcome(c) ELSE hud[c]]
  /\ drain' = [d \in Drain |-> IF drain[d].cur = r
                               THEN [drain[d] EXCEPT !.cur = NoRide] ELSE drain[d]]

\* Stopped, or proven to be: the entry goes.
Stopped(r) ==
  /\ pending' = removePending(r)
  /\ Settle(r, LAMBDA c : [hud[c] EXCEPT !.pc = "upload"])

\* Mutant: a failure is left to the caller's retry.
FailedUnqueued(r) ==
  /\ pending' = pending
  /\ Settle(r, LAMBDA c : IF isRiding THEN [hud[c] EXCEPT !.pc = "alert"] ELSE NoCall)

\* Failed: the stop is queued for its owner; the HUD raises an alert, unless no
\* ride is going on any more.
Failed(r) ==
  /\ pending' = addPending(r, inFlight[r].user)
  /\ Settle(r, LAMBDA c : IF isRiding THEN [hud[c] EXCEPT !.pc = "alert"] ELSE NoCall)

----------------------------------------------------------------------------
(* POST /rides/:id/stop.                                                     *)

\* What the server does with the request: only its owner completes a ride.
Completed(r) ==
  IF server[r].state = "active" /\ server[r].owner = inFlight[r].bearer
  THEN [server EXCEPT ![r].state = "completed"] ELSE server

\* The app asks for the right rider: the one whose ride it is, and with the session
\* that rider had when the request was made.
Misdirected(r) == inFlight[r].state = "retried" \/ inFlight[r].user # server[r].owner

\* 2xx, 400 (not active) and 404 (not this rider's) end the matter; 401 does not.
Answer(r) ==
  /\ Quiet /\ inFlight[r].state \in {"sent", "retried"}
  /\ IF inFlight[r].bearer = Nobody THEN Failed(r) ELSE Stopped(r)
  /\ server' = Completed(r)
  /\ holes' = IF Misdirected(r) /\ inFlight[r].bearer \notin {Nobody, server[r].owner}
              THEN holes \cup {r} ELSE holes
  /\ UNCHANGED <<auth, profile, tracking, session, start, bounds>>

\* Offline, timed out or 5xx: whether the request landed, nobody knows.
NoAnswer(r) ==
  /\ Quiet /\ Fault /\ inFlight[r].state \in {"sent", "retried"}
  /\ Failed(r)
  /\ server' \in {server, Completed(r)}
  /\ UNCHANGED <<auth, profile, tracking, session, start, holes, sessions>>

\* 401 of an expired token: the client refreshes the session it has by now and
\* sends the request again with that bearer, once; a refused refresh signs out.
Expired(r) ==
  /\ Quiet /\ Expires /\ inFlight[r].state = "sent" /\ inFlight[r].bearer # Nobody
  /\ \/ /\ auth # Nobody
        /\ inFlight' = [inFlight EXCEPT ![r].state = "retried", ![r].bearer = auth]
        /\ UNCHANGED <<auth, pending, hud, drain>>
     \/ Failed(r) /\ auth' = Nobody
  /\ UNCHANGED <<profile, tracking, session, start, server, holes, bounds>>

----------------------------------------------------------------------------
(* Starting a ride.                                                          *)

\* pendingStartPromise: the session whose POST was sent last, if it is still open.
pendingStart == IF sessions # 0 /\ start[sessions].state = "open" THEN sessions ELSE 0

\* The owner is noted when the POST is sent: the session's, or who is signed in.
kickOffApiStart(n, owner) ==
  start' = [start EXCEPT ![n] =
              [state |-> "open", bearer |-> auth, ride |-> NoRide,
               owner |-> IF owner # Nobody THEN owner ELSE Me]]

FreshStart ==
  /\ Quiet /\ tracking /\ ~isRiding /\ sessions < MaxSessions
  /\ sessions' = sessions + 1
  /\ session' = [n |-> sessions + 1, owner |-> Me, ride |-> NoRide]
  /\ kickOffApiStart(sessions + 1, Me)
  /\ UNCHANGED <<auth, profile, tracking, pending, inFlight, hud, drain, server, holes, faults>>

\* A new mount of the HUD retries a start that failed.
RetryStart ==
  /\ Quiet /\ isRiding /\ session.ride = NoRide /\ pendingStart = 0
  /\ kickOffApiStart(session.n, session.owner)
  /\ UNCHANGED <<auth, profile, tracking, session, pending, inFlight, hud, drain, server, holes, bounds>>

\* rides.start: the unique index admits one active ride per rider.
StartLands(n, r) ==
  /\ Quiet /\ start[n].state = "open" /\ start[n].ride = NoRide /\ start[n].bearer # Nobody
  /\ server[r].state = "none"
  /\ \A q \in Ride : server[q].state = "active" => server[q].owner # start[n].bearer
  /\ server' = [server EXCEPT ![r] = [state |-> "active", owner |-> start[n].bearer]]
  /\ start' = [start EXCEPT ![n].ride = r]
  /\ UNCHANGED <<auth, profile, tracking, session, pending, inFlight, hud, drain, holes, bounds>>

\* Calls of the HUD that wait for the start of n go on with r.
Resume(n, r) ==
  hud' = [c \in Call |-> IF hud[c].pc = "wait" /\ hud[c].n = n
                         THEN [pc |-> "go", ride |-> r, n |-> n] ELSE hud[c]]

\* The ride is known; if the session has moved on it is stopped at once.
StartOk(n) ==
  /\ Quiet /\ start[n].state = "open" /\ start[n].ride # NoRide
  /\ start' = [start EXCEPT ![n].state = "done"]
  /\ IF session.n = n
     THEN /\ session' = [session EXCEPT !.ride = start[n].ride]
          /\ UNCHANGED <<pending, inFlight>>
     ELSE reconcileRideStop(start[n].ride, start[n].owner) /\ UNCHANGED session
  /\ Resume(n, start[n].ride)
  /\ UNCHANGED <<auth, profile, tracking, drain, server, holes, bounds>>

\* Refused, unauthenticated, offline, or accepted with the reply lost.
StartFails(n) ==
  /\ Quiet /\ start[n].state = "open"
  /\ \/ Fault
     \/ /\ start[n].ride = NoRide
        /\ \/ start[n].bearer = Nobody
           \/ \E q \in Ride : server[q] = [state |-> "active", owner |-> start[n].bearer]
        /\ UNCHANGED faults
  /\ start' = [start EXCEPT ![n].state = "failed"]
  /\ holes' = holes \cup ({start[n].ride} \ {NoRide})
  /\ Resume(n, NoRide)
  /\ UNCHANGED <<auth, profile, tracking, session, pending, inFlight, drain, server, sessions>>

----------------------------------------------------------------------------
(* The HUD: stopAndExit and the alert it raises.                             *)

\* The local session ends, whichever it is by now; the ride it recorded is lost
\* unless it is r.
stopRideAction(r) ==
  /\ session' = NoSession
  /\ holes' = holes \cup ({session.ride} \ {NoRide, r})

\* The call goes on with a ride it knows.
StopKnown(c, r, u) ==
  /\ reconcileRideStop(r, u)
  /\ hud' = [hud EXCEPT ![c] = [pc |-> IF Resolved(r, u) THEN "upload" ELSE "stop",
                                ride |-> r, n |-> 0]]
  /\ UNCHANGED <<session, holes>>

\* The call goes on without one: nothing to stop, the session ends.
StopUnknown(c) ==
  /\ stopRideAction(NoRide)
  /\ hud' = [hud EXCEPT ![c] = NoCall]
  /\ UNCHANGED <<pending, inFlight>>

\* Whose stop it is: the session's owner, or who is signed in.
Owner == IF session.owner # Nobody THEN session.owner ELSE Me

\* Stop, or "Try again": a ride whose start is open is waited for.
TapStop(c) ==
  /\ Quiet
  /\ \/ hud[c].pc = "idle" /\ isRiding
     \/ hud[c].pc = "alert"
  /\ IF session.ride # NoRide THEN StopKnown(c, session.ride, Owner)
     ELSE IF pendingStart # 0
          THEN /\ hud' = [hud EXCEPT ![c] = [pc |-> "wait", ride |-> NoRide, n |-> pendingStart]]
               /\ UNCHANGED <<session, holes, pending, inFlight>>
          ELSE StopUnknown(c)
  /\ UNCHANGED <<auth, profile, tracking, start, drain, server, bounds>>

\* The start that was waited for came to an end.
HudGo(c) ==
  /\ hud[c].pc = "go"
  /\ IF hud[c].ride # NoRide THEN StopKnown(c, hud[c].ride, Owner) ELSE StopUnknown(c)
  /\ UNCHANGED <<auth, profile, tracking, start, drain, server, bounds>>

\* The readings are handed over and the session ends.
Finish(c) ==
  /\ Quiet /\ hud[c].pc = "upload"
  /\ stopRideAction(hud[c].ride)
  /\ hud' = [hud EXCEPT ![c] = NoCall]
  /\ UNCHANGED <<auth, profile, tracking, start, pending, inFlight, drain, server, bounds>>

DiscardLocally(c) ==
  /\ Quiet /\ hud[c].pc = "alert"
  /\ stopRideAction(hud[c].ride)
  /\ hud' = [hud EXCEPT ![c] = NoCall]
  /\ UNCHANGED <<auth, profile, tracking, start, pending, inFlight, drain, server, bounds>>

\* cancelPendingRideStop.
cancelPendingRideStop(c) == pending' = removePending(hud[c].ride)

\* The ride may be over meanwhile, or another call may count on the entry: then the
\* only record of the stop is lost.
KeepRiding(c) ==
  /\ Quiet /\ hud[c].pc = "alert"
  /\ cancelPendingRideStop(c)
  /\ holes' = IF \/ session.ride # hud[c].ride /\ removePending(hud[c].ride) # pending
                 \/ \E o \in Call \ {c} : hud[o].ride = hud[c].ride
              THEN holes \cup {hud[c].ride} ELSE holes
  /\ hud' = [hud EXCEPT ![c] = NoCall]
  /\ UNCHANGED <<auth, profile, tracking, session, start, inFlight, drain, server, bounds>>

----------------------------------------------------------------------------
(* The kill switch, signing in and out, the queue's drains, death.           *)

\* The watcher: the stop of a known ride is sent or queued, the session ends.
Kill ==
  /\ Quiet /\ Killable /\ tracking
  /\ tracking' = FALSE
  /\ session' = NoSession
  /\ IF session.ride # NoRide /\ Owner # Nobody
     THEN reconcileRideStop(session.ride, Owner) /\ UNCHANGED holes
     ELSE /\ holes' = holes \cup ({session.ride} \ {NoRide})
          /\ UNCHANGED <<pending, inFlight>>
  /\ UNCHANGED <<auth, profile, start, hud, drain, server, bounds>>

Unkill ==
  /\ Quiet /\ ~tracking /\ tracking' = TRUE
  /\ UNCHANGED <<auth, profile, session, start, pending, inFlight, hud, drain, server, holes, bounds>>

\* Mutant: the ride that is being recorded is drained too.
EveryEntryOf(u) == {e \in pending : e.user = u}

\* What a drain for u takes: u's entries but the ride that is being recorded.
Mine(u) == {e \in pending : e.user = u /\ e.ride # session.ride}

\* drainPendingRideStops: one entry after another.
StartDrain(u) ==
  \/ Mine(u) = {} /\ UNCHANGED drain
  \/ \E d \in Drain : /\ drain[d] = NoDrain
                      /\ drain' = [drain EXCEPT ![d].todo = Mine(u)]

SignIn(u) ==
  /\ Quiet /\ auth = Nobody /\ auth' = u /\ profile' = u
  /\ StartDrain(u)
  /\ UNCHANGED <<tracking, session, start, pending, inFlight, hud, server, holes, bounds>>

SignOut ==
  /\ Quiet /\ auth # Nobody /\ auth' = Nobody /\ profile' = Nobody
  /\ UNCHANGED <<tracking, session, start, pending, inFlight, hud, drain, server, holes, bounds>>

\* Cold start, and every return to the foreground.
Foreground ==
  /\ Quiet /\ auth # Nobody /\ Mine(auth) # {}
  /\ StartDrain(auth)
  /\ UNCHANGED <<auth, profile, tracking, session, start, pending, inFlight, hud, server, holes, bounds>>

\* The next entry; a promise that is resolved already does not hold the drain up.
DrainNext(d) ==
  /\ drain[d].cur = NoRide
  /\ \E e \in drain[d].todo :
       /\ reconcileRideStop(e.ride, e.user)
       /\ drain' = [drain EXCEPT ![d] =
                      [todo |-> @.todo \ {e},
                       cur |-> IF Resolved(e.ride, e.user) THEN NoRide ELSE e.ride]]
  /\ UNCHANGED <<auth, profile, tracking, session, start, hud, server, holes, bounds>>

\* Only the queue and the tokens survive; an open stop may have landed.
AppDies ==
  /\ Quiet /\ Fault
  /\ \E landed \in SUBSET {r \in Ride : inFlight[r] # NoReq} :
       server' = [r \in Ride |-> IF r \in landed THEN Completed(r)[r] ELSE server[r]]
  /\ session' = NoSession
  /\ start' = [n \in Numbers |-> NoStart]
  /\ inFlight' = [r \in Ride |-> NoReq]
  /\ hud' = [c \in Call |-> NoCall]
  /\ drain' = [d \in Drain |-> NoDrain]
  /\ holes' = holes \cup {r \in Ride : server[r].state = "active" /\
                                        ~\E e \in pending : e.ride = r}
  /\ profile' = auth
  /\ UNCHANGED <<auth, tracking, pending, sessions>>

Next ==
  \/ FreshStart \/ RetryStart \/ Kill \/ Unkill \/ SignOut \/ Foreground \/ AppDies
  \/ \E r \in Ride : Answer(r) \/ NoAnswer(r) \/ Expired(r)
  \/ \E n \in Numbers : StartOk(n) \/ StartFails(n) \/ \E r \in Ride : StartLands(n, r)
  \/ \E c \in Call : \/ TapStop(c) \/ HudGo(c) \/ Finish(c)
                      \/ DiscardLocally(c) \/ KeepRiding(c)
  \/ \E u \in Rider : SignIn(u)
  \/ \E d \in Drain : DrainNext(d)

Spec == Init /\ [][Next]_vars

\* Requests end, continuations run, and the rider comes back to the app.
FairSpec ==
  /\ Spec
  /\ \A r \in Ride : SF_vars(Answer(r))
  /\ \A c \in Call : WF_vars(HudGo(c))
  /\ \A d \in Drain : WF_vars(DrainNext(d))
  /\ SF_vars(Foreground)

----------------------------------------------------------------------------
(* Properties.                                                               *)

Queued(r) == \E e \in pending : e.ride = r

\* The app still has a hold of the ride.
Held(r) == \/ session.ride = r \/ Queued(r) \/ inFlight[r] # NoReq
           \/ \E n \in Numbers : start[n].state = "open" /\ start[n].ride = r
           \/ \E c \in Call : hud[c].pc = "go" /\ hud[c].ride = r

\* A ride that is active on the server is recorded, its stop is under way or queued,
\* or it slipped through one of the known holes: whatever the order of stops, kills,
\* sign-ins and drains.  A ride nobody holds locks its rider out of new rides
\* (rideStopReconciler.ts: header comment and session-swap guard).
NoOrphan == \A r \in Ride : server[r].state = "active" => Held(r) \/ r \in holes

\* The stop of the ride that is being recorded is queued only while a call of the HUD
\* is about to end it: "Keep riding" leaves nothing for a later drain to complete
\* the ride with (RideActiveScreen.tsx, the alert; cancelPendingRideStop).
KeptRideIsNotQueued ==
  session.ride # NoRide /\ Queued(session.ride) =>
    \E c \in Call : hud[c].ride = session.ride /\ hud[c].pc \in {"go", "stop", "alert", "upload"}

\* No request to stop the ride that is being recorded is sent but by the rider's tap:
\* never by a drain, even one that began before (drainPendingRideStops, activeRideId).
OnlyTheRiderStopsARecordedRide ==
  [][\A r \in Ride :
       inFlight[r] = NoReq /\ inFlight'[r] # NoReq /\ session'.ride = r =>
         \E c \in Call : hud'[c].ride = r /\ hud'[c].pc = "stop"]_vars

\* A stop queued for a rider leaves the queue while that rider stays signed in and
\* records another ride or none (rideStopReconciler.ts: a stale in-flight promise would
\* block it).  An entry without a rider is no drain's.
QueueDrains ==
  \A e \in [ride : Ride, user : Rider] : e \in pending ~> e \notin pending \/ auth # e.user \/ session.ride = e.ride

\* The record of a stop is dropped only when the ride is over or still recorded
\* (RideActiveScreen.tsx, the stale alert).
RetryRecordIsKept ==
  [][\A e \in pending \ pending' :
       server'[e.ride].state = "completed" \/ session.ride = e.ride]_vars
============================================================================
