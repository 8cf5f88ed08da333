--------------------------- MODULE OfflineQueue ---------------------------
(***************************************************************************)
(* The mobile app's durable sensor-upload queue                            *)
(* (apps/mobile/src/services/offlineQueue.ts).  JavaScript runs to         *)
(* completion between awaits, so one action is everything that happens     *)
(* between two of them: a call up to its first upload, or a reply up to    *)
(* the next upload, including the submits that resume when a drain ends.   *)
(*                                                                         *)
(* A ride is submitted once and queued at most once, so it stands for the  *)
(* queue entry's id; rides are numbered as they are submitted.  The queue  *)
(* itself (MMKV) survives a kill of the app; everything else on the phone  *)
(* does not.                                                               *)
(***************************************************************************)
EXTENDS Integers, Sequences, FiniteSets, SequencesExt

CONSTANTS
  Rides,       \* bound: how many rides are submitted
  MaxAttempts, \* rejections after which an entry is dropped: 3 in the code
  Bounds       \* bounds that a behaviour may have: submit calls open at a time;
               \* replies lost, transient server errors and kills of the app

ASSUME QueueAssumption ==
  /\ Rides \in Nat /\ MaxAttempts \in Nat \ {0}
  /\ Bounds \subseteq [open : Nat \ {0}, faults : Nat]

Ride == 1..Rides

VARIABLES
  queue,     \* the persisted backlog: sequence of [ride, attempts]
  drain,     \* drainInFlight: the entry being uploaded, entries tried, its request
  pc,        \* where the submit call of each ride is
  waiting,   \* submits awaiting the drain in flight, in call order
  accepted,  \* rides whose live request the server has accepted
  consent,   \* canContributeRoadData()
  switch,    \* isSystemSwitchEnabled("sys_surface_upload")
  stray,     \* requests the phone has given up that may still reach the server
  landed,    \* rides in the order the server accepted them
  bound,     \* the member of Bounds that holds for this behaviour
  faults     \* faults so far

\* History, for the properties only.
VARIABLES
  optedOut,  \* rides submitted before or during a time without consent
  rejected,  \* client errors the server answered per ride, up to MaxAttempts
  lost       \* replies per ride that never arrived

phone   == <<queue, drain, pc, waiting, accepted>>
history == <<optedOut, rejected, lost>>
vars    == <<phone, consent, switch, stray, landed, bound, faults, history>>

Entry == [ride : Ride, attempts : 0..MaxAttempts]
Idle  == [on |-> FALSE]
Uploading(e, tried, acc) == [on |-> TRUE, cur |-> e, tried |-> tried, acc |-> acc]

TypeOK ==
  /\ queue \in Seq(Entry)
  /\ drain \in {Idle} \cup [on : {TRUE}, cur : Entry, tried : SUBSET Ride, acc : BOOLEAN]
  /\ pc \in [Ride -> {"new", "waiting", "live", "done", "failed", "killed"}]
  /\ waiting \in Seq(Ride)
  /\ accepted \subseteq Ride
  /\ consent \in BOOLEAN /\ switch \in BOOLEAN
  /\ stray \subseteq Ride
  /\ landed \in Seq(Ride)
  /\ bound \in Bounds /\ faults \in 0..bound.faults
  /\ optedOut \subseteq Ride
  /\ rejected \in [Ride -> Nat] /\ lost \in [Ride -> Nat]

Init ==
  /\ queue = <<>> /\ drain = Idle
  /\ pc = [r \in Ride |-> "new"]
  /\ waiting = <<>> /\ accepted = {}
  /\ consent = TRUE /\ switch = TRUE
  /\ stray = {} /\ landed = <<>> /\ bound \in Bounds /\ faults = 0
  /\ optedOut = {}
  /\ rejected = [r \in Ride |-> 0]
  /\ lost = [r \in Ride |-> 0]

Open == {r \in Ride : pc[r] \in {"waiting", "live"}}
Submitted == {r \in Ride : pc[r] # "new"}

Fresh(r)    == [ride |-> r, attempts |-> 0]
Queued(q)   == {q[i].ride : i \in DOMAIN q}
Enqueued(q, rides) == q \o [i \in DOMAIN rides |-> Fresh(rides[i])]

\* Mutant: an uploaded entry is removed by position instead of by id.
RemoveHead(q, r) == IF q = <<>> THEN q ELSE Tail(q)
\* The code filters by id; a ride is in the backlog once, so that is its first match.
RemoveById(q, r) == RemoveFirstMatch(q, LAMBDA e : e.ride = r)
ReplaceById(q, new) ==
  [i \in DOMAIN q |-> IF q[i].ride = new.ride THEN new ELSE q[i]]

----------------------------------------------------------------------------
(* The drain loop and what follows it in the same turn of the event loop.    *)

\* Mutant: only a dead link, not a struggling server, holds the fresh ride back.
ResumeUnlessDown(q, net, transient, w) ==
  LET go == consent /\ switch /\ ~net
  IN  /\ queue' = IF ~consent THEN <<>> ELSE IF go THEN q ELSE Enqueued(q, w)
      /\ pc' = [r \in Ride |-> IF r \notin Range(w) THEN pc[r]
                               ELSE IF go THEN "live" ELSE "done"]

\* Mutant: no second look at the rider's consent after the drain.
ResumeUnasked(q, net, transient, w) ==
  LET go == switch /\ ~net /\ ~transient
  IN  /\ queue' = IF go THEN q ELSE Enqueued(q, w)
      /\ pc' = [r \in Ride |-> IF r \notin Range(w) THEN pc[r]
                               ELSE IF go THEN "live" ELSE "done"]

\* submitSensorUpload after its await: consent and the switch are read again; the
\* fresh ride is dropped, queued, or uploaded live.  w are the submits resuming.
Resume(q, net, transient, w) ==
  LET go == consent /\ switch /\ ~net /\ ~transient
  IN  /\ queue' = IF ~consent THEN <<>> ELSE IF go THEN q ELSE Enqueued(q, w)
      /\ pc' = [r \in Ride |-> IF r \notin Range(w) THEN pc[r]
                               ELSE IF go THEN "live" ELSE "done"]

EndDrain(q, net, transient, w) ==
  /\ drain' = Idle
  /\ waiting' = <<>>
  /\ Resume(q, net, transient, w)

Untried(q, tried) == {i \in DOMAIN q : q[i].ride \notin tried}

\* Head of the loop: bail out and clear without consent, hold while the switch is
\* off, else upload the oldest entry this drain has not tried yet.
Loop(q, tried, w) ==
  LET todo == Untried(q, tried)
      next == q[Min(todo)]
  IN  IF ~consent THEN EndDrain(<<>>, FALSE, FALSE, w)
      ELSE IF ~switch \/ todo = {} THEN EndDrain(q, FALSE, FALSE, w)
      ELSE /\ drain' = Uploading(next, tried \cup {next.ride}, FALSE)
           /\ queue' = q
           /\ waiting' = w
           /\ pc' = [r \in Ride |-> IF r \in Range(w) THEN "waiting" ELSE pc[r]]

\* drainOfflineQueue on behalf of the submits w: consent, the switch, then join
\* the drain in flight or start one.
CallDrain(q, w) ==
  IF drain.on /\ consent /\ switch
  THEN /\ waiting' = waiting \o w
       /\ pc' = [r \in Ride |-> IF r \in Range(w) THEN "waiting" ELSE pc[r]]
       /\ queue' = q
       /\ UNCHANGED drain
  ELSE IF drain.on
  THEN queue' = (IF consent THEN q ELSE <<>>) /\ UNCHANGED <<drain, pc, waiting>>
  ELSE Loop(q, {}, w)

----------------------------------------------------------------------------
(* Calls.                                                                    *)

\* submitSensorUpload, up to its first upload or its await.
Submit(r) ==
  /\ Submitted = 1..(r - 1)
  /\ Cardinality(Open) < bound.open
  /\ optedOut' = IF consent THEN optedOut ELSE optedOut \cup {r}
  /\ IF consent /\ switch
     THEN CallDrain(queue, <<r>>)
     ELSE /\ queue' = IF consent THEN Enqueued(queue, <<r>>) ELSE <<>>
          /\ pc' = [pc EXCEPT ![r] = "done"]
          /\ UNCHANGED <<drain, waiting>>
  /\ UNCHANGED <<accepted, consent, switch, stray, landed, faults, rejected, lost, bound>>

\* The Settings screen's "Retry now".
RetryNow ==
  /\ CallDrain(queue, <<>>)
  /\ UNCHANGED <<accepted, consent, switch, stray, landed, faults, history, bound>>

----------------------------------------------------------------------------
(* Replies to the upload of the drain in flight.                             *)

DrainUploaded ==
  /\ drain.on /\ drain.acc
  /\ Loop(RemoveById(queue, drain.cur.ride), drain.tried, waiting)
  /\ UNCHANGED <<accepted, consent, switch, stray, landed, faults, history, bound>>

\* The request may still be on its way when the phone gives up on it.
GivenUp(r, acc) ==
  /\ faults < bound.faults /\ faults' = faults + 1
  /\ lost' = [lost EXCEPT ![r] = @ + 1]
  /\ stray' \in IF acc THEN {stray} ELSE {stray, stray \cup {r}}

\* Mutant: a transient server error burns the entry's retry budget.
FailedBurns(net, transient) ==
  IF consent
  THEN EndDrain(IF transient
                THEN IF drain.cur.attempts + 1 >= MaxAttempts
                     THEN RemoveById(queue, drain.cur.ride)
                     ELSE ReplaceById(queue, [drain.cur EXCEPT !.attempts = @ + 1])
                ELSE queue, net, transient, waiting)
  ELSE EndDrain(<<>>, FALSE, FALSE, waiting)
\* A retriable failure stops the drain and keeps the backlog; consent first.
Failed(net, transient) ==
  IF consent THEN EndDrain(queue, net, transient, waiting)
  ELSE EndDrain(<<>>, FALSE, FALSE, waiting)

DrainNetworkDown ==
  /\ drain.on
  /\ GivenUp(drain.cur.ride, drain.acc)
  /\ Failed(TRUE, FALSE)
  /\ UNCHANGED <<accepted, consent, switch, landed, optedOut, rejected, bound>>

DrainTransient ==
  /\ drain.on /\ ~drain.acc
  /\ faults < bound.faults /\ faults' = faults + 1
  /\ Failed(FALSE, TRUE)
  /\ UNCHANGED <<accepted, consent, switch, stray, landed, history, bound>>

\* Mutant: a rejected entry is put back as it was.
BumpForgotten(q, e) == q

\* Mutant: poison entries are never dropped.
BumpForever(q, e) == ReplaceById(q, [e EXCEPT !.attempts = @ + 1])

\* A rejected entry is put back with one attempt more, or dropped.
Bump(q, e) ==
  IF e.attempts + 1 >= MaxAttempts
  THEN RemoveById(q, e.ride)
  ELSE ReplaceById(q, [e EXCEPT !.attempts = @ + 1])

CountRejection(r) ==
  rejected' = [rejected EXCEPT ![r] = IF @ < MaxAttempts THEN @ + 1 ELSE @]

\* A client error (4xx): the drain goes on with the next entry.
DrainRejected ==
  /\ drain.on /\ ~drain.acc
  /\ CountRejection(drain.cur.ride)
  /\ IF consent
     THEN Loop(Bump(queue, drain.cur), drain.tried, waiting)
     ELSE EndDrain(<<>>, FALSE, FALSE, waiting)
  /\ UNCHANGED <<accepted, consent, switch, stray, landed, faults, optedOut, lost, bound>>

----------------------------------------------------------------------------
(* Replies to a live upload.                                                 *)

LiveEnd(r, how) ==
  /\ pc' = [pc EXCEPT ![r] = how]
  /\ accepted' = accepted \ {r}
  /\ UNCHANGED <<drain, waiting>>

LiveUploaded(r) ==
  /\ pc[r] = "live" /\ r \in accepted
  /\ LiveEnd(r, "done")
  /\ UNCHANGED <<queue, consent, switch, stray, landed, faults, history, bound>>

KeepForLater(r) == queue' = IF consent THEN Enqueued(queue, <<r>>) ELSE <<>>

LiveNetworkDown(r) ==
  /\ pc[r] = "live"
  /\ GivenUp(r, r \in accepted)
  /\ KeepForLater(r)
  /\ LiveEnd(r, "done")
  /\ UNCHANGED <<consent, switch, landed, optedOut, rejected, bound>>

LiveTransient(r) ==
  /\ pc[r] = "live" /\ r \notin accepted
  /\ faults < bound.faults /\ faults' = faults + 1
  /\ KeepForLater(r)
  /\ LiveEnd(r, "done")
  /\ UNCHANGED <<consent, switch, stray, landed, history, bound>>

\* A client error is thrown to the caller, and nothing is queued.
LiveRejected(r) ==
  /\ pc[r] = "live" /\ r \notin accepted
  /\ CountRejection(r)
  /\ LiveEnd(r, "failed")
  /\ UNCHANGED <<queue, consent, switch, stray, landed, faults, optedOut, lost, bound>>

----------------------------------------------------------------------------
(* The server, the rider, the operator, and the operating system.            *)

Land(r) == landed' = Append(landed, r)

DrainAccepted ==
  /\ drain.on /\ ~drain.acc
  /\ drain' = [drain EXCEPT !.acc = TRUE]
  /\ Land(drain.cur.ride)
  /\ UNCHANGED <<queue, pc, waiting, accepted, consent, switch, stray, faults, history, bound>>

LiveAccepted(r) ==
  /\ pc[r] = "live" /\ r \notin accepted
  /\ accepted' = accepted \cup {r}
  /\ Land(r)
  /\ UNCHANGED <<queue, drain, pc, waiting, consent, switch, stray, faults, history, bound>>

StrayLands(r) ==
  /\ r \in stray
  /\ stray' = stray \ {r}
  /\ Land(r)
  /\ UNCHANGED <<phone, consent, switch, faults, history, bound>>

ToggleConsent ==
  /\ consent' = ~consent
  /\ optedOut' = IF consent THEN optedOut \cup Submitted ELSE optedOut
  /\ UNCHANGED <<phone, switch, stray, landed, faults, rejected, lost, bound>>

ToggleSwitch ==
  /\ switch' = ~switch
  /\ UNCHANGED <<phone, consent, stray, landed, faults, history, bound>>

\* The app is killed and started again: only the queue is left of the phone.
Kill ==
  /\ faults < bound.faults /\ faults' = faults + 1
  /\ drain' = Idle /\ waiting' = <<>> /\ accepted' = {}
  /\ pc' = [r \in Ride |-> IF r \in Open THEN "killed" ELSE pc[r]]
  /\ LET inFlight == {r \in Ride : pc[r] = "live"}
                       \cup IF drain.on THEN {drain.cur.ride} ELSE {}
         unseen   == (inFlight \ accepted)
                       \ IF drain.on /\ drain.acc THEN {drain.cur.ride} ELSE {}
     IN  /\ lost' = [r \in Ride |-> lost[r] + IF r \in inFlight THEN 1 ELSE 0]
         /\ \E late \in SUBSET unseen : stray' = stray \cup late
  /\ UNCHANGED <<queue, consent, switch, landed, optedOut, rejected, bound>>

----------------------------------------------------------------------------
DrainReply == DrainUploaded \/ DrainNetworkDown \/ DrainTransient \/ DrainRejected
LiveReply(r) ==
  LiveUploaded(r) \/ LiveNetworkDown(r) \/ LiveTransient(r) \/ LiveRejected(r)

Next ==
  \/ RetryNow \/ DrainReply \/ DrainAccepted
  \/ \E r \in Ride : Submit(r) \/ LiveReply(r) \/ LiveAccepted(r) \/ StrayLands(r)
  \/ ToggleConsent \/ ToggleSwitch \/ Kill

Spec == Init /\ [][Next]_vars

(***************************************************************************)
(* Fairness: a request is answered or its timer fires, and the rider       *)
(* retries now and again.  Which answer comes is not fair: a server may    *)
(* reject everything.                                                      *)
(***************************************************************************)
FairSpec == Spec /\ WF_vars(DrainReply) /\ WF_vars(RetryNow)

----------------------------------------------------------------------------
(* Properties.                                                               *)

Copies(r) == Cardinality({i \in DOMAIN landed : landed[i] = r})

\* A request for r starts in this step.
Starts(r) ==
  \/ drain'.on /\ drain'.cur.ride = r /\ (drain.on => drain.cur.ride # r)
  \/ pc[r] # "live" /\ pc'[r] = "live"

\* No upload starts while the rider has opted out or the operator has paused
\* ingestion, however the toggles fall between the awaits of submit and drain.
SentOnlyWithConsent ==
  [][\A r \in Ride : Starts(r) => consent /\ switch]_vars

\* A submit that returned has not lost its ride: it is queued or on the server,
\* unless the rider opted out meanwhile or the server rejected it MaxAttempts
\* times.  Dead links, struggling servers and paused ingestion never cost a ride.
NoRideLost ==
  \A r \in Ride : pc[r] = "done" =>
    \/ r \in Queued(queue) \cup Range(landed) \cup optedOut
    \/ rejected[r] >= MaxAttempts

\* The server gets a ride twice only when a reply to an earlier copy was lost:
\* removal by id after each upload, and one drain at a time.
DuplicatesNeedALostReply ==
  \A r \in Ride : Copies(r) <= 1 + lost[r]

\* "Flush the backlog first so rides stay chronologically ordered": with one
\* submit at a time, rides first reach the server in the order they were
\* submitted, leaving aside those that were rejected, opted out or cut off by a
\* kill of the app.
RidesLandInOrder ==
  LET regular == {r \in Ride \ optedOut : rejected[r] = 0 /\ pc[r] \notin {"new", "killed"}}
  IN  bound.open = 1 =>
        \A i, j \in regular : i < j /\ j \in Range(landed) => i \in Range(landed)

\* With consent given and ingestion on for good, retries empty the backlog, poison
\* entries included.
BacklogDrains == <>[](consent /\ switch) => <>[](queue = <<>>)

\* "Clearing the queue makes the opt-out take effect for every payload that
\* hasn't yet reached the server": what was captured before an opt-out is not
\* sent after it, not even after a later opt-in.
OptOutIsFinal ==
  [][\A r \in Ride : Starts(r) => r \notin optedOut]_vars
============================================================================
