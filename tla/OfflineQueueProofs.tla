------------------------- MODULE OfflineQueueProofs -------------------------
(***************************************************************************)
(* Theorems of OfflineQueue, for every number of rides, attempts, open     *)
(* submits and faults: its types, no ride lost, no needless duplicate,     *)
(* rides in order, and no upload without consent.                          *)
(*                                                                         *)
(* A call or a reply runs on to the next await through the same code: the  *)
(* loop, or the end of the drain and the submits that resume.  Turn says   *)
(* once what that code does to the backlog and the calls, and every        *)
(* invariant is proved from it and from what came before in the step.      *)
(***************************************************************************)
EXTENDS OfflineQueueLemmas

----------------------------------------------------------------------------
(* A turn of the event loop from the point where the queue is q, the drain   *)
(* has tried some rides, and the submits w go on when it ends.               *)

Ready(q, w) ==
  /\ q \in Seq(Entry) /\ OncePerRide(q)
  /\ w \in Seq(Ride) /\ Distinct(w)
  /\ \A e \in Range(q) : e.ride \notin Range(w)
  /\ pc \in [Ride -> Steps]

\* It ends the drain; submits go live only when every entry of the backlog was tried.
TurnEnds(q, tried, w) ==
  /\ drain' = Idle /\ waiting' = <<>>
  /\ \A r \in Range(w) : pc'[r] \in {"live", "done"}
  /\ \A r \in Range(w) : pc'[r] = "live" =>
       consent /\ switch /\ queue' = q /\ \A e \in Range(q) : e.ride \in tried

\* Or it starts the next upload.
TurnSends(q, tried, w) ==
  /\ consent /\ switch
  /\ queue' = q /\ waiting' = w
  /\ \A r \in Range(w) : pc'[r] = "waiting"
  /\ \E e \in Range(q) :
       /\ e.ride \notin tried
       /\ drain' = Uploading(e, tried \cup {e.ride}, FALSE)
       /\ Sorted(q) => \A d \in Range(q) : d.ride < e.ride => d.ride \in tried

\* No entry is lost while consent is given, and a submit that ends leaves its ride in
\* the backlog.
Turn(q, tried, w) ==
  /\ queue' \in Seq(Entry) /\ OncePerRide(queue')
  /\ pc' \in [Ride -> Steps]
  /\ \A r \in Ride : r \notin Range(w) => pc'[r] = pc[r]
  /\ \A e \in Range(queue') :
       e \in Range(q) \/ (e = Fresh(e.ride) /\ e.ride \in Range(w) /\ pc'[e.ride] = "done")
  /\ consent => /\ Range(q) \subseteq Range(queue')
                /\ \A r \in Range(w) : pc'[r] = "done" => Fresh(r) \in Range(queue')
  /\ ~consent => Range(queue') = {}
  /\ Sorted(q) /\ Len(w) <= 1 /\ (\A e \in Range(q), r \in Range(w) : e.ride < r)
       => Sorted(queue')
  /\ TurnEnds(q, tried, w) \/ TurnSends(q, tried, w)

\* The end of a drain is such a turn, when consent is gone, the switch is off, the link or
\* the server is down, or the drain has tried every entry.
LEMMA EndIsTurn ==
  ASSUME NEW q, NEW b, NEW tried, NEW w, NEW net, NEW transient, Ready(q, w),
         EndDrain(b, net, transient, w),
         consent => b = q,
         consent /\ switch /\ ~net /\ ~transient => \A e \in Range(q) : e.ride \in tried
  PROVE  Turn(q, tried, w)
<1> DEFINE go == consent /\ switch /\ ~net /\ ~transient
<1>1. /\ drain' = Idle /\ waiting' = <<>>
      /\ queue' = IF ~consent THEN <<>> ELSE IF go THEN q ELSE Enqueued(q, w)
      /\ pc' = [r \in Ride |-> IF r \notin Range(w) THEN pc[r]
                               ELSE IF go THEN "live" ELSE "done"]
  BY DEF EndDrain, Resume
<1>2. Range(w) \subseteq Ride
  BY DEF Ready, Range
<1>3. /\ pc' \in [Ride -> Steps]
      /\ \A r \in Ride : r \notin Range(w) => pc'[r] = pc[r]
      /\ \A r \in Range(w) : pc'[r] = IF go THEN "live" ELSE "done"
  BY <1>1, <1>2 DEF Ready, Steps
<1>4. CASE ~consent
  <2>1. queue' = <<>>
    BY <1>1, <1>4
  <2>2. /\ <<>> \in Seq(Entry) /\ OncePerRide(<<>>) /\ Sorted(<<>>) /\ Range(<<>>) = {}
    BY DEF OncePerRide, Sorted, Range
  <2>3. TurnEnds(q, tried, w)
    BY <1>1, <1>3, <1>4 DEF TurnEnds
  <2> QED
    BY <1>3, <1>4, <2>1, <2>2, <2>3 DEF Turn
<1>5. CASE go
  <2>1. queue' = q
    BY <1>1, <1>5
  <2>2. TurnEnds(q, tried, w)
    BY <1>1, <1>3, <1>5, <2>1 DEF TurnEnds
  <2> QED
    BY <1>3, <1>5, <2>1, <2>2 DEF Turn, Ready
<1>6. CASE consent /\ ~go
  <2>1. queue' = Enqueued(q, w)
    BY <1>1, <1>6
  <2>2. /\ queue' \in Seq(Entry) /\ OncePerRide(queue')
        /\ Sorted(q) /\ Len(w) <= 1 /\ (\A e \in Range(q), r \in Range(w) : e.ride < r)
              => Sorted(queue')
        /\ Range(queue') = Range(q) \cup {Fresh(r) : r \in Range(w)}
    BY <2>1, EnqueuedFacts DEF Ready
  <2>3. \A r \in Range(w) : pc'[r] = "done" /\ Fresh(r) \in Range(queue') /\ Fresh(r).ride = r
    BY <1>3, <1>6, <2>2 DEF Fresh
  <2>4. \A e \in Range(queue') :
          e \in Range(q) \/ (e = Fresh(e.ride) /\ e.ride \in Range(w) /\ pc'[e.ride] = "done")
    BY <2>2, <2>3
  <2>5. TurnEnds(q, tried, w)
    BY <1>1, <2>3 DEF TurnEnds
  <2> QED
    BY <1>3, <1>6, <2>2, <2>3, <2>4, <2>5 DEF Turn
<1> QED
  BY <1>4, <1>5, <1>6

\* So is the loop, wherever it stands.
LEMMA LoopIsTurn ==
  ASSUME NEW q, NEW tried, NEW w, Ready(q, w), Loop(q, tried, w)
  PROVE  Turn(q, tried, w)
<1> DEFINE todo == Untried(q, tried)
           next == q[Min(todo)]
<1>0. /\ todo = {} => \A e \in Range(q) : e.ride \in tried
      /\ todo # {} => /\ next \in Range(q) /\ next.ride \notin tried
                      /\ Sorted(q) => \A e \in Range(q) : e.ride < next.ride => e.ride \in tried
  BY NextFacts DEF Ready
<1>1. CASE ~consent
  BY <1>1, EndIsTurn DEF Loop
<1>2. CASE consent /\ (~switch \/ todo = {})
  <2>1. EndDrain(q, FALSE, FALSE, w)
    BY <1>2 DEF Loop
  <2> QED
    BY <1>0, <1>2, <2>1, EndIsTurn
<1>3. CASE consent /\ switch /\ todo # {}
  <2>1. /\ drain' = Uploading(next, tried \cup {next.ride}, FALSE)
        /\ queue' = q /\ waiting' = w
        /\ pc' = [r \in Ride |-> IF r \in Range(w) THEN "waiting" ELSE pc[r]]
    BY <1>3 DEF Loop
  <2> HIDE DEF next, todo
  <2>2. Range(w) \subseteq Ride
    BY DEF Ready, Range
  <2>3. /\ pc' \in [Ride -> Steps]
        /\ \A r \in Ride : r \notin Range(w) => pc'[r] = pc[r]
        /\ \A r \in Range(w) : pc'[r] = "waiting"
    BY <2>1, <2>2 DEF Ready, Steps
  <2>4. TurnSends(q, tried, w)
    BY <1>0, <1>3, <2>1, <2>3 DEF TurnSends
  <2> QED
    BY <1>3, <2>1, <2>3, <2>4 DEF Turn, Ready
<1> QED
  BY <1>1, <1>2, <1>3

----------------------------------------------------------------------------
(* Types, the backlog and the submits that wait.                             *)

\* The backlog holds rides whose submit has returned, each once, and a drain uploads
\* such an entry.
Backlog ==
  /\ OncePerRide(queue)
  /\ \A e \in Range(queue) : pc[e.ride] = "done"
  /\ drain.on => pc[drain.cur.ride] = "done"

\* The submits that wait for a drain are those that it will resume, each once.
Waiters ==
  /\ Distinct(waiting)
  /\ \A r \in Ride : pc[r] = "waiting" <=> r \in Range(waiting)
  /\ ~drain.on => waiting = <<>>

PhoneOK ==
  /\ queue \in Seq(Entry)
  /\ drain \in {Idle} \cup [on : {TRUE}, cur : Entry, tried : SUBSET Ride, acc : BOOLEAN]
  /\ pc \in [Ride -> Steps]
  /\ waiting \in Seq(Ride)
  /\ Backlog /\ Waiters

RestOK ==
  /\ accepted \subseteq Ride
  /\ consent \in BOOLEAN /\ switch \in BOOLEAN
  /\ stray \subseteq Ride
  /\ landed \in Seq(Ride)
  /\ bound \in Bounds /\ faults \in 0..bound.faults
  /\ optedOut \subseteq Ride
  /\ rejected \in [Ride -> Nat] /\ lost \in [Ride -> Nat]

\* The type invariant, sorted by who keeps the state.
LEMMA TypesOK == TypeOK /\ Backlog /\ Waiters <=> PhoneOK /\ RestOK
  BY DEF TypeOK, PhoneOK, RestOK, Steps

\* The fields of a drain.
LEMMA DrainFacts ==
  ASSUME PhoneOK
  PROVE  /\ drain.on \in BOOLEAN /\ Idle.on = FALSE
         /\ ~drain.on => drain = Idle
         /\ drain.on => /\ drain.cur \in Entry /\ drain.tried \subseteq Ride /\ drain.acc \in BOOLEAN
                        /\ drain.cur.ride \in Ride /\ drain.cur.attempts \in Nat
                        /\ drain = [on |-> TRUE, cur |-> drain.cur, tried |-> drain.tried,
                                    acc |-> drain.acc]
<1> DEFINE D == [on : {TRUE}, cur : Entry, tried : SUBSET Ride, acc : BOOLEAN]
<1>1. Idle.on = FALSE
  BY DEF Idle
<1>2. CASE drain = Idle
  BY <1>1, <1>2
<1>3. CASE drain \in D
  <2>1. /\ drain.on = TRUE /\ drain.cur \in Entry /\ drain.tried \subseteq Ride
        /\ drain.acc \in BOOLEAN
        /\ drain = [on |-> drain.on, cur |-> drain.cur, tried |-> drain.tried, acc |-> drain.acc]
    BY <1>3
  <2>2. drain.cur.ride \in Ride /\ drain.cur.attempts \in Nat
    BY <2>1, QueueAssumption DEF Entry
  <2> QED BY <1>1, <2>1, <2>2
<1> QED
  BY <1>2, <1>3 DEF PhoneOK

\* The same of a drain that starts an upload.
LEMMA UploadingType ==
  ASSUME NEW e \in Entry, NEW t \in SUBSET Ride, NEW a \in BOOLEAN
  PROVE  /\ Uploading(e, t, a) \in [on : {TRUE}, cur : Entry, tried : SUBSET Ride, acc : BOOLEAN]
         /\ Uploading(e, t, a).on /\ Uploading(e, t, a).cur = e
         /\ Uploading(e, t, a).tried = t /\ Uploading(e, t, a).acc = a
  BY DEF Uploading

\* Sequences of no and of one member.
LEMMA ShortLists ==
  /\ <<>> \in Seq(Ride) /\ Distinct(<<>>) /\ Range(<<>>) = {}
  /\ <<>> \in Seq(Entry) /\ OncePerRide(<<>>) /\ Sorted(<<>>) /\ Len(<<>>) = 0
  /\ \A r \in Ride : <<r>> \in Seq(Ride) /\ Distinct(<<r>>) /\ Range(<<r>>) = {r} /\ Len(<<r>>) = 1
<1>1. ASSUME NEW r \in Ride PROVE /\ <<r>> \in Seq(Ride) /\ Distinct(<<r>>)
                                  /\ Range(<<r>>) = {r} /\ Len(<<r>>) = 1
  <2>1. /\ <<r>> \in Seq(Ride) /\ Len(<<r>>) = 1 /\ DOMAIN <<r>> = {1} /\ <<r>>[1] = r
    OBVIOUS
  <2> QED BY <2>1 DEF Distinct, Range
<1> QED
  BY <1>1 DEF Distinct, Range, OncePerRide, Sorted

\* What the entries of the backlog are.
LEMMA QueuedFacts ==
  ASSUME PhoneOK
  PROVE  /\ \A e \in Range(queue) : e \in Entry /\ e.ride \in Ride /\ e.attempts \in Nat
                                    /\ pc[e.ride] = "done"
         /\ \A e, d \in Range(queue) : e.ride = d.ride => e = d
         /\ Queued(queue) = {e.ride : e \in Range(queue)}
<1>0. queue \in [1..Len(queue) -> Entry] /\ DOMAIN queue = 1..Len(queue)
  BY DEF PhoneOK
<1>1. \A e : e \in Range(queue) <=> \E i \in DOMAIN queue : e = queue[i]
  BY DEF Range
<1>2. \A e \in Range(queue) : e \in Entry /\ pc[e.ride] = "done"
  BY <1>0, <1>1 DEF PhoneOK, Backlog
<1>3. \A e \in Entry : e.ride \in Ride /\ e.attempts \in Nat
  BY QueueAssumption DEF Entry
<1>4. \A e, d \in Range(queue) : e.ride = d.ride => e = d
  BY <1>1 DEF PhoneOK, Backlog, OncePerRide
<1>5. Queued(queue) = {e.ride : e \in Range(queue)}
  BY <1>1 DEF Queued
<1> QED
  BY <1>2, <1>3, <1>4, <1>5

\* A ride queued whose submit had not returned.
LEMMA EnqueueOneFacts ==
  ASSUME PhoneOK, NEW r \in Ride, pc[r] # "done"
  PROVE  /\ Enqueued(queue, <<r>>) \in Seq(Entry) /\ OncePerRide(Enqueued(queue, <<r>>))
         /\ Range(Enqueued(queue, <<r>>)) = Range(queue) \cup {Fresh(r)}
         /\ Fresh(r).ride = r /\ Fresh(r).attempts = 0
         /\ Sorted(queue) /\ (\A e \in Range(queue) : e.ride < r)
              => Sorted(Enqueued(queue, <<r>>))
<1>1. <<r>> \in Seq(Ride) /\ Distinct(<<r>>) /\ Range(<<r>>) = {r} /\ Len(<<r>>) = 1
  BY ShortLists
<1>2. \A e \in Range(queue) : e.ride \notin Range(<<r>>)
  BY <1>1, QueuedFacts
<1>3. /\ Enqueued(queue, <<r>>) \in Seq(Entry) /\ OncePerRide(Enqueued(queue, <<r>>))
      /\ Range(Enqueued(queue, <<r>>)) = Range(queue) \cup {Fresh(s) : s \in Range(<<r>>)}
      /\ Sorted(queue) /\ Len(<<r>>) <= 1 /\ (\A e \in Range(queue), s \in Range(<<r>>) : e.ride < s)
           => Sorted(Enqueued(queue, <<r>>))
  BY <1>1, <1>2, EnqueuedFacts DEF PhoneOK, Backlog
<1>4. {Fresh(s) : s \in Range(<<r>>)} = {Fresh(r)}
  BY <1>1
<1>5. Sorted(queue) /\ (\A e \in Range(queue) : e.ride < r) => Sorted(Enqueued(queue, <<r>>))
  BY <1>1, <1>3
<1> QED
  BY <1>3, <1>4, <1>5 DEF Fresh

\* The backlog and the submits waiting fit a turn, and so do the backlog and a new submit.
LEMMA ReadyFacts ==
  ASSUME PhoneOK
  PROVE  /\ Ready(queue, waiting) /\ Ready(queue, <<>>)
         /\ \A r \in Ride : pc[r] = "new" => Ready(queue, <<r>>)
<1>1. \A e \in Range(queue) : e.ride \in Ride /\ pc[e.ride] = "done"
  BY QueuedFacts
<1>2. \A r \in Range(waiting) : r \in Ride /\ pc[r] = "waiting"
  BY DEF PhoneOK, Waiters, Range
<1> QED
  BY <1>1, <1>2, ShortLists DEF Ready, PhoneOK, Backlog, Waiters

\* The submits that a turn may resume, and a backlog that it may work on.
Resumes(w) ==
  /\ \A r \in Range(w) : r \in Ride /\ pc[r] \in {"new", "waiting"}
  /\ \A r \in Ride : pc[r] = "waiting" => r \in Range(w)

\* A turn keeps the state of the phone in order.
LEMMA TurnKeepsPhone ==
  ASSUME PhoneOK, NEW q, NEW w, NEW tried \in SUBSET Ride,
         Ready(q, w), Turn(q, tried, w), Resumes(w),
         \A e \in Range(q) : pc[e.ride] = "done"
  PROVE  PhoneOK'
<1>0. /\ \A e \in Range(q) : e \in Entry /\ e.ride \in Ride /\ pc[e.ride] = "done"
      /\ queue' \in Seq(Entry) /\ pc' \in [Ride -> Steps]
      /\ \A e \in Range(queue') : e \in Entry /\ e.ride \in Ride
      /\ \A r \in Ride : r \notin Range(w) => pc'[r] = pc[r]
  <2>1. \A s \in Seq(Entry) : \A e \in Range(s) : e \in Entry
    BY DEF Range
  <2>2. \A e \in Entry : e.ride \in Ride
    BY DEF Entry
  <2> QED
    BY <2>1, <2>2 DEF Ready, Turn
<1>1. OncePerRide(queue') /\ \A e \in Range(queue') : pc'[e.ride] = "done"
  <2>1. \A e \in Range(q) : e.ride \notin Range(w) /\ pc'[e.ride] = "done"
    BY <1>0 DEF Ready
  <2> QED
    BY <2>1 DEF Turn
<1>2. CASE TurnEnds(q, tried, w)
  <2>1. /\ drain' = Idle /\ waiting' = <<>> /\ Idle.on = FALSE
        /\ \A r \in Range(w) : pc'[r] # "waiting"
    BY <1>2, DrainFacts DEF TurnEnds
  <2>2. \A r \in Ride : pc'[r] # "waiting"
    BY <1>0, <2>1 DEF Resumes
  <2> QED
    BY <1>0, <1>1, <2>1, <2>2, ShortLists DEF PhoneOK, Backlog, Waiters
<1>3. CASE TurnSends(q, tried, w)
  <2>1. PICK e \in Range(q) : drain' = Uploading(e, tried \cup {e.ride}, FALSE)
    BY <1>3 DEF TurnSends
  <2>2. /\ drain' \in [on : {TRUE}, cur : Entry, tried : SUBSET Ride, acc : BOOLEAN]
        /\ drain'.on /\ drain'.cur = e
    <3>1. e \in Entry /\ tried \cup {e.ride} \in SUBSET Ride /\ FALSE \in BOOLEAN
      BY <1>0
    <3> QED BY <2>1, <3>1, UploadingType
  <2>3. waiting' = w /\ queue' = q /\ \A r \in Range(w) : pc'[r] = "waiting"
    BY <1>3 DEF TurnSends
  <2>4. \A r \in Ride : pc'[r] = "waiting" <=> r \in Range(w)
    BY <1>0, <2>3 DEF Resumes
  <2> QED
    BY <1>0, <1>1, <2>2, <2>3, <2>4 DEF PhoneOK, Backlog, Waiters, Ready
<1> QED
  BY <1>2, <1>3 DEF Turn

\* Adding to a call in flight, or clearing the backlog under it.
LEMMA JoinKeepsPhone ==
  ASSUME PhoneOK, NEW w \in Seq(Ride), Distinct(w), drain.on,
         \A r \in Range(w) : pc[r] = "new",
         waiting' = waiting \o w,
         pc' = [r \in Ride |-> IF r \in Range(w) THEN "waiting" ELSE pc[r]],
         queue' = queue, UNCHANGED drain
  PROVE  PhoneOK'
<1>1. Range(w) \subseteq Ride
  BY DEF Range
<1>2. \A r \in Range(w) : r \notin Range(waiting)
  BY <1>1 DEF PhoneOK, Waiters
<1>3. /\ waiting' \in Seq(Ride) /\ Distinct(waiting')
      /\ Range(waiting') = Range(waiting) \cup Range(w)
  BY <1>2, JoinFacts DEF PhoneOK, Waiters
<1>4. pc' \in [Ride -> Steps]
  BY <1>1 DEF PhoneOK, Steps
<1>5. /\ \A r \in Range(w) : pc'[r] = "waiting"
      /\ \A r \in Ride : r \notin Range(w) => pc'[r] = pc[r]
  BY <1>1
<1>6. Backlog'
  <2>1. \A r \in Ride : pc[r] = "done" => pc'[r] = "done"
    BY <1>5
  <2>2. \A e \in Range(queue) : e.ride \in Ride /\ pc[e.ride] = "done"
    BY QueuedFacts
  <2> QED
    BY <2>1, <2>2, DrainFacts DEF PhoneOK, Backlog
<1>7. Waiters'
  BY <1>3, <1>5 DEF PhoneOK, Waiters
<1> QED
  BY <1>3, <1>4, <1>6, <1>7 DEF PhoneOK

\* The same with at most an entry added, and one submit that is over, or none.
LEMMA RideEndsKeepsPhone ==
  ASSUME PhoneOK, NEW r \in Ride, NEW how \in Steps,
         pc[r] \in {"new", "live"}, how \notin {"waiting", "new"},
         pc' = [pc EXCEPT ![r] = how],
         UNCHANGED <<drain, waiting>>,
         \/ queue' \in {queue, <<>>}
         \/ queue' = Enqueued(queue, <<r>>) /\ how = "done"
  PROVE  PhoneOK'
<1>1. /\ pc' \in [Ride -> Steps] /\ pc'[r] = how
      /\ \A s \in Ride \ {r} : pc'[s] = pc[s]
  BY DEF PhoneOK
<1>2. \A e \in Range(queue) : e.ride \in Ride /\ e.ride # r /\ pc'[e.ride] = "done"
  BY <1>1, QueuedFacts
<1>3. /\ queue' \in Seq(Entry) /\ OncePerRide(queue')
      /\ \A e \in Range(queue') : pc'[e.ride] = "done"
  <2>1. CASE queue' \in {queue, <<>>}
    BY <2>1, <1>2, ShortLists DEF PhoneOK, Backlog
  <2>2. CASE queue' = Enqueued(queue, <<r>>) /\ how = "done"
    BY <2>2, <1>1, <1>2, EnqueueOneFacts
  <2> QED BY <2>1, <2>2
<1>4. drain.on => pc'[drain.cur.ride] = "done"
  BY <1>1, DrainFacts DEF PhoneOK, Backlog
<1>5. Waiters'
  BY <1>1 DEF PhoneOK, Waiters
<1> QED
  BY <1>1, <1>3, <1>4, <1>5 DEF PhoneOK, Backlog

\* An idle phone with nobody waiting, whatever else became of the submits.
LEMMA KillKeepsPhone ==
  ASSUME PhoneOK, drain' = Idle, waiting' = <<>>, queue' = queue,
         pc' = [r \in Ride |-> IF r \in Open THEN "killed" ELSE pc[r]]
  PROVE  PhoneOK'
<1>1. /\ pc' \in [Ride -> Steps] /\ \A r \in Ride : pc'[r] # "waiting"
      /\ \A r \in Ride : pc[r] = "done" => pc'[r] = "done"
  BY DEF PhoneOK, Steps, Open
<1>2. \A e \in Range(queue) : e.ride \in Ride /\ pc[e.ride] = "done"
  BY QueuedFacts
<1> QED
  BY <1>1, <1>2, ShortLists, DrainFacts DEF PhoneOK, Backlog, Waiters

\* The backlog after an entry left it or was bumped.
LEMMA EditFacts ==
  ASSUME PhoneOK, NEW e \in Entry,
         NEW q, q = RemoveById(queue, e.ride) \/ q = Bump(queue, e)
  PROVE  /\ Ready(q, waiting)
         /\ \A d \in Range(q) : pc[d.ride] = "done"
         /\ Sorted(queue) => Sorted(q)
<1>0. /\ queue \in Seq(Entry) /\ OncePerRide(queue) /\ e.ride \in Ride
      /\ e.attempts \in 0..MaxAttempts /\ MaxAttempts \in Nat
  BY QueueAssumption DEF PhoneOK, Backlog, Entry
<1>1. /\ q \in Seq(Entry) /\ OncePerRide(q) /\ (Sorted(queue) => Sorted(q))
      /\ \A d \in Range(q) : \E c \in Range(queue) : d.ride = c.ride
  <2>1. CASE q = RemoveById(queue, e.ride)
    BY <2>1, <1>0, RemoveByIdFacts
  <2>2. CASE q # RemoveById(queue, e.ride)
    <3> DEFINE new == [e EXCEPT !.attempts = @ + 1]
    <3>1. e.attempts + 1 < MaxAttempts /\ q = ReplaceById(queue, new)
      BY <2>2, <1>0 DEF Bump
    <3>2. new \in Entry /\ new.ride = e.ride
      BY <3>1, <1>0 DEF Entry
    <3> HIDE DEF new
    <3>3. /\ ReplaceById(queue, new) \in Seq(Entry) /\ OncePerRide(ReplaceById(queue, new))
          /\ Sorted(queue) => Sorted(ReplaceById(queue, new))
          /\ \A d \in Range(ReplaceById(queue, new)) :
               \/ d \in Range(queue) /\ d.ride # new.ride
               \/ d = new /\ \E c \in Range(queue) : c.ride = new.ride
      BY <3>2, <1>0, ReplaceByIdFacts
    <3> QED
      BY <3>1, <3>3
  <2> QED BY <2>1, <2>2
<1>2. \A d \in Range(q) : d.ride \in Ride /\ pc[d.ride] = "done"
  BY <1>1, QueuedFacts
<1>3. \A r \in Range(waiting) : pc[r] = "waiting"
  BY DEF PhoneOK, Waiters, Range
<1> QED
  BY <1>1, <1>2, <1>3 DEF Ready, PhoneOK, Waiters

\* The submits waiting for the drain in flight may be resumed by it; a drain that
\* starts resumes the one that started it, if any.
LEMMA ResumesFacts ==
  ASSUME PhoneOK
  PROVE  /\ Resumes(waiting)
         /\ ~drain.on => Resumes(<<>>)
         /\ ~drain.on => \A r \in Ride : pc[r] = "new" => Resumes(<<r>>)
<1>1. \A r \in Range(waiting) : r \in Ride /\ pc[r] = "waiting"
  BY DEF PhoneOK, Waiters, Range
<1>2. ~drain.on => \A r \in Ride : pc[r] # "waiting"
  BY ShortLists DEF PhoneOK, Waiters
<1> QED
  BY <1>1, <1>2, ShortLists DEF Resumes, PhoneOK, Waiters

\* What a submit, a retry, and a reply to a drain do to the phone.
LEMMA SubmitCases ==
  ASSUME PhoneOK, NEW r \in Ride, Submit(r)
  PROVE  /\ pc[r] = "new"
         /\ \/ Turn(queue, {}, <<r>>) /\ ~drain.on /\ consent /\ switch
            \/ /\ drain.on /\ consent /\ switch
               /\ waiting' = waiting \o <<r>>
               /\ pc' = [s \in Ride |-> IF s \in {r} THEN "waiting" ELSE pc[s]]
               /\ queue' = queue /\ UNCHANGED drain
            \/ /\ ~(consent /\ switch)
               /\ pc' = [pc EXCEPT ![r] = "done"] /\ UNCHANGED <<drain, waiting>>
               /\ queue' = IF consent THEN Enqueued(queue, <<r>>) ELSE <<>>
<1>1. pc[r] = "new"
  <2>1. Submitted = 1..(r - 1) /\ r \in Nat
    BY QueueAssumption DEF Submit, Ride
  <2>2. r \notin 1..(r - 1)
    BY <2>1
  <2> QED BY <2>1, <2>2 DEF Submitted
<1>2. CASE consent /\ switch /\ ~drain.on
  <2>1. Loop(queue, {}, <<r>>)
    BY <1>2 DEF Submit, CallDrain
  <2> QED BY <2>1, <1>1, <1>2, ReadyFacts, LoopIsTurn
<1>3. CASE consent /\ switch /\ drain.on
  BY <1>1, <1>3, ShortLists DEF Submit, CallDrain
<1>4. CASE ~(consent /\ switch)
  BY <1>1, <1>4 DEF Submit
<1> QED
  BY <1>2, <1>3, <1>4

\* A retry runs a turn, joins the drain in flight, or clears the backlog.
LEMMA RetryCases ==
  ASSUME PhoneOK, RetryNow
  PROVE  \/ Turn(queue, {}, <<>>) /\ ~drain.on
         \/ drain.on /\ UNCHANGED <<queue, drain, pc, waiting>>
         \/ drain.on /\ ~consent /\ queue' = <<>> /\ UNCHANGED <<drain, pc, waiting>>
<1>1. CASE ~drain.on
  <2>1. Loop(queue, {}, <<>>)
    BY <1>1 DEF RetryNow, CallDrain
  <2> QED BY <2>1, <1>1, ReadyFacts, LoopIsTurn
<1>2. CASE drain.on /\ consent /\ switch
  <2>1. /\ waiting' = waiting \o <<>> /\ queue' = queue /\ drain' = drain
        /\ pc' = [s \in Ride |-> IF s \in Range(<<>>) THEN "waiting" ELSE pc[s]]
    BY <1>2 DEF RetryNow, CallDrain
  <2>2. waiting' = waiting
    BY <2>1, ConcatEmptySeq DEF PhoneOK
  <2>3. pc' = [s \in Ride |-> pc[s]] /\ pc = [s \in Ride |-> pc[s]]
    BY <2>1, ShortLists DEF PhoneOK
  <2> QED BY <1>2, <2>1, <2>2, <2>3
<1>3. CASE drain.on /\ ~(consent /\ switch)
  BY <1>3 DEF RetryNow, CallDrain
<1> QED
  BY <1>1, <1>2, <1>3

\* The backlog that the rest of the turn works on after a reply to the drain.
AfterReply(q) ==
  \/ DrainUploaded /\ q = RemoveById(queue, drain.cur.ride)
  \/ (DrainNetworkDown \/ DrainTransient) /\ q = queue
  \/ DrainRejected /\ q = IF consent THEN Bump(queue, drain.cur) ELSE queue

\* A reply to a drain edits the backlog and runs a turn.
LEMMA ReplyCases ==
  ASSUME PhoneOK, DrainReply
  PROVE  \E q : /\ AfterReply(q) /\ drain.on
                /\ Ready(q, waiting) /\ Turn(q, drain.tried, waiting)
                /\ \A e \in Range(q) : pc[e.ride] = "done"
                /\ Sorted(queue) => Sorted(q)
<1>0. drain.on /\ drain.cur \in Entry /\ drain.cur.ride \in Ride
  BY DrainFacts DEF DrainReply, DrainUploaded, DrainNetworkDown, DrainTransient, DrainRejected
<1>1. CASE DrainUploaded
  <2> DEFINE q == RemoveById(queue, drain.cur.ride)
  <2>1. Ready(q, waiting) /\ (Sorted(queue) => Sorted(q)) /\ \A e \in Range(q) : pc[e.ride] = "done"
    BY <1>0, EditFacts
  <2>2. Loop(q, drain.tried, waiting)
    BY <1>1 DEF DrainUploaded
  <2> HIDE DEF q
  <2>3. Turn(q, drain.tried, waiting)
    BY <2>1, <2>2, LoopIsTurn
  <2> QED
    BY <1>0, <1>1, <2>1, <2>3 DEF AfterReply, q
<1>2. Ready(queue, waiting) /\ \A e \in Range(queue) : pc[e.ride] = "done"
  BY ReadyFacts, QueuedFacts
<1>3. CASE DrainNetworkDown \/ DrainTransient
  <2>1. \E net, transient \in BOOLEAN : (net \/ transient) /\ Failed(net, transient)
    BY <1>3 DEF DrainNetworkDown, DrainTransient
  <2>2. PICK net \in BOOLEAN, transient \in BOOLEAN : (net \/ transient) /\ Failed(net, transient)
    BY <2>1
  <2>3. Turn(queue, drain.tried, waiting)
    BY <1>2, <2>2, EndIsTurn DEF Failed
  <2> QED
    BY <1>0, <1>2, <1>3, <2>3 DEF AfterReply
<1>4. CASE DrainRejected /\ ~consent
  <2>1. EndDrain(<<>>, FALSE, FALSE, waiting)
    BY <1>4 DEF DrainRejected
  <2>2. Turn(queue, drain.tried, waiting)
    BY <1>2, <1>4, <2>1, EndIsTurn
  <2> QED
    BY <1>0, <1>2, <1>4, <2>2 DEF AfterReply
<1>5. CASE DrainRejected /\ consent
  <2> DEFINE q == Bump(queue, drain.cur)
  <2>1. Ready(q, waiting) /\ (Sorted(queue) => Sorted(q)) /\ \A e \in Range(q) : pc[e.ride] = "done"
    BY <1>0, EditFacts
  <2>2. Loop(q, drain.tried, waiting)
    BY <1>5 DEF DrainRejected
  <2> HIDE DEF q
  <2>3. Turn(q, drain.tried, waiting)
    BY <2>1, <2>2, LoopIsTurn
  <2> QED
    BY <1>0, <1>5, <2>1, <2>3 DEF AfterReply, q
<1> QED
  BY <1>1, <1>3, <1>4, <1>5 DEF DrainReply

\* A reply to a live upload ends the submit of its ride, and may queue it.
LEMMA LiveCases ==
  ASSUME NEW r \in Ride, LiveReply(r)
  PROVE  /\ pc[r] = "live" /\ UNCHANGED <<drain, waiting, consent, switch, landed, optedOut, bound>>
         /\ accepted' = accepted \ {r}
         /\ \/ LiveUploaded(r) /\ pc' = [pc EXCEPT ![r] = "done"] /\ queue' = queue
            \/ /\ LiveNetworkDown(r) \/ LiveTransient(r)
               /\ pc' = [pc EXCEPT ![r] = "done"]
               /\ queue' = IF consent THEN Enqueued(queue, <<r>>) ELSE <<>>
            \/ LiveRejected(r) /\ pc' = [pc EXCEPT ![r] = "failed"] /\ queue' = queue
<1> USE DEF LiveEnd, KeepForLater, history
<1>1. CASE LiveUploaded(r) BY <1>1 DEF LiveUploaded
<1>2. CASE LiveNetworkDown(r) BY <1>2 DEF LiveNetworkDown
<1>3. CASE LiveTransient(r) BY <1>3 DEF LiveTransient
<1>4. CASE LiveRejected(r) BY <1>4 DEF LiveRejected
<1> QED
  BY <1>1, <1>2, <1>3, <1>4 DEF LiveReply

\* Every step keeps the state of the phone in order.
LEMMA PhoneInductive == PhoneOK /\ RestOK /\ [Next]_vars => PhoneOK'
<1> SUFFICES ASSUME PhoneOK, RestOK, [Next]_vars PROVE PhoneOK'
  OBVIOUS
<1> USE DEF history
<1>1. ASSUME NEW r \in Ride, Submit(r) PROVE PhoneOK'
  <2>0. /\ pc[r] = "new" /\ Range(<<r>>) = {r} /\ <<r>> \in Seq(Ride) /\ Distinct(<<r>>)
        /\ Ready(queue, <<r>>) /\ \A e \in Range(queue) : pc[e.ride] = "done"
    BY <1>1, SubmitCases, ShortLists, ReadyFacts, QueuedFacts
  <2>1. CASE Turn(queue, {}, <<r>>) /\ ~drain.on
    <3>1. Resumes(<<r>>) /\ {} \in SUBSET Ride
      BY <2>0, <2>1, ResumesFacts
    <3> QED BY <2>0, <2>1, <3>1, TurnKeepsPhone
  <2>2. CASE /\ drain.on /\ waiting' = waiting \o <<r>>
             /\ pc' = [s \in Ride |-> IF s \in {r} THEN "waiting" ELSE pc[s]]
             /\ queue' = queue /\ UNCHANGED drain
    BY <2>0, <2>2, JoinKeepsPhone
  <2>3. CASE /\ pc' = [pc EXCEPT ![r] = "done"] /\ UNCHANGED <<drain, waiting>>
             /\ queue' = IF consent THEN Enqueued(queue, <<r>>) ELSE <<>>
    BY <2>0, <2>3, RideEndsKeepsPhone DEF Steps
  <2> QED
    BY <1>1, <2>1, <2>2, <2>3, SubmitCases
<1>2. ASSUME RetryNow PROVE PhoneOK'
  <2>1. CASE Turn(queue, {}, <<>>) /\ ~drain.on
    BY <2>1, ReadyFacts, ResumesFacts, QueuedFacts, TurnKeepsPhone
  <2>2. CASE UNCHANGED <<drain, pc, waiting>> /\ queue' \in {queue, <<>>}
    BY <2>2, ShortLists DEF PhoneOK, Backlog, Waiters
  <2> QED
    BY <1>2, <2>1, <2>2, RetryCases
<1>3. ASSUME DrainReply PROVE PhoneOK'
  <2>1. PICK q : /\ drain.on /\ Ready(q, waiting) /\ Turn(q, drain.tried, waiting)
                 /\ \A e \in Range(q) : pc[e.ride] = "done"
    BY <1>3, ReplyCases
  <2>2. drain.tried \in SUBSET Ride /\ Resumes(waiting)
    BY <2>1, DrainFacts, ResumesFacts
  <2> QED
    BY <2>1, <2>2, TurnKeepsPhone
<1>4. ASSUME DrainAccepted PROVE PhoneOK'
  <2>1. /\ drain' = Uploading(drain.cur, drain.tried, TRUE) /\ drain.on
        /\ UNCHANGED <<queue, pc, waiting>>
    BY <1>4, DrainFacts DEF DrainAccepted, Uploading
  <2>2. /\ drain' \in [on : {TRUE}, cur : Entry, tried : SUBSET Ride, acc : BOOLEAN]
        /\ drain'.on /\ drain'.cur = drain.cur
    BY <2>1, DrainFacts, UploadingType
  <2> QED
    BY <2>1, <2>2 DEF PhoneOK, Backlog, Waiters
<1>5. ASSUME NEW r \in Ride, LiveReply(r) PROVE PhoneOK'
  <2>1. \E how \in {"done", "failed"} :
          /\ pc[r] = "live" /\ UNCHANGED <<drain, waiting>>
          /\ pc' = [pc EXCEPT ![r] = how]
          /\ \/ queue' \in {queue, <<>>}
             \/ queue' = Enqueued(queue, <<r>>) /\ how = "done"
    BY <1>5, LiveCases
  <2> QED
    BY <2>1, RideEndsKeepsPhone DEF Steps
<1>6. ASSUME Kill PROVE PhoneOK'
  BY <1>6, KillKeepsPhone DEF Kill
<1>7. CASE UNCHANGED <<queue, drain, pc, waiting>>
  BY <1>7 DEF PhoneOK, Backlog, Waiters
<1>8. CASE ToggleConsent \/ ToggleSwitch \/ \E r \in Ride : LiveAccepted(r) \/ StrayLands(r)
  BY <1>7, <1>8 DEF ToggleConsent, ToggleSwitch, LiveAccepted, StrayLands, phone
<1> QED
  BY <1>1, <1>2, <1>3, <1>4, <1>5, <1>6, <1>7, <1>8 DEF Next, vars, phone

\* Every step keeps the types of the rest.
LEMMA RestInductive == PhoneOK /\ RestOK /\ [Next]_vars => RestOK'
<1> SUFFICES ASSUME PhoneOK, RestOK, [Next]_vars PROVE RestOK'
  OBVIOUS
<1> USE DEF history, phone, RestOK
<1>0. bound.faults \in Nat /\ (faults < bound.faults => faults + 1 \in 0..bound.faults)
  BY QueueAssumption
<1>1. ASSUME NEW r \in Ride PROVE /\ Append(landed, r) \in Seq(Ride)
                                  /\ [lost EXCEPT ![r] = @ + 1] \in [Ride -> Nat]
                                  /\ CountRejection(r) => rejected' \in [Ride -> Nat]
                                  /\ stray \cup {r} \subseteq Ride
  BY DEF CountRejection
<1>2. ASSUME NEW r \in Ride, Submit(r) PROVE RestOK'
  BY <1>2 DEF Submit
<1>3. ASSUME RetryNow PROVE RestOK'
  BY <1>3 DEF RetryNow
<1>4. ASSUME DrainReply PROVE RestOK'
  <2>0. drain.on /\ drain.cur.ride \in Ride
    BY <1>4, DrainFacts DEF DrainReply, DrainUploaded, DrainNetworkDown, DrainTransient, DrainRejected
  <2>1. CASE DrainUploaded BY <2>1 DEF DrainUploaded
  <2>2. CASE DrainNetworkDown BY <2>0, <2>2, <1>0, <1>1 DEF DrainNetworkDown, GivenUp
  <2>3. CASE DrainTransient BY <2>3, <1>0 DEF DrainTransient
  <2>4. CASE DrainRejected BY <2>0, <2>4, <1>1 DEF DrainRejected
  <2> QED BY <1>4, <2>1, <2>2, <2>3, <2>4 DEF DrainReply
<1>5. ASSUME NEW r \in Ride, LiveReply(r) PROVE RestOK'
  <2> USE DEF LiveEnd
  <2>1. CASE LiveUploaded(r) BY <2>1 DEF LiveUploaded
  <2>2. CASE LiveNetworkDown(r) BY <2>2, <1>0, <1>1 DEF LiveNetworkDown, GivenUp
  <2>3. CASE LiveTransient(r) BY <2>3, <1>0 DEF LiveTransient
  <2>4. CASE LiveRejected(r) BY <2>4, <1>1 DEF LiveRejected
  <2> QED BY <1>5, <2>1, <2>2, <2>3, <2>4 DEF LiveReply
<1>6. ASSUME DrainAccepted PROVE RestOK'
  <2>1. drain.on /\ drain.cur.ride \in Ride
    BY <1>6, DrainFacts DEF DrainAccepted
  <2> QED BY <1>6, <2>1, <1>1 DEF DrainAccepted, Land
<1>7. ASSUME NEW r \in Ride, LiveAccepted(r) \/ StrayLands(r) PROVE RestOK'
  BY <1>7, <1>1 DEF LiveAccepted, StrayLands, Land
<1>8. CASE ToggleConsent \/ ToggleSwitch
  BY <1>8 DEF ToggleConsent, ToggleSwitch, Submitted
<1>9. ASSUME Kill PROVE RestOK'
  <2>1. /\ stray' \subseteq Ride
        /\ lost' \in [Ride -> Nat]
        /\ faults' = faults + 1 /\ faults < bound.faults /\ accepted' = {}
        /\ UNCHANGED <<consent, switch, landed, optedOut, rejected, bound>>
    BY <1>9, DrainFacts DEF Kill
  <2> QED BY <2>1, <1>0
<1>10. CASE UNCHANGED vars
  BY <1>10 DEF vars
<1> QED
  BY <1>2, <1>3, <1>4, <1>5, <1>6, <1>7, <1>8, <1>9, <1>10 DEF Next

\* So do the initial states.
LEMMA InitOK == Init => PhoneOK /\ RestOK
<1> SUFFICES ASSUME Init PROVE PhoneOK /\ RestOK
  OBVIOUS
<1>1. /\ queue = <<>> /\ waiting = <<>> /\ drain = Idle /\ Idle.on = FALSE
      /\ pc = [r \in Ride |-> "new"]
  BY DEF Init, Idle
<1>2. PhoneOK
  BY <1>1, ShortLists DEF PhoneOK, Backlog, Waiters, Steps
<1>3. bound \in Bounds /\ bound.faults \in Nat
  BY QueueAssumption DEF Init
<1> QED
  BY <1>2, <1>3, ShortLists DEF Init, RestOK

\* What every reachable state satisfies, so far.
LEMMA StateOK == Spec => [](PhoneOK /\ RestOK)
  BY InitOK, PhoneInductive, RestInductive, PTL DEF Spec

\* Every reachable state is of the declared types.
THEOREM TypeCorrect == Spec => []TypeOK
  BY StateOK, TypesOK, PTL

----------------------------------------------------------------------------
(* No submitted ride is lost.                                                *)

\* What a reply will confirm has reached the server.
Receipts ==
  /\ \A r \in accepted : pc[r] = "live" /\ r \in Range(landed)
  /\ drain.on /\ drain.acc => drain.cur.ride \in Range(landed)

\* Whoever has submitted a ride by a time without consent has opted it out.
OptedOut == ~consent => Submitted \subseteq optedOut

\* An entry has no more attempts than its ride has been rejected.
Budget ==
  /\ \A e \in Range(queue) : e.attempts <= rejected[e.ride]
  /\ drain.on => drain.cur.attempts <= rejected[drain.cur.ride]

InQueue(r) == \E e \in Range(queue) : e.ride = r
Kept(r) == InQueue(r) \/ r \in Range(landed) \cup optedOut \/ rejected[r] >= MaxAttempts
AllKept == \A r \in Ride : pc[r] = "done" => Kept(r)

KeepsRides == Receipts /\ OptedOut /\ Budget /\ AllKept

\* A rejection counted: up to MaxAttempts, and never fewer.
LEMMA RejectionFacts ==
  ASSUME RestOK, NEW r \in Ride, CountRejection(r)
  PROVE  /\ \A s \in Ride : rejected'[s] \in Nat /\ rejected[s] \in Nat /\ rejected[s] <= rejected'[s]
         /\ \A s \in Ride \ {r} : rejected'[s] = rejected[s]
         /\ \A n \in Nat : n <= rejected[r] =>
              /\ n + 1 >= MaxAttempts => rejected'[r] >= MaxAttempts
              /\ n + 1 < MaxAttempts => n + 1 <= rejected'[r]
         /\ rejected'[r] > 0
<1>1. /\ rejected' = [rejected EXCEPT ![r] = IF rejected[r] < MaxAttempts THEN rejected[r] + 1
                                             ELSE rejected[r]]
      /\ rejected \in [Ride -> Nat] /\ MaxAttempts \in Nat \ {0}
  BY QueueAssumption DEF CountRejection, RestOK
<1>2. /\ rejected'[r] = IF rejected[r] < MaxAttempts THEN rejected[r] + 1 ELSE rejected[r]
      /\ \A s \in Ride \ {r} : rejected'[s] = rejected[s]
      /\ \A s \in Ride : rejected[s] \in Nat
  BY <1>1
<1>3. /\ rejected'[r] \in Nat /\ rejected[r] <= rejected'[r] /\ rejected'[r] > 0
      /\ \A n \in Nat : n <= rejected[r] =>
           /\ n + 1 >= MaxAttempts => rejected'[r] >= MaxAttempts
           /\ n + 1 < MaxAttempts => n + 1 <= rejected'[r]
  BY <1>1, <1>2
<1> QED
  BY <1>2, <1>3

\* History only grows.
LEMMA HistoryGrows ==
  ASSUME PhoneOK, RestOK, [Next]_vars
  PROVE  /\ Range(landed) \subseteq Range(landed')
         /\ optedOut \subseteq optedOut'
         /\ \A r \in Ride : rejected[r] \in Nat /\ rejected'[r] \in Nat /\ rejected[r] <= rejected'[r]
         /\ MaxAttempts \in Nat
<1> USE DEF history
<1>0. /\ \A r \in Ride : rejected[r] \in Nat
      /\ landed \in Seq(Ride) /\ MaxAttempts \in Nat
  BY QueueAssumption DEF RestOK
<1>1. ASSUME NEW r \in Ride, landed' = Append(landed, r)
      PROVE  Range(landed) \subseteq Range(landed')
  BY <1>0, <1>1, LandFacts
<1>2. ASSUME NEW r \in Ride, CountRejection(r)
      PROVE  \A s \in Ride : rejected'[s] \in Nat /\ rejected[s] <= rejected'[s]
  BY <1>2, RejectionFacts
<1>3. CASE \E r \in Ride : Submit(r)
  BY <1>0, <1>3 DEF Submit
<1>4. CASE RetryNow \/ DrainUploaded \/ DrainNetworkDown \/ DrainTransient \/ Kill
           \/ ToggleConsent \/ ToggleSwitch
  <2>1. UNCHANGED <<landed, rejected>>
    BY <1>4 DEF RetryNow, DrainUploaded, DrainNetworkDown, DrainTransient, Kill,
                ToggleConsent, ToggleSwitch
  <2>2. optedOut \subseteq optedOut'
    BY <1>4 DEF RetryNow, DrainUploaded, DrainNetworkDown, DrainTransient, Kill,
                ToggleConsent, ToggleSwitch
  <2> QED BY <1>0, <2>1, <2>2
<1>5. CASE DrainRejected
  <2>1. drain.cur.ride \in Ride
    BY <1>5, DrainFacts DEF DrainRejected
  <2> QED BY <1>0, <1>2, <1>5, <2>1 DEF DrainRejected
<1>6. CASE DrainAccepted
  <2>1. drain.cur.ride \in Ride
    BY <1>6, DrainFacts DEF DrainAccepted
  <2> QED BY <1>0, <1>1, <1>6, <2>1 DEF DrainAccepted, Land
<1>7. ASSUME NEW r \in Ride, LiveReply(r) \/ LiveAccepted(r) \/ StrayLands(r)
      PROVE  /\ Range(landed) \subseteq Range(landed')
             /\ optedOut \subseteq optedOut'
             /\ \A s \in Ride : rejected'[s] \in Nat /\ rejected[s] <= rejected'[s]
  BY <1>0, <1>1, <1>2, <1>7 DEF LiveReply, LiveUploaded, LiveNetworkDown, LiveTransient,
                               LiveRejected, LiveAccepted, StrayLands, Land
<1>8. CASE UNCHANGED vars
  BY <1>0, <1>8 DEF vars
<1> QED
  BY <1>0, <1>3, <1>4, <1>5, <1>6, <1>7, <1>8 DEF Next, DrainReply

\* A submit is the business of its own ride.
LEMMA SubmitFrame ==
  ASSUME PhoneOK, NEW r \in Ride, Submit(r)
  PROVE  /\ pc[r] = "new" /\ \A s \in Ride \ {r} : pc'[s] = pc[s]
         /\ UNCHANGED <<accepted, consent, switch, stray, landed, faults, rejected, lost, bound>>
         /\ optedOut' = IF consent THEN optedOut ELSE optedOut \cup {r}
<1>1. /\ UNCHANGED <<accepted, consent, switch, stray, landed, faults, rejected, lost, bound>>
      /\ optedOut' = IF consent THEN optedOut ELSE optedOut \cup {r}
  BY DEF Submit
<1>2. pc[r] = "new" /\ pc \in [Ride -> Steps] /\ \A s \in Ride \ {r} : s \notin Range(<<r>>)
  BY SubmitCases, ShortLists DEF PhoneOK
<1>3. \A s \in Ride \ {r} : pc'[s] = pc[s]
  <2>1. CASE Turn(queue, {}, <<r>>)
    BY <1>2, <2>1 DEF Turn
  <2>2. CASE pc' = [s \in Ride |-> IF s \in {r} THEN "waiting" ELSE pc[s]]
    BY <2>2
  <2>3. CASE pc' = [pc EXCEPT ![r] = "done"]
    BY <1>2, <2>3
  <2> QED BY <2>1, <2>2, <2>3, SubmitCases
<1> QED
  BY <1>1, <1>2, <1>3

\* Opt-outs are recorded for every ride submitted while or before consent is gone.
LEMMA OptedOutStep == PhoneOK /\ RestOK /\ OptedOut /\ [Next]_vars => OptedOut'
<1> SUFFICES ASSUME PhoneOK, RestOK, OptedOut, [Next]_vars PROVE OptedOut'
  OBVIOUS
<1> USE DEF history
<1>1. CASE ToggleConsent
  BY <1>1 DEF ToggleConsent, OptedOut, Submitted, phone
<1>2. ASSUME ~ToggleConsent
      PROVE  /\ consent' = consent
             /\ \A r \in Ride : pc'[r] # "new" => pc[r] # "new" \/ Submit(r)
  <2>1. ASSUME NEW r \in Ride, Submit(r)
        PROVE  consent' = consent /\ \A s \in Ride \ {r} : pc'[s] # "new" => pc[s] # "new"
    BY <2>1, SubmitFrame
  <2>2. CASE RetryNow
    <3>1. \A s \in Ride : s \notin Range(<<>>)
      BY ShortLists
    <3> QED BY <2>2, <3>1, RetryCases DEF RetryNow, Turn
  <2>3. CASE DrainReply
    <3>1. consent' = consent
      BY <2>3 DEF DrainReply, DrainUploaded, DrainNetworkDown, DrainTransient, DrainRejected
    <3>2. \A r \in Ride : r \in Range(waiting) => pc[r] = "waiting"
      BY DEF PhoneOK, Waiters
    <3> QED BY <2>3, <3>1, <3>2, ReplyCases DEF Turn
  <2>4. ASSUME NEW r \in Ride, LiveReply(r)
        PROVE  consent' = consent /\ \A s \in Ride : pc'[s] # "new" => pc[s] # "new"
    BY <2>4, LiveCases DEF PhoneOK
  <2>5. CASE DrainAccepted \/ ToggleSwitch \/ \E r \in Ride : LiveAccepted(r) \/ StrayLands(r)
    BY <2>5 DEF DrainAccepted, ToggleSwitch, LiveAccepted, StrayLands, phone
  <2>6. CASE Kill
    BY <2>6 DEF Kill, Open
  <2>7. CASE UNCHANGED vars
    BY <2>7 DEF vars, phone
  <2> QED
    BY <1>2, <2>1, <2>2, <2>3, <2>4, <2>5, <2>6, <2>7 DEF Next
<1>3. ASSUME ~ToggleConsent, ~consent', NEW r \in Submitted' PROVE r \in optedOut'
  <2>1. CASE Submit(r)
    BY <1>2, <1>3, <2>1 DEF Submit
  <2>2. CASE pc[r] # "new"
    <3>1. r \in optedOut
      BY <1>2, <1>3, <2>2 DEF OptedOut, Submitted
    <3> QED BY <3>1, HistoryGrows
  <2> QED
    BY <1>2, <1>3, <2>1, <2>2 DEF Submitted
<1> QED
  BY <1>1, <1>3 DEF OptedOut

\* A request is marked as accepted only when its ride has landed.
LEMMA ReceiptsStep == PhoneOK /\ RestOK /\ Receipts /\ [Next]_vars => Receipts'
<1> SUFFICES ASSUME PhoneOK, RestOK, Receipts, [Next]_vars PROVE Receipts'
  OBVIOUS
<1> USE DEF history, Receipts
<1>1. ASSUME NEW r \in accepted PROVE r \in Ride /\ pc[r] = "live" /\ r \in Range(landed')
  BY HistoryGrows DEF RestOK
<1>2. ASSUME NEW q, NEW w, NEW tried, Turn(q, tried, w) PROVE ~(drain'.on /\ drain'.acc)
  <2>1. CASE TurnEnds(q, tried, w)
    BY <2>1, DrainFacts DEF TurnEnds
  <2>2. CASE TurnSends(q, tried, w)
    BY <2>2 DEF TurnSends, Uploading
  <2> QED BY <1>2, <2>1, <2>2 DEF Turn
<1>3. ASSUME NEW r \in Ride, Submit(r) PROVE Receipts'
  <2>1. /\ accepted' = accepted /\ landed' = landed
        /\ \A s \in Ride : pc[s] = "live" => pc'[s] = "live"
    BY <1>3, SubmitFrame
  <2>2. drain' = drain \/ ~(drain'.on /\ drain'.acc)
    BY <1>2, <1>3, SubmitCases
  <2> QED BY <1>1, <2>1, <2>2
<1>4. CASE RetryNow
  <2>1. /\ accepted' = accepted /\ landed' = landed
        /\ \A s \in Ride : pc'[s] = pc[s]
    <3>1. \A s \in Ride : s \notin Range(<<>>)
      BY ShortLists
    <3> QED BY <1>4, <3>1, RetryCases DEF RetryNow, Turn
  <2>2. drain' = drain \/ ~(drain'.on /\ drain'.acc)
    BY <1>2, <1>4, RetryCases
  <2> QED BY <1>1, <2>1, <2>2
<1>5. CASE DrainReply
  <2>1. accepted' = accepted /\ landed' = landed
    BY <1>5 DEF DrainReply, DrainUploaded, DrainNetworkDown, DrainTransient, DrainRejected
  <2>2. ~(drain'.on /\ drain'.acc)
    BY <1>2, <1>5, ReplyCases
  <2>3. \A s \in Ride : pc[s] = "live" => pc'[s] = "live"
    <3>1. \A s \in Ride : s \in Range(waiting) => pc[s] = "waiting"
      BY DEF PhoneOK, Waiters
    <3> QED BY <1>5, <3>1, ReplyCases DEF Turn
  <2> QED BY <1>1, <2>1, <2>2, <2>3
<1>6. ASSUME NEW r \in Ride, LiveReply(r) PROVE Receipts'
  BY <1>1, <1>6, LiveCases DEF PhoneOK
<1>7. CASE DrainAccepted
  <2>1. /\ drain' = Uploading(drain.cur, drain.tried, TRUE) /\ drain.cur.ride \in Ride
        /\ UNCHANGED <<queue, pc, waiting, accepted>> /\ landed' = Append(landed, drain.cur.ride)
    BY <1>7, DrainFacts DEF DrainAccepted, Uploading, Land
  <2>2. drain'.cur = drain.cur /\ drain.cur.ride \in Range(landed')
    BY <2>1, LandFacts DEF Uploading, RestOK
  <2> QED BY <1>1, <2>1, <2>2
<1>8. ASSUME NEW r \in Ride, LiveAccepted(r) PROVE Receipts'
  <2>1. r \in Range(landed') /\ accepted' = accepted \cup {r} /\ pc' = pc /\ pc[r] = "live"
        /\ drain' = drain
    BY <1>8, LandFacts DEF LiveAccepted, Land, RestOK
  <2> QED BY <1>1, <2>1, HistoryGrows
<1>9. CASE ToggleConsent \/ ToggleSwitch \/ \E r \in Ride : StrayLands(r)
  BY <1>1, <1>9, HistoryGrows DEF ToggleConsent, ToggleSwitch, StrayLands, phone
<1>10. CASE Kill
  BY <1>10, DrainFacts DEF Kill
<1>11. CASE UNCHANGED vars
  BY <1>11 DEF vars, phone
<1> QED
  BY <1>3, <1>4, <1>5, <1>6, <1>7, <1>8, <1>9, <1>10, <1>11 DEF Next

\* What the rest of a turn leaves of a budget kept so far.
LEMMA TurnKeepsBudget ==
  ASSUME RestOK', NEW q, NEW w, NEW tried, Ready(q, w), Turn(q, tried, w),
         \A e \in Range(q) : e.attempts <= rejected'[e.ride]
  PROVE  Budget'
<1>1. \A e \in Range(queue') : e.attempts <= rejected'[e.ride]
  <2>1. \A r \in Range(w) : Fresh(r).attempts = 0 /\ Fresh(r).ride = r /\ rejected'[r] \in Nat
    BY DEF Fresh, Ready, RestOK, Range
  <2>2. \A r \in Range(w) : Fresh(r).attempts <= rejected'[Fresh(r).ride]
    BY <2>1
  <2>3. ASSUME NEW e \in Range(queue') PROVE e.attempts <= rejected'[e.ride]
    <3>1. CASE e \in Range(q)
      BY <3>1
    <3>2. CASE e = Fresh(e.ride) /\ e.ride \in Range(w)
      BY <2>2, <3>2
    <3> QED BY <3>1, <3>2 DEF Turn
  <2> QED BY <2>3
<1>2. drain'.on => drain'.cur \in Range(q)
  BY DEF Turn, TurnEnds, TurnSends, Uploading, Idle
<1> QED
  BY <1>1, <1>2 DEF Budget

\* No entry runs ahead of the rejections of its ride.
LEMMA BudgetStep ==
  PhoneOK /\ RestOK /\ Budget /\ [Next]_vars => Budget'
<1> SUFFICES ASSUME PhoneOK, RestOK, Budget, [Next]_vars PROVE Budget'
  OBVIOUS
<1> USE DEF history
<1>0. /\ RestOK' /\ PhoneOK'
      /\ \A r \in Ride : rejected[r] \in Nat /\ rejected'[r] \in Nat /\ rejected[r] <= rejected'[r]
  BY RestInductive, PhoneInductive, HistoryGrows
<1>1. \A e \in Range(queue) : /\ e \in Entry /\ e.ride \in Ride /\ e.attempts \in Nat
                              /\ e.attempts <= rejected[e.ride] /\ e.attempts <= rejected'[e.ride]
  BY <1>0, QueuedFacts DEF Budget
<1>2. drain.on => drain.cur.attempts <= rejected'[drain.cur.ride]
  BY <1>0, DrainFacts DEF Budget
\* The drain is as it was, and the backlog has at most one fresh entry more.
<1>3. ASSUME UNCHANGED drain, NEW r \in Ride,
             queue' \in {queue, <<>>, Enqueued(queue, <<r>>)}, pc[r] # "done"
      PROVE  Budget'
  <2>1. \A e \in Range(queue') : e \in Range(queue) \/ e = Fresh(r)
    BY <1>3, EnqueueOneFacts, ShortLists
  <2>2. Fresh(r).attempts <= rejected'[Fresh(r).ride]
    BY <1>0 DEF Fresh
  <2> QED BY <1>1, <1>2, <1>3, <2>1, <2>2 DEF Budget
<1>4. ASSUME NEW r \in Ride, Submit(r) PROVE Budget'
  <2>1. CASE Turn(queue, {}, <<r>>)
    BY <1>0, <1>1, <1>4, <2>1, ReadyFacts, SubmitFrame, TurnKeepsBudget
  <2>2. CASE UNCHANGED drain /\ queue' \in {queue, <<>>, Enqueued(queue, <<r>>)}
    BY <1>3, <1>4, <2>2, SubmitFrame
  <2> QED BY <1>4, <2>1, <2>2, SubmitCases
<1>5. CASE RetryNow
  <2>1. CASE Turn(queue, {}, <<>>)
    BY <1>0, <1>1, <2>1, ReadyFacts, TurnKeepsBudget
  <2>2. CASE UNCHANGED drain /\ queue' \in {queue, <<>>}
    BY <1>1, <1>2, <2>2, ShortLists DEF Budget
  <2> QED BY <1>5, <2>1, <2>2, RetryCases
<1>6. CASE DrainReply
  <2>1. PICK q : AfterReply(q) /\ drain.on /\ Ready(q, waiting) /\ Turn(q, drain.tried, waiting)
    BY <1>6, ReplyCases
  <2>2. drain.cur \in Entry /\ drain.cur.ride \in Ride /\ drain.cur.attempts \in Nat
    BY <2>1, DrainFacts
  <2>3. \A e \in Range(q) : e.attempts <= rejected'[e.ride]
    <3>1. CASE q = queue
      BY <1>1, <3>1
    <3>2. CASE q = RemoveById(queue, drain.cur.ride)
      BY <1>1, <3>2, RemoveByIdFacts DEF PhoneOK, Backlog
    <3>3. CASE DrainRejected /\ q = Bump(queue, drain.cur) /\ q # RemoveById(queue, drain.cur.ride)
      <4> DEFINE new == [drain.cur EXCEPT !.attempts = @ + 1]
      <4>1. drain.cur.attempts + 1 < MaxAttempts /\ q = ReplaceById(queue, new)
        BY <2>2, <3>3, QueueAssumption DEF Bump
      <4>2. new \in Entry /\ new.ride = drain.cur.ride /\ new.attempts = drain.cur.attempts + 1
        BY <2>2, <4>1, QueueAssumption DEF Entry
      <4>3. new.attempts <= rejected'[new.ride]
        <5>1. CountRejection(drain.cur.ride) /\ drain.cur.attempts <= rejected[drain.cur.ride]
          BY <2>1, <3>3 DEF DrainRejected, Budget
        <5> QED BY <2>2, <4>1, <4>2, <5>1, RejectionFacts
      <4> HIDE DEF new
      <4>4. \A e \in Range(ReplaceById(queue, new)) : e \in Range(queue) \/ e = new
        BY <4>2, ReplaceByIdFacts DEF PhoneOK, Backlog
      <4> QED BY <1>1, <4>1, <4>3, <4>4
    <3> QED BY <2>1, <3>1, <3>2, <3>3 DEF AfterReply
  <2> QED BY <1>0, <2>1, <2>3, TurnKeepsBudget
<1>7. ASSUME NEW r \in Ride, LiveReply(r) PROVE Budget'
  <2>1. pc[r] # "done" /\ UNCHANGED drain /\ queue' \in {queue, <<>>, Enqueued(queue, <<r>>)}
    BY <1>7, LiveCases
  <2> QED BY <1>3, <2>1
<1>8. CASE DrainAccepted
  <2>1. drain'.cur = drain.cur /\ drain.on /\ queue' = queue
    BY <1>8, DrainFacts DEF DrainAccepted
  <2> QED BY <1>1, <1>2, <2>1 DEF Budget
<1>9. CASE Kill
  <2>1. ~drain'.on /\ queue' = queue
    BY <1>9, DrainFacts DEF Kill
  <2> QED BY <1>1, <2>1 DEF Budget
<1>10. CASE UNCHANGED <<queue, drain>>
  BY <1>1, <1>2, <1>10 DEF Budget
<1> QED
  BY <1>4, <1>5, <1>6, <1>7, <1>8, <1>9, <1>10 DEF Next, vars, phone, ToggleConsent,
     ToggleSwitch, LiveAccepted, StrayLands

\* While the rider consents, an entry leaves the backlog only when its ride is on the
\* server or has been rejected too often.
LEMMA EntriesStay ==
  ASSUME PhoneOK, RestOK, Receipts, Budget, [Next]_vars, consent, NEW r \in Ride, InQueue(r)
  PROVE  InQueue(r)' \/ r \in Range(landed) \/ rejected'[r] >= MaxAttempts
<1> USE DEF history
<1>0. PICK e \in Range(queue) : e.ride = r
  BY DEF InQueue
<1>1. ASSUME Range(queue) \subseteq Range(queue') PROVE InQueue(r)'
  BY <1>0, <1>1 DEF InQueue
<1>2. ASSUME NEW s \in Ride, queue' = Enqueued(queue, <<s>>), pc[s] # "done" PROVE InQueue(r)'
  BY <1>1, <1>2, EnqueueOneFacts
<1>3. ASSUME NEW s \in Ride, Submit(s) PROVE InQueue(r)'
  BY <1>1, <1>2, <1>3, SubmitCases DEF Turn
<1>4. CASE RetryNow
  BY <1>1, <1>4, RetryCases DEF Turn
<1>5. CASE DrainReply
  <2>1. PICK q : /\ AfterReply(q) /\ drain.on /\ Range(q) \subseteq Range(queue')
    BY <1>5, ReplyCases DEF Turn
  <2>2. drain.cur \in Entry /\ drain.cur.ride \in Ride /\ drain.cur.attempts \in Nat
    BY <2>1, DrainFacts
  <2>3. CASE q = queue
    BY <1>1, <2>1, <2>3
  <2>4. ASSUME e \in Range(q) PROVE InQueue(r)'
    BY <1>0, <2>1, <2>4 DEF InQueue
  <2>5. CASE DrainUploaded /\ q = RemoveById(queue, drain.cur.ride)
    <3>1. r = drain.cur.ride \/ e \in Range(q)
      BY <1>0, <2>5, RemoveByIdFacts DEF PhoneOK, Backlog
    <3>2. drain.cur.ride \in Range(landed)
      BY <2>5 DEF DrainUploaded, Receipts
    <3> QED BY <2>4, <3>1, <3>2
  <2>6. CASE DrainRejected /\ q = Bump(queue, drain.cur)
    <3>1. CountRejection(drain.cur.ride) /\ drain.cur.attempts <= rejected[drain.cur.ride]
      BY <2>1, <2>6 DEF DrainRejected, Budget
    <3>2. CASE drain.cur.attempts + 1 >= MaxAttempts
      <4>1. r = drain.cur.ride \/ e \in Range(q)
        BY <1>0, <2>6, <3>2, RemoveByIdFacts DEF PhoneOK, Backlog, Bump
      <4>2. rejected'[drain.cur.ride] >= MaxAttempts
        BY <2>2, <3>1, <3>2, RejectionFacts
      <4> QED BY <2>4, <4>1, <4>2
    <3>3. CASE ~(drain.cur.attempts + 1 >= MaxAttempts)
      <4> DEFINE new == [drain.cur EXCEPT !.attempts = @ + 1]
      <4>1. q = ReplaceById(queue, new)
        BY <2>6, <3>3 DEF Bump
      <4>2. new \in Entry /\ new.ride = drain.cur.ride
        BY <2>2, <3>3, QueueAssumption DEF Entry
      <4> HIDE DEF new
      <4>3. e \in Range(q) \/ (r = new.ride /\ new \in Range(q))
        BY <1>0, <4>1, <4>2, ReplaceByIdFacts DEF PhoneOK, Backlog
      <4> QED BY <2>1, <2>4, <4>3 DEF InQueue
    <3> QED BY <3>2, <3>3
  <2> QED BY <2>1, <2>3, <2>5, <2>6 DEF AfterReply
<1>6. ASSUME NEW s \in Ride, LiveReply(s) PROVE InQueue(r)'
  BY <1>1, <1>2, <1>6, LiveCases
<1>7. CASE UNCHANGED queue
  BY <1>0, <1>7 DEF InQueue
<1> QED
  BY <1>3, <1>4, <1>5, <1>6, <1>7 DEF Next, vars, phone, ToggleConsent,
     ToggleSwitch, LiveAccepted, StrayLands, Kill, DrainAccepted

\* A submit that returns has been confirmed, or has queued its ride when the rider
\* consents; without consent only a new submit may still be missing from the opt-outs.
LEMMA ReturnedAreKept ==
  ASSUME PhoneOK, RestOK, Receipts, [Next]_vars, NEW r \in Ride, pc'[r] = "done", pc[r] # "done"
  PROVE  \/ r \in Range(landed)
         \/ consent /\ InQueue(r)'
         \/ ~consent /\ (pc[r] # "new" \/ r \in optedOut')
<1> USE DEF history
<1>0. \A s \in Ride : s \in Range(waiting) => pc[s] = "waiting"
  BY DEF PhoneOK, Waiters
<1>1. ASSUME NEW q, NEW w, NEW tried, Turn(q, tried, w), consent PROVE InQueue(r)'
  <2>1. Fresh(r) \in Range(queue') /\ Fresh(r).ride = r
    BY <1>1 DEF Turn, Fresh
  <2> QED BY <2>1 DEF InQueue
<1>2. ASSUME queue' = Enqueued(queue, <<r>>) PROVE InQueue(r)'
  BY <1>2, EnqueueOneFacts DEF InQueue
<1>3. ASSUME NEW s \in Ride, Submit(s)
      PROVE  r = s /\ (consent => InQueue(r)') /\ (~consent => r \in optedOut')
  <2>1. s = r
    BY <1>3, SubmitFrame
  <2>2. ~consent => r \in optedOut'
    BY <1>3, <2>1, SubmitFrame
  <2>3. ASSUME consent PROVE InQueue(r)'
    <3>1. ~(pc' = [z \in Ride |-> IF z \in {s} THEN "waiting" ELSE pc[z]])
      BY <2>1
    <3> QED BY <1>1, <1>2, <1>3, <2>1, <2>3, <3>1, SubmitCases
  <2> QED BY <2>1, <2>2, <2>3
<1>4. CASE RetryNow
  <2>1. Turn(queue, {}, <<>>)
    BY <1>4, RetryCases
  <2> QED BY <2>1, ShortLists DEF Turn
<1>5. CASE DrainReply
  <2>1. PICK q : Turn(q, drain.tried, waiting)
    BY <1>5, ReplyCases
  <2>2. pc[r] = "waiting"
    BY <1>0, <2>1 DEF Turn
  <2> QED BY <1>1, <2>1, <2>2
<1>6. ASSUME NEW s \in Ride, LiveReply(s)
      PROVE  r = s /\ pc[r] = "live" /\ (r \in Range(landed) \/ (consent => InQueue(r)'))
  <2>1. r = s /\ pc[r] = "live"
    BY <1>6, LiveCases DEF PhoneOK
  <2>2. LiveUploaded(s) => s \in Range(landed)
    BY DEF LiveUploaded, Receipts
  <2>3. pc'[s] # "done" \/ LiveUploaded(s) \/ queue' = IF consent THEN Enqueued(queue, <<s>>) ELSE <<>>
    BY <1>6, LiveCases DEF PhoneOK
  <2> QED BY <1>2, <2>1, <2>2, <2>3
<1>7. CASE \A s \in Ride : pc'[s] = pc[s] \/ pc'[s] = "killed"
  BY <1>7
<1>8. CASE UNCHANGED pc \/ Kill
  BY <1>7, <1>8 DEF Kill
<1> QED
  BY <1>3, <1>4, <1>5, <1>6, <1>8 DEF Next, vars, phone, ToggleConsent,
     ToggleSwitch, LiveAccepted, StrayLands, DrainAccepted

\* Every ride whose submit returned stays accounted for.
LEMMA KeepsRidesStep == PhoneOK /\ RestOK /\ KeepsRides /\ [Next]_vars => KeepsRides'
<1> SUFFICES ASSUME PhoneOK, RestOK, KeepsRides, [Next]_vars PROVE KeepsRides'
  OBVIOUS
<1>1. Receipts' /\ OptedOut' /\ Budget'
  BY ReceiptsStep, OptedOutStep, BudgetStep DEF KeepsRides
<1>2. ASSUME NEW r \in Ride, pc'[r] = "done" PROVE Kept(r)'
  <2>1. /\ r \in Range(landed) \cup optedOut \/ rejected[r] >= MaxAttempts => Kept(r)'
        /\ r \in Range(landed) \/ r \in optedOut' \/ rejected'[r] >= MaxAttempts \/ InQueue(r)'
             => Kept(r)'
    BY HistoryGrows DEF Kept
  <2>2. ~consent /\ pc[r] # "new" => r \in optedOut
    BY DEF KeepsRides, OptedOut, Submitted
  <2>3. CASE pc[r] = "done"
    <3>1. Kept(r)
      BY <2>3 DEF KeepsRides, AllKept
    <3>2. consent /\ InQueue(r) => InQueue(r)' \/ r \in Range(landed) \/ rejected'[r] >= MaxAttempts
      BY EntriesStay DEF KeepsRides
    <3> QED BY <2>1, <2>2, <2>3, <3>1, <3>2 DEF Kept
  <2>4. CASE pc[r] # "done"
    BY <1>2, <2>1, <2>2, <2>4, ReturnedAreKept DEF KeepsRides
  <2> QED BY <2>3, <2>4
<1> QED
  BY <1>1, <1>2 DEF KeepsRides, AllKept

\* A submit that returned has not lost its ride: it is in the backlog or on the server,
\* unless the rider opted out or the server rejected it MaxAttempts times.
THEOREM NoRideIsLost == Spec => []NoRideLost
<1>1. Init => KeepsRides
  <2> SUFFICES ASSUME Init PROVE KeepsRides
    OBVIOUS
  <2>1. /\ queue = <<>> /\ drain = Idle /\ Idle.on = FALSE /\ accepted = {} /\ consent = TRUE
        /\ pc = [r \in Ride |-> "new"]
    BY DEF Init, Idle
  <2> QED BY <2>1, ShortLists DEF KeepsRides, Receipts, OptedOut, Budget, AllKept
<1>2. PhoneOK /\ RestOK /\ KeepsRides /\ [Next]_vars => KeepsRides'
  BY KeepsRidesStep
<1>3. PhoneOK /\ KeepsRides => NoRideLost
  <2> SUFFICES ASSUME PhoneOK, KeepsRides, NEW r \in Ride, pc[r] = "done"
               PROVE  \/ r \in Queued(queue) \cup Range(landed) \cup optedOut
                      \/ rejected[r] >= MaxAttempts
    BY DEF NoRideLost
  <2>1. Kept(r) /\ (InQueue(r) => r \in Queued(queue))
    BY QueuedFacts DEF KeepsRides, AllKept, InQueue
  <2> QED BY <2>1 DEF Kept
<1> QED
  BY <1>1, <1>2, <1>3, StateOK, PTL DEF Spec

----------------------------------------------------------------------------
(* The server gets a ride twice only when a reply was lost.                  *)

\* The phone may still cause one copy of r without another reply being lost.
Sending(r) == drain.on /\ drain.cur.ride = r
Owed(r) ==
  \/ pc[r] \in {"new", "waiting"}
  \/ pc[r] = "live" /\ r \notin accepted
  \/ InQueue(r) /\ ~(Sending(r) /\ drain.acc)
  \/ Sending(r) /\ ~drain.acc

Count(b) == IF b THEN 1 ELSE 0

\* The copies that landed, the one the phone owes and the one still on its way are no
\* more than the first and one for each lost reply.
Ledger == \A r \in Ride :
  Copies(r) + Count(Owed(r)) + Count(r \in stray) <= 1 + lost[r]

\* What a step may do to the ledger of a ride.
Quiet(r) ==
  /\ Copies(r)' = Copies(r) /\ lost'[r] = lost[r]
  /\ r \in stray' => r \in stray
  /\ Owed(r)' => Owed(r)
Lands(r) ==
  /\ Copies(r)' = Copies(r) + 1 /\ lost'[r] = lost[r]
  /\ \/ Owed(r) /\ ~Owed(r)' /\ (r \in stray' => r \in stray)
     \/ r \in stray /\ r \notin stray' /\ (Owed(r)' => Owed(r))
GivesUp(r) ==
  /\ Copies(r)' = Copies(r) /\ lost'[r] = lost[r] + 1
  /\ Owed(r) \/ (r \in stray' => r \in stray)

\* Copies on the server, and one more for a ride that lands.
LEMMA CopiesFacts ==
  ASSUME RestOK
  PROVE  /\ \A r \in Ride : Copies(r) \in Nat
         /\ landed' = landed => \A r \in Ride : Copies(r)' = Copies(r)
         /\ \A s \in Ride : landed' = Append(landed, s) =>
              \A r \in Ride : Copies(r)' = IF r = s THEN Copies(r) + 1 ELSE Copies(r)
<1>1. ASSUME NEW r \in Ride, NEW s \in Ride
      PROVE  /\ Copies(r) \in Nat
             /\ landed' = Append(landed, s) => Copies(r)' = IF r = s THEN Copies(r) + 1 ELSE Copies(r)
  <2>1. landed \in Seq(Ride)
    BY DEF RestOK
  <2>2. Copies(r) = Cardinality({i \in DOMAIN landed : landed[i] = r})
    BY DEF Copies
  <2>3. landed' = Append(landed, s) =>
          Copies(r)' = Cardinality({i \in DOMAIN Append(landed, s) : Append(landed, s)[i] = r})
    BY DEF Copies
  <2>4. Cardinality({i \in DOMAIN landed : landed[i] = r}) \in Nat
    BY <2>1, LandFacts
  <2>5. Cardinality({i \in DOMAIN Append(landed, s) : Append(landed, s)[i] = r})
          = IF r = s THEN Cardinality({i \in DOMAIN landed : landed[i] = r}) + 1
                     ELSE Cardinality({i \in DOMAIN landed : landed[i] = r})
    BY <2>1, LandFacts
  <2> QED BY <2>2, <2>3, <2>4, <2>5
<1>2. landed' = landed => \A r \in Ride : Copies(r)' = Copies(r)
  BY DEF Copies
<1> QED
  BY <1>1, <1>2

\* A ride that is live is neither in the backlog nor being uploaded from it.
LEMMA LiveFacts ==
  ASSUME PhoneOK, NEW r \in Ride, pc[r] # "done"
  PROVE  ~InQueue(r) /\ ~Sending(r)
  BY QueuedFacts DEF InQueue, Sending, PhoneOK, Backlog

\* After a turn, a ride is owed that was owed before or is in the backlog it worked on.
LEMMA TurnOwes ==
  ASSUME PhoneOK, NEW q, NEW w, NEW tried, Ready(q, w), Turn(q, tried, w), accepted' = accepted,
         \A r \in Range(w) : pc[r] \in {"new", "waiting"},
         NEW r \in Ride, Owed(r)', ~Owed(r)
  PROVE  \E e \in Range(q) : e.ride = r
<1>1. r \notin Range(w)
  BY DEF Owed
<1>2. pc'[r] = pc[r]
  BY <1>1 DEF Turn
<1>3. InQueue(r)' \/ Sending(r)'
  BY <1>2 DEF Owed
<1>4. InQueue(r)' => \E e \in Range(q) : e.ride = r
  BY <1>1 DEF InQueue, Turn
<1>5. Sending(r)' => \E e \in Range(q) : e.ride = r
  BY DEF Sending, Turn, TurnEnds, TurnSends, Idle, Uploading
<1> QED
  BY <1>3, <1>4, <1>5

\* After a reply the backlog has no other rides than before, not the one uploaded, and
\* the one tried only if it was rejected.
LEMMA AfterReplyFacts ==
  ASSUME PhoneOK, RestOK, DrainReply, NEW q, AfterReply(q)
  PROVE  /\ \A e \in Range(q) : \E d \in Range(queue) : d.ride = e.ride
         /\ DrainUploaded => \A e \in Range(q) : e.ride # drain.cur.ride
         /\ DrainRejected => rejected'[drain.cur.ride] > 0
<1> USE DEF history
<1>0. drain.on /\ drain.cur \in Entry /\ drain.cur.ride \in Ride
  BY DrainFacts DEF DrainReply, DrainUploaded, DrainNetworkDown, DrainTransient, DrainRejected
<1>1. \A e \in Range(RemoveById(queue, drain.cur.ride)) : e \in Range(queue) /\ e.ride # drain.cur.ride
  BY RemoveByIdFacts DEF PhoneOK, Backlog
<1>2. \A e \in Range(q) : \E d \in Range(queue) : d.ride = e.ride
  <2>1. CASE q = queue
    BY <2>1
  <2>2. CASE q = RemoveById(queue, drain.cur.ride)
    BY <1>1, <2>2
  <2>3. CASE q = Bump(queue, drain.cur) /\ q # RemoveById(queue, drain.cur.ride)
    <3> DEFINE new == [drain.cur EXCEPT !.attempts = @ + 1]
    <3>1. drain.cur.attempts + 1 < MaxAttempts /\ q = ReplaceById(queue, new)
      BY <1>0, <2>3, DrainFacts, QueueAssumption DEF Bump
    <3>2. new \in Entry
      BY <1>0, <3>1, QueueAssumption DEF Entry
    <3> HIDE DEF new
    <3>3. \A e \in Range(ReplaceById(queue, new)) :
            \/ e \in Range(queue) /\ e.ride # new.ride
            \/ e = new /\ \E d \in Range(queue) : d.ride = new.ride
      BY <3>2, ReplaceByIdFacts DEF PhoneOK, Backlog
    <3> QED BY <3>1, <3>3
  <2> QED BY <2>1, <2>2, <2>3 DEF AfterReply
<1>3. DrainUploaded => \A e \in Range(q) : e.ride # drain.cur.ride
  <2> SUFFICES ASSUME DrainUploaded PROVE q = RemoveById(queue, drain.cur.ride)
    BY <1>1
  <2>1. drain.acc /\ faults' = faults /\ faults \in Nat
    BY QueueAssumption DEF DrainUploaded, RestOK
  <2>2. faults' # faults + 1
    BY <2>1
  <2>3. ~DrainNetworkDown
    BY <2>2 DEF DrainNetworkDown, GivenUp
  <2>4. ~DrainTransient /\ ~DrainRejected
    BY <2>1 DEF DrainTransient, DrainRejected
  <2> QED BY <2>3, <2>4 DEF AfterReply
<1>4. DrainRejected => rejected'[drain.cur.ride] > 0
  BY <1>0, RejectionFacts DEF DrainRejected
<1> QED
  BY <1>2, <1>3, <1>4

\* The ledger over a reply to a drain.
LEMMA ReplyLedger ==
  ASSUME PhoneOK, RestOK, Receipts, DrainReply, NEW r \in Ride
  PROVE  Quiet(r) \/ GivesUp(r)
<1> USE DEF history
<1>1. PICK q : AfterReply(q) /\ drain.on /\ Ready(q, waiting) /\ Turn(q, drain.tried, waiting)
  BY ReplyCases
<1>2. /\ drain.cur \in Entry /\ drain.cur.ride \in Ride /\ drain.acc \in BOOLEAN
      /\ \A s \in Range(waiting) : pc[s] \in {"new", "waiting"}
  BY <1>1, DrainFacts, ResumesFacts DEF Resumes
<1>3. landed' = landed /\ accepted' = accepted
  BY DEF DrainReply, DrainUploaded, DrainNetworkDown, DrainTransient, DrainRejected
<1>4. Copies(r)' = Copies(r)
  BY <1>3, CopiesFacts
<1>5. Owed(r)' /\ ~Owed(r) => \E e \in Range(q) : e.ride = r
  BY <1>1, <1>2, <1>3, TurnOwes
\* An entry of the backlog is owed, but for the one whose receipt is on its way.
<1>6. InQueue(r) => Owed(r) \/ (r = drain.cur.ride /\ drain.acc)
  BY DEF Owed, Sending
<1>7. \A e \in Range(q) : \E d \in Range(queue) : d.ride = e.ride
  BY <1>1, AfterReplyFacts
<1>8. Owed(r)' /\ ~Owed(r) => r = drain.cur.ride /\ drain.acc /\ \E e \in Range(q) : e.ride = r
  BY <1>5, <1>6, <1>7 DEF InQueue
<1>9. CASE DrainUploaded
  <2>1. \A e \in Range(q) : e.ride # drain.cur.ride
    BY <1>1, <1>9, AfterReplyFacts
  <2> QED BY <1>4, <1>8, <1>9, <2>1 DEF DrainUploaded, Quiet
<1>10. CASE DrainTransient
  BY <1>4, <1>8, <1>10 DEF DrainTransient, Quiet
<1>11. CASE DrainRejected
  BY <1>4, <1>8, <1>11 DEF DrainRejected, Quiet
<1>12. CASE DrainNetworkDown
  <2>1. /\ lost' = [lost EXCEPT ![drain.cur.ride] = @ + 1]
        /\ stray' \in IF drain.acc THEN {stray} ELSE {stray, stray \cup {drain.cur.ride}}
    BY <1>12 DEF DrainNetworkDown, GivenUp
  <2>2. CASE r = drain.cur.ride
    <3>1. lost'[r] = lost[r] + 1
      BY <1>2, <2>1, <2>2 DEF RestOK
    <3>2. drain.acc => stray' = stray
      BY <2>1
    <3>3. ~drain.acc => Owed(r)
      BY <1>1, <2>2 DEF Owed, Sending
    <3> QED BY <1>4, <3>1, <3>2, <3>3 DEF GivesUp
  <2>3. CASE r # drain.cur.ride
    <3>1. lost'[r] = lost[r] /\ (r \in stray' => r \in stray)
      BY <1>2, <2>1, <2>3 DEF RestOK
    <3> QED BY <1>4, <1>8, <2>3, <3>1 DEF Quiet
  <2> QED BY <2>2, <2>3
<1> QED
  BY <1>9, <1>10, <1>11, <1>12 DEF DrainReply

\* The ledger over a call.
LEMMA CallLedger ==
  ASSUME PhoneOK, RestOK, NEW r \in Ride, RetryNow \/ \E s \in Ride : Submit(s)
  PROVE  Quiet(r)
<1> USE DEF history
<1>0. landed' = landed /\ lost' = lost /\ stray' = stray /\ accepted' = accepted
  BY DEF RetryNow, Submit
<1>1. Copies(r)' = Copies(r)
  BY <1>0, CopiesFacts
<1>2. ASSUME NEW w, Ready(queue, w), Turn(queue, {}, w), ~drain.on,
             \A s \in Range(w) : pc[s] \in {"new", "waiting"},
             Owed(r)'
      PROVE  Owed(r)
  <2>1. Owed(r) \/ \E e \in Range(queue) : e.ride = r
    BY <1>0, <1>2, TurnOwes
  <2> QED BY <1>2, <2>1 DEF Owed, InQueue, Sending
\* The drain in flight is left alone.
<1>3. ASSUME NEW s \in Ride, pc[s] = "new", drain' = drain,
             \A z \in Ride \ {s} : pc'[z] = pc[z],
             \A e \in Range(queue') : e \in Range(queue) \/ e.ride = s,
             Owed(r)'
      PROVE  Owed(r)
  <2>1. CASE r = s
    BY <1>3, <2>1 DEF Owed
  <2>2. CASE r # s
    <3>1. /\ pc'[r] = pc[r] /\ (InQueue(r)' => InQueue(r))
          /\ Sending(r)' = Sending(r) /\ drain'.acc = drain.acc
      BY <1>3, <2>2 DEF InQueue, Sending
    <3> QED BY <1>0, <1>3, <3>1 DEF Owed
  <2> QED BY <2>1, <2>2
<1>4. ASSUME RetryNow, Owed(r)' PROVE Owed(r)
  <2>1. CASE Turn(queue, {}, <<>>) /\ ~drain.on
    BY <1>2, <1>4, <2>1, ReadyFacts, ShortLists
  <2>2. CASE UNCHANGED <<drain, pc, waiting>> /\ queue' \in {queue, <<>>}
    <3>1. /\ pc'[r] = pc[r] /\ (InQueue(r)' => InQueue(r))
          /\ Sending(r)' = Sending(r) /\ drain'.acc = drain.acc
      BY <2>2, ShortLists DEF InQueue, Sending
    <3> QED BY <1>0, <1>4, <3>1 DEF Owed
  <2> QED BY <1>4, <2>1, <2>2, RetryCases
<1>5. ASSUME NEW s \in Ride, Submit(s), Owed(r)' PROVE Owed(r)
  <2>0. pc[s] = "new" /\ (\A z \in Ride \ {s} : pc'[z] = pc[z]) /\ Range(<<s>>) = {s}
    BY <1>5, SubmitFrame, ShortLists
  <2>1. CASE Turn(queue, {}, <<s>>) /\ ~drain.on
    <3>1. Ready(queue, <<s>>) /\ \A z \in Range(<<s>>) : pc[z] \in {"new", "waiting"}
      BY <2>0, ReadyFacts
    <3> QED BY <1>2, <1>5, <2>1, <3>1
  <2>2. CASE drain' = drain /\ queue' \in {queue, <<>>, Enqueued(queue, <<s>>)}
    <3>1. \A e \in Range(queue') : e \in Range(queue) \/ e.ride = s
      BY <2>0, <2>2, EnqueueOneFacts, ShortLists
    <3> QED BY <1>3, <1>5, <2>0, <2>2, <3>1
  <2> QED BY <1>5, <2>1, <2>2, SubmitCases
<1> QED
  BY <1>0, <1>1, <1>4, <1>5 DEF Quiet

\* The ledger over a reply to a live upload.
LEMMA LiveReplyLedger ==
  ASSUME PhoneOK, RestOK, Receipts, NEW s \in Ride, LiveReply(s), NEW r \in Ride
  PROVE  Quiet(r) \/ GivesUp(r)
<1>0. /\ pc[s] = "live" /\ drain' = drain /\ landed' = landed /\ accepted' = accepted \ {s}
      /\ pc'[s] \in {"done", "failed"} /\ \A z \in Ride \ {s} : pc'[z] = pc[z]
      /\ queue' \in {queue, <<>>, Enqueued(queue, <<s>>)}
  BY LiveCases DEF PhoneOK
<1>1. Copies(r)' = Copies(r)
  BY <1>0, CopiesFacts
<1>2. \A e \in Range(queue') : e \in Range(queue) \/ e.ride = s
  BY <1>0, EnqueueOneFacts, ShortLists
<1>3. \/ UNCHANGED <<lost, stray>> /\ (s \in accepted => queue' = queue)
      \/ LiveNetworkDown(s)
  BY DEF LiveReply, LiveUploaded, LiveTransient, LiveRejected, history
<1>4. CASE r # s
  <2>1. /\ pc'[r] = pc[r] /\ (InQueue(r)' => InQueue(r)) /\ (r \in accepted => r \in accepted')
        /\ Sending(r)' = Sending(r) /\ drain'.acc = drain.acc
    BY <1>0, <1>2, <1>4 DEF InQueue, Sending
  <2>2. Owed(r)' => Owed(r)
    BY <2>1 DEF Owed
  <2>3. lost'[r] = lost[r] /\ (r \in stray' => r \in stray)
    BY <1>3, <1>4 DEF LiveNetworkDown, GivenUp, RestOK
  <2> QED BY <1>1, <2>2, <2>3 DEF Quiet
<1>5. CASE r = s
  <2>1. ~InQueue(r) /\ ~Sending(r)
    BY <1>0, <1>5, LiveFacts
  <2>2. r \notin accepted => Owed(r)
    BY <1>0, <1>5 DEF Owed
  <2>3. CASE LiveNetworkDown(s)
    <3>1. lost' = [lost EXCEPT ![s] = @ + 1] /\ (s \in accepted => stray' = stray)
      BY <2>3 DEF LiveNetworkDown, GivenUp
    <3>2. lost'[r] = lost[r] + 1
      BY <1>5, <3>1 DEF RestOK
    <3> QED BY <1>1, <1>5, <2>2, <3>1, <3>2 DEF GivesUp
  <2>4. CASE UNCHANGED <<lost, stray>> /\ (s \in accepted => queue' = queue)
    <3>1. s \in accepted => ~InQueue(r)' /\ ~Sending(r)'
      BY <1>0, <1>5, <2>1, <2>4 DEF InQueue, Sending
    <3>2. Owed(r)' => Owed(r)
      BY <1>0, <1>5, <2>2, <3>1 DEF Owed
    <3> QED BY <1>1, <2>4, <3>2 DEF Quiet
  <2> QED BY <1>3, <2>3, <2>4
<1> QED
  BY <1>4, <1>5

\* The ledger over a request accepted by the server.
LEMMA LandingLedger ==
  ASSUME PhoneOK, RestOK, Receipts, NEW r \in Ride,
         DrainAccepted \/ \E s \in Ride : LiveAccepted(s) \/ StrayLands(s)
  PROVE  Quiet(r) \/ Lands(r)
<1> USE DEF history
<1>1. CASE DrainAccepted
  <2>1. /\ drain' = Uploading(drain.cur, drain.tried, TRUE) /\ drain.on /\ ~drain.acc
        /\ drain.cur.ride \in Ride /\ pc[drain.cur.ride] = "done"
        /\ UNCHANGED <<queue, pc, accepted, stray, lost>> /\ landed' = Append(landed, drain.cur.ride)
    BY <1>1, DrainFacts DEF DrainAccepted, Uploading, Land, PhoneOK, Backlog
  <2>2. drain'.on /\ drain'.cur = drain.cur /\ drain'.acc /\ (InQueue(r)' <=> InQueue(r))
    BY <2>1 DEF Uploading, InQueue
  <2>3. CASE r = drain.cur.ride
    <3>1. Owed(r) /\ ~Owed(r)'
      BY <2>1, <2>2, <2>3 DEF Owed, Sending
    <3> QED BY <2>1, <2>3, <3>1, CopiesFacts DEF Lands
  <2>4. CASE r # drain.cur.ride
    <3>1. Owed(r)' => Owed(r)
      BY <2>1, <2>2, <2>4 DEF Owed, Sending
    <3> QED BY <2>1, <2>4, <3>1, CopiesFacts DEF Quiet
  <2> QED BY <2>3, <2>4
<1>2. ASSUME NEW s \in Ride, LiveAccepted(s) PROVE Quiet(r) \/ Lands(r)
  <2>1. /\ pc[s] = "live" /\ s \notin accepted /\ accepted' = accepted \cup {s}
        /\ UNCHANGED <<queue, drain, pc, stray, lost>> /\ landed' = Append(landed, s)
    BY <1>2 DEF LiveAccepted, Land
  <2>2. (InQueue(r)' <=> InQueue(r)) /\ (Sending(r)' <=> Sending(r))
    BY <2>1 DEF InQueue, Sending
  <2>3. CASE r = s
    <3>1. ~InQueue(r) /\ ~Sending(r)
      BY <2>1, <2>3, LiveFacts
    <3>2. Owed(r) /\ ~Owed(r)'
      BY <2>1, <2>2, <2>3, <3>1 DEF Owed
    <3> QED BY <2>1, <2>3, <3>2, CopiesFacts DEF Lands
  <2>4. CASE r # s
    <3>1. Owed(r)' => Owed(r)
      BY <2>1, <2>2, <2>4 DEF Owed
    <3> QED BY <2>1, <2>4, <3>1, CopiesFacts DEF Quiet
  <2> QED BY <2>3, <2>4
<1>3. ASSUME NEW s \in Ride, StrayLands(s) PROVE Quiet(r) \/ Lands(r)
  <2>1. /\ s \in stray /\ stray' = stray \ {s}
        /\ UNCHANGED <<queue, drain, pc, accepted, lost>> /\ landed' = Append(landed, s)
    BY <1>3 DEF StrayLands, Land, phone
  <2>2. Owed(r)' => Owed(r)
    BY <2>1 DEF Owed, InQueue, Sending
  <2>3. CASE r = s
    BY <2>1, <2>2, <2>3, CopiesFacts DEF Lands
  <2>4. CASE r # s
    BY <2>1, <2>2, <2>4, CopiesFacts DEF Quiet
  <2> QED BY <2>3, <2>4
<1> QED
  BY <1>1, <1>2, <1>3

\* The ledger over a kill of the app.
LEMMA KillLedger ==
  ASSUME PhoneOK, RestOK, Receipts, Kill, NEW r \in Ride
  PROVE  Quiet(r) \/ GivesUp(r)
<1> DEFINE sent == {s \in Ride : pc[s] = "live"} \cup IF drain.on THEN {drain.cur.ride} ELSE {}
           unseen == (sent \ accepted) \ IF drain.on /\ drain.acc THEN {drain.cur.ride} ELSE {}
<1>1. /\ drain' = Idle /\ ~drain'.on /\ accepted' = {} /\ queue' = queue /\ landed' = landed
      /\ pc' = [s \in Ride |-> IF s \in Open THEN "killed" ELSE pc[s]]
      /\ lost' = [s \in Ride |-> lost[s] + IF s \in sent THEN 1 ELSE 0]
      /\ \E late \in SUBSET unseen : stray' = stray \cup late
  BY DrainFacts DEF Kill
<1>2. Copies(r)' = Copies(r) /\ lost[r] \in Nat
  BY <1>1, CopiesFacts DEF RestOK
<1>3. lost'[r] = IF r \in sent THEN lost[r] + 1 ELSE lost[r]
  BY <1>1, <1>2
<1>4. r \in stray' => r \in stray \/ r \in unseen
  BY <1>1
<1>5. ~Sending(r)' /\ (InQueue(r)' <=> InQueue(r)) /\ pc'[r] # "live" /\ pc'[r] # "waiting"
      /\ (pc'[r] = "new" => pc[r] = "new")
  BY <1>1 DEF Sending, InQueue, Open
<1>6. CASE r \in sent
  <2>1. r \in unseen => Owed(r)
    BY DEF Owed, Sending
  <2> QED BY <1>2, <1>3, <1>4, <1>6, <2>1 DEF GivesUp
<1>7. CASE r \notin sent
  <2>1. ~Sending(r)
    BY <1>7 DEF Sending
  <2>2. Owed(r)' => Owed(r)
    BY <1>5, <2>1 DEF Owed
  <2> QED BY <1>2, <1>3, <1>4, <1>7, <2>2 DEF Quiet
<1> QED
  BY <1>6, <1>7

\* Every step keeps the ledger.
LEMMA LedgerStep == PhoneOK /\ RestOK /\ Receipts /\ Ledger /\ [Next]_vars => Ledger'
<1> SUFFICES ASSUME PhoneOK, RestOK, Receipts, Ledger, [Next]_vars, NEW r \in Ride
             PROVE  (Copies(r) + Count(Owed(r)) + Count(r \in stray) <= 1 + lost[r])'
  BY DEF Ledger
<1>1. Quiet(r) \/ Lands(r) \/ GivesUp(r)
  <2>1. CASE RetryNow \/ \E s \in Ride : Submit(s)
    BY <2>1, CallLedger
  <2>2. CASE DrainReply
    BY <2>2, ReplyLedger
  <2>3. CASE \E s \in Ride : LiveReply(s)
    BY <2>3, LiveReplyLedger
  <2>4. CASE DrainAccepted \/ \E s \in Ride : LiveAccepted(s) \/ StrayLands(s)
    BY <2>4, LandingLedger
  <2>5. CASE Kill
    BY <2>5, KillLedger
  <2>6. CASE ToggleConsent \/ ToggleSwitch \/ UNCHANGED vars
    <3>1. UNCHANGED <<queue, drain, pc, accepted, stray, landed, lost>>
      BY <2>6 DEF ToggleConsent, ToggleSwitch, vars, phone, history
    <3> QED BY <3>1 DEF Quiet, Copies, Owed, InQueue, Sending
  <2> QED BY <2>1, <2>2, <2>3, <2>4, <2>5, <2>6 DEF Next
<1>2. Copies(r) \in Nat /\ lost[r] \in Nat
  BY CopiesFacts DEF RestOK
<1>3. Copies(r) + Count(Owed(r)) + Count(r \in stray) <= 1 + lost[r]
  BY DEF Ledger
<1>4. CASE Quiet(r)
  BY <1>2, <1>3, <1>4 DEF Quiet, Count
<1>5. CASE Lands(r)
  BY <1>2, <1>3, <1>5 DEF Lands, Count
<1>6. CASE GivesUp(r)
  BY <1>2, <1>3, <1>6 DEF GivesUp, Count
<1> QED
  BY <1>1, <1>4, <1>5, <1>6

\* The server gets a ride at most once more than replies about it were lost.
THEOREM NoNeedlessDuplicates == Spec => []DuplicatesNeedALostReply
<1>1. Init => Receipts /\ Ledger
  <2> SUFFICES ASSUME Init, NEW r \in Ride
               PROVE  Receipts /\ Copies(r) + Count(Owed(r)) + Count(r \in stray) <= 1 + lost[r]
    BY DEF Ledger, Receipts, Init, Idle
  <2>1. /\ drain = Idle /\ Idle.on = FALSE /\ accepted = {} /\ stray = {} /\ lost[r] = 0
        /\ landed = <<>>
    BY DEF Init, Idle
  <2>2. Copies(r) = 0
    <3>1. {i \in DOMAIN landed : landed[i] = r} = {}
      BY <2>1
    <3> QED BY <3>1, FS_EmptySet DEF Copies
  <2> QED BY <2>1, <2>2 DEF Receipts, Count
<1>2. PhoneOK /\ RestOK /\ Receipts /\ Ledger /\ [Next]_vars => Receipts' /\ Ledger'
  BY ReceiptsStep, LedgerStep
<1>3. RestOK /\ Ledger => DuplicatesNeedALostReply
  <2> SUFFICES ASSUME RestOK, Ledger, NEW r \in Ride PROVE Copies(r) <= 1 + lost[r]
    BY DEF DuplicatesNeedALostReply
  <2>1. Copies(r) \in Nat /\ lost[r] \in Nat
    BY CopiesFacts DEF RestOK
  <2> QED BY <2>1 DEF Ledger, Count
<1> QED
  BY <1>1, <1>2, <1>3, StateOK, PTL DEF Spec

----------------------------------------------------------------------------
(* With one submit at a time, rides reach the server in order.               *)

\* Rides are submitted in order, and no other ride was submitted while one is open.
Closed == \A i, j \in Ride : i < j /\ pc[j] # "new" => pc[i] # "new"
OneByOne == bound.open = 1 => \A r \in Open, s \in Submitted : s <= r

InSequence == bound.open = 1 => Sorted(queue)

\* What a drain has tried is over for it: it is no longer in the backlog, or it is being
\* uploaded, or it was rejected.
TriedBefore ==
  drain.on => /\ \A r \in drain.tried : pc[r] = "done"
              /\ \A e \in Range(queue) : e.ride \in drain.tried =>
                   e.ride = drain.cur.ride \/ rejected[e.ride] > 0

FailedOnce == \A r \in Ride : pc[r] = "failed" => rejected[r] > 0

\* The rides that the property is about, and those whose first request has started.
Regular(r) == r \notin optedOut /\ rejected[r] = 0 /\ pc[r] \notin {"new", "killed"}
Gone(r) == Sending(r) \/ pc[r] = "live" \/ r \in stray \/ r \in Range(landed)

GoneAreSubmitted == \A r \in Ride : Gone(r) => pc[r] # "new"

\* No ride's first request starts before that of an earlier ride has been accepted.
NoneOvertaken ==
  bound.open = 1 => \A i, j \in Ride : i < j /\ Gone(j) /\ Regular(i) => i \in Range(landed)

Orderly == /\ Closed /\ OneByOne /\ InSequence /\ TriedBefore /\ FailedOnce
           /\ GoneAreSubmitted /\ NoneOvertaken

\* Only a submit makes a ride open, only a kill of the app and a rejection cut it off.
LEMMA CallFrame ==
  ASSUME PhoneOK, RestOK, [Next]_vars, NEW r \in Ride
  PROVE  /\ bound' = bound
         /\ pc[r] # "new" => pc'[r] # "new"
         /\ pc[r] = "new" /\ pc'[r] # "new" => Submit(r)
         /\ r \in Open' => r \in Open \/ Submit(r)
         /\ pc[r] \in {"done", "failed", "killed"} => pc'[r] = pc[r]
         /\ pc'[r] = "failed" => pc[r] = "failed" \/ LiveRejected(r)
<1> USE DEF history, Open
<1>1. ASSUME NEW s \in Ride, Submit(s)
      PROVE  /\ bound' = bound /\ pc[s] = "new" /\ pc'[s] \notin {"new", "failed"}
             /\ \A z \in Ride \ {s} : pc'[z] = pc[z]
  <2>1. Range(<<s>>) = {s}
    BY ShortLists
  <2>2. CASE Turn(queue, {}, <<s>>)
    BY <1>1, <2>1, <2>2, SubmitFrame DEF Turn, TurnEnds, TurnSends
  <2>3. CASE pc' = [z \in Ride |-> IF z \in {s} THEN "waiting" ELSE pc[z]]
    BY <1>1, <2>3, SubmitFrame
  <2>4. CASE pc' = [pc EXCEPT ![s] = "done"]
    BY <1>1, <2>4, SubmitFrame DEF PhoneOK
  <2> QED BY <1>1, <2>2, <2>3, <2>4, SubmitCases
<1>2. CASE RetryNow
  <2>1. Turn(queue, {}, <<>>) \/ pc' = pc
    BY <1>2, RetryCases
  <2>2. \A s \in Ride : pc'[s] = pc[s]
    BY <2>1, ShortLists DEF Turn
  <2> QED BY <1>2, <2>2 DEF RetryNow
<1>3. CASE DrainReply
  <2>1. bound' = bound
    BY <1>3 DEF DrainReply, DrainUploaded, DrainNetworkDown, DrainTransient, DrainRejected
  <2>2. PICK q : Turn(q, drain.tried, waiting)
    BY <1>3, ReplyCases
  <2>3. IF r \in Range(waiting) THEN pc[r] = "waiting" /\ pc'[r] \in {"waiting", "live", "done"}
                                ELSE pc'[r] = pc[r]
    BY <2>2 DEF Turn, TurnEnds, TurnSends, PhoneOK, Waiters
  <2> QED BY <2>1, <2>3
<1>4. ASSUME NEW s \in Ride, LiveReply(s)
      PROVE  /\ bound' = bound /\ pc[s] = "live" /\ pc'[s] \in {"done", "failed"}
             /\ \A z \in Ride \ {s} : pc'[z] = pc[z]
             /\ pc'[s] = "failed" => LiveRejected(s)
  BY <1>4, LiveCases DEF PhoneOK
<1>5. CASE Kill
  BY <1>5 DEF Kill
<1>6. CASE UNCHANGED <<pc, bound>>
  BY <1>6
<1>7. CASE DrainAccepted \/ ToggleConsent \/ ToggleSwitch \/ UNCHANGED vars
           \/ \E s \in Ride : LiveAccepted(s) \/ StrayLands(s)
  BY <1>6, <1>7 DEF DrainAccepted, ToggleConsent, ToggleSwitch, LiveAccepted, StrayLands, vars, phone
<1>8. CASE \E s \in Ride : Submit(s)
  <2>1. PICK s \in Ride : Submit(s)
    BY <1>8
  <2>2. CASE r = s
    BY <1>1, <2>1, <2>2
  <2>3. CASE r # s
    BY <1>1, <2>1, <2>3
  <2> QED BY <2>2, <2>3
<1>9. CASE \E s \in Ride : LiveReply(s)
  <2>1. PICK s \in Ride : LiveReply(s)
    BY <1>9
  <2>2. CASE r = s
    BY <1>4, <2>1, <2>2
  <2>3. CASE r # s
    BY <1>4, <2>1, <2>3
  <2> QED BY <2>2, <2>3
<1> QED
  BY <1>2, <1>3, <1>5, <1>7, <1>8, <1>9 DEF Next

\* With one submit at a time, a submit finds none open.
LEMMA SubmitAlone ==
  ASSUME PhoneOK, RestOK, NEW r \in Ride, Submit(r)
  PROVE  /\ \A s \in Ride : pc[s] # "new" <=> s < r
         /\ bound.open = 1 => Open = {}
<1>1. Submitted = 1..(r - 1) /\ Cardinality(Open) < bound.open /\ Ride = 1..Rides /\ Rides \in Nat
  BY QueueAssumption DEF Submit, Ride
<1>2. \A s \in Ride : pc[s] # "new" <=> s < r
  BY <1>1 DEF Submitted
<1>3. bound.open = 1 => Open = {}
  <2>1. IsFiniteSet(Ride)
    BY <1>1, FS_Interval
  <2>2. IsFiniteSet(Open)
    BY <2>1, FS_Subset DEF Open
  <2>3. Cardinality(Open) \in Nat
    BY <2>2, FS_CardinalityType
  <2>4. bound.open = 1 => Cardinality(Open) = 0
    BY <1>1, <2>3
  <2> QED BY <2>2, <2>4, FS_EmptySet
<1> QED
  BY <1>2, <1>3

\* Every step keeps submits in order and one at a time.
LEMMA CallsStep ==
  PhoneOK /\ RestOK /\ Closed /\ OneByOne /\ FailedOnce /\ [Next]_vars
    => Closed' /\ OneByOne' /\ FailedOnce'
<1> SUFFICES ASSUME PhoneOK, RestOK, Closed, OneByOne, FailedOnce, [Next]_vars
             PROVE  Closed' /\ OneByOne' /\ FailedOnce'
  OBVIOUS
<1>0. \A r \in Ride : r \in Nat
  BY QueueAssumption DEF Ride
<1>1. ASSUME NEW i \in Ride, NEW j \in Ride, i < j, pc'[j] # "new" PROVE pc'[i] # "new"
  <2>1. CASE pc[j] # "new"
    BY <1>1, <2>1, CallFrame DEF Closed
  <2>2. CASE Submit(j)
    BY <1>1, <2>2, SubmitAlone, CallFrame
  <2> QED BY <1>1, <2>1, <2>2, CallFrame
<1>2. ASSUME bound'.open = 1, NEW r \in Open', NEW s \in Submitted' PROVE s <= r
  <2>0. r \in Ride /\ s \in Ride /\ pc'[s] # "new" /\ pc'[r] # "new" /\ bound.open = 1
    BY <1>2, CallFrame DEF Open, Submitted
  <2>1. CASE Submit(r)
    <3>1. s = r \/ pc[s] # "new" \/ Submit(s)
      BY <2>0, CallFrame
    <3>2. pc[s] # "new" => s < r
      BY <2>0, <2>1, SubmitAlone
    <3>3. Submit(s) => s = r
      BY <2>0, <2>1, SubmitFrame, CallFrame
    <3> QED BY <1>0, <2>0, <3>1, <3>2, <3>3
  <2>2. CASE ~Submit(r)
    <3>1. r \in Open
      BY <1>2, <2>0, <2>2, CallFrame
    <3>2. ~Submit(s)
      BY <2>0, <3>1, SubmitAlone
    <3>3. s \in Submitted
      BY <2>0, <3>2, CallFrame DEF Submitted
    <3> QED BY <2>0, <3>1, <3>3 DEF OneByOne
  <2> QED BY <2>1, <2>2
<1>3. ASSUME NEW r \in Ride, pc'[r] = "failed" PROVE rejected'[r] > 0
  <2>1. CASE pc[r] = "failed"
    <3>1. /\ rejected[r] > 0 /\ rejected[r] \in Nat /\ rejected'[r] \in Nat
          /\ rejected[r] <= rejected'[r]
      BY <2>1, HistoryGrows DEF FailedOnce
    <3> QED BY <3>1
  <2>2. CASE LiveRejected(r)
    BY <2>2, RejectionFacts DEF LiveRejected
  <2> QED BY <1>3, <2>1, <2>2, CallFrame
<1> QED
  BY <1>1, <1>2, <1>3 DEF Closed, OneByOne, FailedOnce

\* The submits waiting, if any, are then one, of a ride younger than every entry.
LEMMA OneWaits ==
  ASSUME PhoneOK, OneByOne, bound.open = 1
  PROVE  /\ Len(waiting) <= 1
         /\ \A r \in Open : /\ \A e \in Range(queue) : e.ride < r
                            /\ \A s \in Open : s = r
         /\ \A r \in Range(waiting) : r \in Open
<1>1. \A r \in Range(waiting) : r \in Open
  BY DEF PhoneOK, Waiters, Open, Range
<1>2. ASSUME NEW r \in Open, NEW s \in Open PROVE s = r
  <2>1. s <= r /\ r <= s /\ r \in Nat /\ s \in Nat
    BY QueueAssumption DEF OneByOne, Open, Submitted, Ride
  <2> QED BY <2>1
<1>3. ASSUME NEW r \in Open, NEW e \in Range(queue) PROVE e.ride < r
  <2>1. e.ride \in Ride /\ r \in Ride /\ e.ride # r /\ e.ride \in Submitted
    BY QueuedFacts DEF Open, Submitted
  <2>2. e.ride <= r /\ e.ride \in Nat /\ r \in Nat
    BY <2>1, QueueAssumption DEF OneByOne, Ride
  <2> QED BY <2>1, <2>2
<1>4. Len(waiting) <= 1
  <2>0. waiting \in Seq(Ride) /\ Len(waiting) \in Nat /\ DOMAIN waiting = 1..Len(waiting)
    BY DEF PhoneOK
  <2>1. ASSUME Len(waiting) > 1 PROVE FALSE
    <3>1. 1 \in DOMAIN waiting /\ 2 \in DOMAIN waiting
      BY <2>0, <2>1
    <3>2. waiting[1] \in Range(waiting) /\ waiting[2] \in Range(waiting)
      BY <3>1 DEF Range
    <3>3. waiting[1] = waiting[2]
      BY <1>1, <1>2, <3>2
    <3> QED BY <3>1, <3>3 DEF PhoneOK, Waiters, Distinct
  <2> QED BY <2>0, <2>1
<1> QED
  BY <1>1, <1>2, <1>3, <1>4

\* Every step keeps the backlog in the order of submission.
LEMMA SequenceStep ==
  PhoneOK /\ RestOK /\ OneByOne /\ InSequence /\ [Next]_vars => InSequence'
<1> SUFFICES ASSUME PhoneOK, RestOK, OneByOne, InSequence, [Next]_vars, bound'.open = 1
             PROVE  Sorted(queue')
  BY DEF InSequence
<1> USE DEF history
<1>0. bound.open = 1 /\ Sorted(queue)
  <2>1. bound' = bound
    BY DEF Next, vars, Submit, RetryNow, DrainReply, DrainUploaded, DrainNetworkDown,
       DrainTransient, DrainRejected, DrainAccepted, LiveReply, LiveUploaded, LiveNetworkDown,
       LiveTransient, LiveRejected, LiveAccepted, StrayLands, ToggleConsent, ToggleSwitch, Kill
  <2> QED BY <2>1 DEF InSequence
<1>1. ASSUME NEW r \in Ride, Submit(r) PROVE Sorted(queue')
  <2>0. pc[r] = "new" /\ \A e \in Range(queue) : e.ride < r
    <3>1. \A s \in Ride : pc[s] # "new" => s < r
      BY <1>1, SubmitAlone
    <3> QED BY <1>1, <3>1, SubmitFrame, QueuedFacts
  <2>1. CASE Turn(queue, {}, <<r>>)
    <3>1. Range(<<r>>) = {r} /\ Len(<<r>>) <= 1
      BY ShortLists
    <3> QED BY <1>0, <2>0, <2>1, <3>1 DEF Turn
  <2>2. CASE queue' \in {queue, <<>>, Enqueued(queue, <<r>>)}
    BY <1>0, <2>0, <2>2, ShortLists, EnqueueOneFacts
  <2> QED BY <1>1, <2>1, <2>2, SubmitCases
<1>2. CASE RetryNow
  <2>1. Turn(queue, {}, <<>>) => Sorted(queue')
    <3>1. Range(<<>>) = {} /\ Len(<<>>) <= 1
      BY ShortLists
    <3> QED BY <1>0, <3>1 DEF Turn
  <2> QED BY <1>0, <1>2, <2>1, RetryCases, ShortLists
<1>3. CASE DrainReply
  <2>1. PICK q : AfterReply(q) /\ Turn(q, drain.tried, waiting) /\ Sorted(q)
    BY <1>0, <1>3, ReplyCases
  <2>2. \A e \in Range(q) : \E d \in Range(queue) : d.ride = e.ride
    BY <1>3, <2>1, AfterReplyFacts
  <2>3. \A e \in Range(q), r \in Range(waiting) : e.ride < r
    BY <1>0, <2>2, OneWaits
  <2> QED BY <1>0, <2>1, <2>3, OneWaits DEF Turn
<1>4. ASSUME NEW r \in Ride, LiveReply(r) PROVE Sorted(queue')
  <2>1. r \in Open /\ pc[r] # "done" /\ queue' \in {queue, <<>>, Enqueued(queue, <<r>>)}
    BY <1>4, LiveCases DEF Open
  <2> QED BY <1>0, <2>1, OneWaits, ShortLists, EnqueueOneFacts
<1>5. CASE UNCHANGED queue
  BY <1>0, <1>5
<1> QED
  BY <1>1, <1>2, <1>3, <1>4, <1>5 DEF Next, vars, phone, ToggleConsent,
     ToggleSwitch, LiveAccepted, StrayLands, Kill, DrainAccepted

\* A drain that a retriable failure ends lets no submit go live.
LEMMA BrokenOff ==
  ASSUME PhoneOK, DrainNetworkDown \/ DrainTransient
  PROVE  ~drain'.on /\ \A r \in Ride : pc'[r] = "live" => pc[r] = "live"
<1>1. ASSUME NEW b, NEW net, NEW transient, EndDrain(b, net, transient, waiting),
             net \/ transient \/ ~consent
      PROVE  drain' = Idle /\ \A r \in Ride : pc'[r] = "live" => pc[r] = "live"
  BY <1>1 DEF EndDrain, Resume
<1>2. \E net, transient \in BOOLEAN : (net \/ transient) /\ Failed(net, transient)
  BY DEF DrainNetworkDown, DrainTransient
<1>3. PICK net \in BOOLEAN, transient \in BOOLEAN : (net \/ transient) /\ Failed(net, transient)
  BY <1>2
<1>4. CASE consent
  <2>1. EndDrain(queue, net, transient, waiting)
    BY <1>3, <1>4 DEF Failed
  <2> QED BY <1>1, <1>3, <2>1 DEF Idle
<1>5. CASE ~consent
  <2>1. EndDrain(<<>>, FALSE, FALSE, waiting)
    BY <1>3, <1>5 DEF Failed
  <2> QED BY <1>5, <2>1 DEF EndDrain, Resume, Idle
<1> QED
  BY <1>4, <1>5

\* What a turn leaves of a drain's record.
LEMMA TurnKeepsTried ==
  ASSUME PhoneOK, RestOK', NEW q, NEW tried, NEW w, Ready(q, w), Turn(q, tried, w),
         \A e \in Range(q) : pc[e.ride] = "done",
         \A r \in tried : r \in Ride /\ pc[r] = "done",
         \A e \in Range(q) : e.ride \in tried => rejected'[e.ride] > 0,
         \A r \in Range(w) : pc[r] # "done"
  PROVE  TriedBefore'
<1>1. CASE TurnEnds(q, tried, w)
  BY <1>1 DEF TurnEnds, TriedBefore, Idle
<1>2. CASE TurnSends(q, tried, w)
  <2>1. PICK e \in Range(q) : drain' = Uploading(e, tried \cup {e.ride}, FALSE) /\ queue' = q
    BY <1>2 DEF TurnSends
  <2>2. drain'.cur = e /\ drain'.tried = tried \cup {e.ride}
    BY <2>1 DEF Uploading
  <2>3. \A r \in Ride : pc[r] = "done" => pc'[r] = "done"
    BY DEF Turn
  <2>4. e.ride \in Ride
    <3>1. e \in Entry
      BY DEF Ready, Range
    <3> QED BY <3>1 DEF Entry
  <2> QED BY <2>1, <2>2, <2>3, <2>4 DEF TriedBefore
<1> QED
  BY <1>1, <1>2 DEF Turn

\* Every step keeps the record of a drain.
LEMMA TriedStep ==
  PhoneOK /\ RestOK /\ TriedBefore /\ [Next]_vars => TriedBefore'
<1> SUFFICES ASSUME PhoneOK, RestOK, TriedBefore, [Next]_vars PROVE TriedBefore'
  OBVIOUS
<1> USE DEF history
<1>0. /\ RestOK'
      /\ \A r \in Ride : rejected[r] \in Nat /\ rejected'[r] \in Nat /\ rejected[r] <= rejected'[r]
      /\ \A r \in Ride : pc[r] = "done" => pc'[r] = "done"
      /\ drain.on => drain.tried \subseteq Ride
      /\ \A e \in Range(queue) : e.ride \in Ride /\ pc[e.ride] = "done"
  BY RestInductive, HistoryGrows, CallFrame, DrainFacts, QueuedFacts
\* The drain goes on, and the backlog has at most one new entry, not of a ride that is over.
<1>1. ASSUME drain'.on => drain.on /\ drain'.cur = drain.cur /\ drain'.tried = drain.tried,
             \A e \in Range(queue') : e \in Range(queue) \/ (e.ride \in Ride /\ pc[e.ride] # "done")
      PROVE  TriedBefore'
  <2>1. ASSUME drain'.on, NEW e \in Range(queue'), e.ride \in drain'.tried
        PROVE  e.ride = drain'.cur.ride \/ rejected'[e.ride] > 0
    <3>1. e \in Range(queue)
      BY <1>1, <2>1 DEF TriedBefore
    <3>2. e.ride = drain.cur.ride \/ rejected[e.ride] > 0
      BY <1>1, <2>1, <3>1 DEF TriedBefore
    <3> QED BY <1>0, <1>1, <2>1, <3>1, <3>2
  <2>2. drain'.on => \A r \in drain'.tried : pc'[r] = "done"
    BY <1>0, <1>1 DEF TriedBefore
  <2> QED BY <2>1, <2>2 DEF TriedBefore
<1>2. ASSUME NEW r \in Ride, Submit(r) PROVE TriedBefore'
  <2>0. pc[r] = "new" /\ Range(<<r>>) = {r} /\ Ready(queue, <<r>>)
    BY <1>2, SubmitFrame, ShortLists, ReadyFacts
  <2>1. CASE Turn(queue, {}, <<r>>)
    BY <1>0, <2>0, <2>1, TurnKeepsTried
  <2>2. CASE drain' = drain /\ queue' \in {queue, <<>>, Enqueued(queue, <<r>>)}
    <3>1. \A e \in Range(queue') : e \in Range(queue) \/ e = Fresh(r)
      BY <2>0, <2>2, EnqueueOneFacts, ShortLists
    <3> QED BY <1>1, <2>0, <2>2, <3>1 DEF Fresh
  <2> QED BY <1>2, <2>1, <2>2, SubmitCases
<1>3. CASE RetryNow
  <2>1. CASE Turn(queue, {}, <<>>)
    BY <1>0, <2>1, ReadyFacts, ShortLists, TurnKeepsTried
  <2>2. CASE drain' = drain /\ queue' \in {queue, <<>>}
    BY <1>1, <2>2, ShortLists
  <2> QED BY <1>3, <2>1, <2>2, RetryCases
<1>4. CASE DrainUploaded \/ DrainRejected
  <2>1. PICK q : /\ AfterReply(q) /\ drain.on /\ Ready(q, waiting)
                 /\ Turn(q, drain.tried, waiting) /\ \A e \in Range(q) : pc[e.ride] = "done"
    BY <1>4, ReplyCases DEF DrainReply
  <2>2. \A e \in Range(q) : /\ \E d \in Range(queue) : d.ride = e.ride
                            /\ e.ride = drain.cur.ride => rejected'[e.ride] > 0
    BY <1>4, <2>1, AfterReplyFacts DEF DrainReply
  <2>3. ASSUME NEW e \in Range(q), e.ride \in drain.tried PROVE rejected'[e.ride] > 0
    <3>1. PICK d \in Range(queue) : d.ride = e.ride
      BY <2>2
    <3>2. e.ride = drain.cur.ride \/ rejected[e.ride] > 0
      BY <2>1, <2>3, <3>1 DEF TriedBefore
    <3> QED BY <1>0, <2>2, <3>1, <3>2
  <2>4. \A r \in Range(waiting) : pc[r] # "done"
    BY ResumesFacts DEF Resumes
  <2> QED BY <1>0, <2>1, <2>3, <2>4, TurnKeepsTried DEF TriedBefore
<1>5. CASE DrainNetworkDown \/ DrainTransient
  BY <1>5, BrokenOff DEF TriedBefore
<1>6. ASSUME NEW r \in Ride, LiveReply(r) PROVE TriedBefore'
  <2>1. pc[r] = "live" /\ drain' = drain /\ queue' \in {queue, <<>>, Enqueued(queue, <<r>>)}
    BY <1>6, LiveCases
  <2>2. \A e \in Range(queue') : e \in Range(queue) \/ e = Fresh(r)
    BY <2>1, EnqueueOneFacts, ShortLists
  <2> QED BY <1>1, <2>1, <2>2 DEF Fresh
<1>7. CASE DrainAccepted
  <2>1. drain.on /\ drain'.cur = drain.cur /\ drain'.tried = drain.tried /\ queue' = queue
    BY <1>7, DrainFacts DEF DrainAccepted
  <2> QED BY <1>1, <2>1
<1>8. CASE Kill
  BY <1>8 DEF Kill, TriedBefore, Idle
<1>9. CASE UNCHANGED <<queue, drain>>
  BY <1>1, <1>9
<1> QED
  BY <1>2, <1>3, <1>4, <1>5, <1>6, <1>7, <1>8, <1>9 DEF Next, DrainReply, vars, phone,
     ToggleConsent, ToggleSwitch, LiveAccepted, StrayLands

\* What a turn that leaves the phone sending ride j, or has it live, knows of the others.
LEMMA TurnStarts ==
  ASSUME NEW q, NEW w, NEW tried, Ready(q, w), Turn(q, tried, w), Sorted(q),
         NEW j \in Ride, Sending(j)' \/ (j \in Range(w) /\ pc'[j] = "live")
  PROVE  /\ consent /\ queue' = q
         /\ \A e \in Range(q) : e.ride < j => e.ride \in tried
         /\ j \in Range(w) \/ \E e \in Range(q) : e.ride = j
<1>1. CASE TurnEnds(q, tried, w)
  <2>1. ~drain'.on
    BY <1>1 DEF TurnEnds, Idle
  <2> QED BY <1>1, <2>1 DEF TurnEnds, Sending
<1>2. CASE TurnSends(q, tried, w)
  <2>1. PICK e \in Range(q) : /\ drain' = Uploading(e, tried \cup {e.ride}, FALSE)
                              /\ \A d \in Range(q) : d.ride < e.ride => d.ride \in tried
    BY <1>2 DEF TurnSends
  <2>2. j = e.ride
    BY <1>2, <2>1 DEF TurnSends, Sending, Uploading
  <2> QED BY <1>2, <2>1, <2>2 DEF TurnSends
<1> QED
  BY <1>1, <1>2 DEF Turn

\* A ride that is on its way or landed was sent by a step before.
LEMMA OnlySentLand ==
  ASSUME PhoneOK, RestOK, [Next]_vars, NEW r \in Ride, r \in stray' \cup Range(landed')
  PROVE  Gone(r)
<1> USE DEF history, Gone
<1>1. ASSUME NEW s \in Ride, landed' = Append(landed, s), Gone(s), stray' \subseteq stray
      PROVE  Gone(r)
  <2>1. Range(landed') = Range(landed) \cup {s}
    BY <1>1, LandFacts DEF RestOK
  <2> QED BY <1>1, <2>1
<1>2. ASSUME NEW s \in Ride, stray' \in {stray, stray \cup {s}}, landed' = landed, Gone(s)
      PROVE  Gone(r)
  BY <1>2
<1>3. CASE DrainAccepted
  <2>1. drain.cur.ride \in Ride /\ Gone(drain.cur.ride)
    BY <1>3, DrainFacts DEF DrainAccepted, Sending
  <2> QED BY <1>1, <1>3, <2>1 DEF DrainAccepted, Land
<1>4. ASSUME NEW s \in Ride, LiveAccepted(s) \/ StrayLands(s) PROVE Gone(r)
  BY <1>1, <1>4 DEF LiveAccepted, StrayLands, Land
<1>5. CASE DrainNetworkDown
  <2>1. drain.cur.ride \in Ride /\ Gone(drain.cur.ride)
    BY <1>5, DrainFacts DEF DrainNetworkDown, Sending
  <2> QED BY <1>2, <1>5, <2>1 DEF DrainNetworkDown, GivenUp
<1>6. ASSUME NEW s \in Ride, LiveNetworkDown(s) PROVE Gone(r)
  BY <1>2, <1>6 DEF LiveNetworkDown, GivenUp
<1>7. CASE Kill
  <2>1. /\ landed' = landed
        /\ \E late \in SUBSET ({s \in Ride : pc[s] = "live"}
                                 \cup IF drain.on THEN {drain.cur.ride} ELSE {}) :
             stray' = stray \cup late
    BY <1>7 DEF Kill
  <2> QED BY <2>1 DEF Sending
<1>8. CASE UNCHANGED <<stray, landed>>
  BY <1>8
<1>9. CASE \/ RetryNow \/ DrainUploaded \/ DrainTransient \/ DrainRejected
           \/ ToggleConsent \/ ToggleSwitch \/ UNCHANGED vars
           \/ \E s \in Ride : Submit(s) \/ LiveUploaded(s) \/ LiveTransient(s) \/ LiveRejected(s)
  BY <1>8, <1>9 DEF RetryNow, DrainUploaded, DrainTransient, DrainRejected, ToggleConsent,
     ToggleSwitch, vars, Submit, LiveUploaded, LiveTransient, LiveRejected
<1> QED
  BY <1>3, <1>4, <1>5, <1>6, <1>7, <1>9 DEF Next, DrainReply, LiveReply

\* When the first request for j starts, no other submit is open, and every earlier ride
\* of the backlog was tried by the drain that just had a reply.
LEMMA FirstRequest ==
  ASSUME PhoneOK, RestOK, OneByOne, InSequence, [Next]_vars, bound.open = 1,
         NEW j \in Ride, Gone(j)', ~Gone(j)
  PROVE  /\ consent
         /\ \A i \in Ride : i < j => i \notin Open
         /\ \A e \in Range(queue') : e.ride < j =>
              /\ DrainUploaded \/ DrainRejected
              /\ e.ride \in drain.tried
              /\ \E d \in Range(queue) : d.ride = e.ride
         /\ pc[j] \in {"done", "waiting"} \/ Submit(j)
<1> USE DEF history
<1>0. /\ Sending(j)' \/ (pc'[j] = "live" /\ pc[j] # "live")
      /\ ~Sending(j) /\ Sorted(queue)
  BY OnlySentLand DEF Gone, InSequence
<1>1. \A i \in Ride : i < j => i \notin Open \/ j \notin Submitted
  <2>1. \A i \in Ride : i \in Nat
    BY QueueAssumption DEF Ride
  <2> QED BY <2>1 DEF OneByOne
<1>2. \A e \in Range(queue) : e.ride \in Ride /\ pc[e.ride] = "done"
  BY QueuedFacts
<1>3. ASSUME NEW r \in Ride, Submit(r)
      PROVE  /\ consent /\ (j = r \/ pc[j] = "done")
             /\ \A i \in Ride : i \notin Open
             /\ \A e \in Range(queue') : ~(e.ride < j)
  <2>1. /\ Range(<<r>>) = {r} /\ pc[r] = "new" /\ \A s \in Ride \ {r} : pc'[s] = pc[s]
        /\ Ready(queue, <<r>>)
    BY <1>3, ShortLists, SubmitFrame, ReadyFacts
  <2>2. Turn(queue, {}, <<r>>)
    <3>1. CASE drain' = drain /\ pc' = [s \in Ride |-> IF s \in {r} THEN "waiting" ELSE pc[s]]
      BY <1>0, <3>1 DEF Sending
    <3>2. CASE drain' = drain /\ pc' = [pc EXCEPT ![r] = "done"]
      BY <1>0, <3>2 DEF Sending, PhoneOK
    <3> QED BY <1>3, <3>1, <3>2, SubmitCases
  <2>3. Sending(j)' \/ (j \in Range(<<r>>) /\ pc'[j] = "live")
    BY <1>0, <2>1
  <2>4. /\ consent /\ queue' = queue
        /\ \A e \in Range(queue) : ~(e.ride < j)
        /\ j = r \/ \E e \in Range(queue) : e.ride = j
    BY <1>0, <2>1, <2>2, <2>3, TurnStarts
  <2>5. Open = {}
    BY <1>3, SubmitAlone
  <2> QED BY <1>2, <2>4, <2>5
<1>4. CASE RetryNow
  <2>1. Turn(queue, {}, <<>>)
    BY <1>0, <1>4, RetryCases DEF Sending
  <2>2. Sending(j)'
    BY <1>0, <2>1, ShortLists DEF Turn
  <2>3. /\ consent /\ queue' = queue
        /\ \A e \in Range(queue) : ~(e.ride < j)
        /\ \E e \in Range(queue) : e.ride = j
    BY <1>0, <2>1, <2>2, TurnStarts, ReadyFacts, ShortLists
  <2>4. pc[j] = "done"
    BY <1>2, <2>3
  <2> QED BY <1>1, <2>3, <2>4 DEF Submitted
<1>5. CASE DrainReply
  <2>1. PICK q : /\ AfterReply(q) /\ Ready(q, waiting) /\ Turn(q, drain.tried, waiting) /\ Sorted(q)
    BY <1>0, <1>5, ReplyCases
  <2>2. \A r \in Range(waiting) : r \in Ride /\ pc[r] = "waiting"
    BY DEF PhoneOK, Waiters, Range
  <2>3. Sending(j)' \/ (j \in Range(waiting) /\ pc'[j] = "live")
    BY <1>0, <2>1 DEF Turn
  <2>4. DrainUploaded \/ DrainRejected
    <3>1. CASE DrainNetworkDown \/ DrainTransient
      BY <1>0, <3>1, BrokenOff DEF Sending
    <3> QED BY <1>5, <3>1 DEF DrainReply
  <2>5. /\ consent /\ queue' = q
        /\ \A e \in Range(q) : e.ride < j => e.ride \in drain.tried
        /\ j \in Range(waiting) \/ \E e \in Range(q) : e.ride = j
    BY <2>1, <2>3, TurnStarts
  <2>6. \A e \in Range(q) : \E d \in Range(queue) : d.ride = e.ride
    BY <1>5, <2>1, AfterReplyFacts
  <2>7. pc[j] \in {"done", "waiting"}
    BY <1>2, <2>2, <2>5, <2>6
  <2> QED BY <1>1, <2>4, <2>5, <2>6, <2>7 DEF Submitted
<1>6. ASSUME NEW r \in Ride, LiveReply(r) PROVE FALSE
  BY <1>0, <1>6, LiveCases DEF Sending, PhoneOK
<1>7. CASE DrainAccepted
  <2>1. Sending(j)' = Sending(j) /\ pc' = pc
    BY <1>7, DrainFacts DEF DrainAccepted, Sending
  <2> QED BY <1>0, <2>1
<1>8. CASE Kill
  BY <1>0, <1>8, DrainFacts DEF Kill, Sending
<1>9. CASE UNCHANGED <<drain, pc>>
  BY <1>0, <1>9 DEF Sending
<1> QED
  BY <1>3, <1>4, <1>5, <1>6, <1>7, <1>8, <1>9 DEF Next, vars, phone, ToggleConsent,
     ToggleSwitch, LiveAccepted, StrayLands

\* No request starts for a ride that was not submitted.
LEMMA GoneStep == PhoneOK /\ RestOK /\ GoneAreSubmitted /\ [Next]_vars => GoneAreSubmitted'
<1> SUFFICES ASSUME PhoneOK, RestOK, GoneAreSubmitted, [Next]_vars, NEW r \in Ride, Gone(r)'
             PROVE  pc'[r] # "new"
  BY DEF GoneAreSubmitted
<1>1. CASE Gone(r)
  BY <1>1, CallFrame DEF GoneAreSubmitted
<1>2. CASE ~Gone(r)
  <2>1. Sending(r)' \/ pc'[r] = "live"
    BY <1>2, OnlySentLand DEF Gone
  <2> QED BY <2>1, PhoneInductive DEF Sending, PhoneOK, Backlog
<1> QED
  BY <1>1, <1>2

\* No ride overtakes an earlier one.
LEMMA OvertakenStep ==
  PhoneOK /\ RestOK /\ KeepsRides /\ Orderly /\ [Next]_vars => NoneOvertaken'
<1> SUFFICES ASSUME PhoneOK, RestOK, KeepsRides, Orderly, [Next]_vars, bound'.open = 1,
                    NEW i \in Ride, NEW j \in Ride, i < j, Gone(j)', Regular(i)'
             PROVE  i \in Range(landed')
  BY DEF NoneOvertaken
<1>0. /\ bound.open = 1 /\ rejected[i] \in Nat /\ rejected'[i] \in Nat /\ rejected[i] <= rejected'[i]
      /\ optedOut \subseteq optedOut' /\ Range(landed) \subseteq Range(landed')
      /\ MaxAttempts \in Nat \ {0}
  BY CallFrame, HistoryGrows, QueueAssumption
<1>1. pc[i] # "killed" /\ i \notin optedOut /\ rejected[i] = 0 /\ rejected'[i] = 0 /\ pc'[i] # "new"
  BY <1>0, CallFrame DEF Regular
<1>2. CASE pc[i] # "new" /\ Gone(j)
  BY <1>0, <1>1, <1>2 DEF Orderly, NoneOvertaken, Regular
<1>3. CASE pc[i] # "new" /\ ~Gone(j)
  <2>1. /\ consent /\ i \notin Open
        /\ \A e \in Range(queue') : e.ride < j =>
             /\ DrainUploaded \/ DrainRejected
             /\ e.ride \in drain.tried
             /\ \E d \in Range(queue) : d.ride = e.ride
    BY <1>0, <1>3, FirstRequest DEF Orderly
  <2>2. pc[i] = "done"
    <3>1. pc[i] # "failed"
      BY <1>1 DEF Orderly, FailedOnce
    <3> QED BY <1>1, <1>3, <2>1, <3>1 DEF Open, PhoneOK, Steps
  <2>3. InQueue(i) \/ i \in Range(landed)
    BY <1>0, <1>1, <2>2 DEF KeepsRides, AllKept, Kept
  <2>4. ASSUME InQueue(i), i \notin Range(landed) PROVE FALSE
    <3>1. InQueue(i)'
      BY <1>0, <1>1, <2>1, <2>4, EntriesStay DEF KeepsRides
    <3>2. PICK d \in Range(queue) : d.ride = i /\ i \in drain.tried /\ (DrainUploaded \/ DrainRejected)
      BY <2>1, <3>1 DEF InQueue
    <3>3. drain.on
      BY <3>2 DEF DrainUploaded, DrainRejected
    <3>4. i = drain.cur.ride
      BY <1>1, <3>2, <3>3 DEF Orderly, TriedBefore
    <3>5. CASE DrainUploaded
      BY <2>4, <3>4, <3>5 DEF DrainUploaded, KeepsRides, Receipts
    <3>6. CASE DrainRejected
      BY <1>1, <3>4, <3>6, RejectionFacts DEF DrainRejected
    <3> QED BY <3>2, <3>5, <3>6
  <2> QED BY <1>0, <2>3, <2>4
<1>4. CASE pc[i] = "new"
  <2>1. Submit(i)
    BY <1>1, <1>4, CallFrame
  <2>2. i \in Nat /\ j \in Nat /\ pc[j] = "new"
    BY <2>1, SubmitAlone, QueueAssumption DEF Ride
  <2>3. ~Gone(j)
    BY <2>2 DEF Orderly, GoneAreSubmitted
  <2>4. Submit(j)
    BY <1>0, <2>2, <2>3, FirstRequest DEF Orderly
  <2>5. pc[i] # "new"
    BY <2>4, SubmitAlone
  <2> QED BY <1>4, <2>5
<1> QED
  BY <1>2, <1>3, <1>4

\* With one submit at a time, rides first reach the server in the order they were
\* submitted, leaving aside those rejected, opted out or cut off by a kill of the app.
THEOREM RidesInOrder == Spec => []RidesLandInOrder
<1>1. Init => KeepsRides /\ Orderly
  <2> SUFFICES ASSUME Init PROVE KeepsRides /\ Orderly
    OBVIOUS
  <2>1. /\ queue = <<>> /\ drain = Idle /\ Idle.on = FALSE /\ accepted = {} /\ consent = TRUE
        /\ \A r \in Ride : pc[r] = "new"
        /\ stray = {} /\ landed = <<>>
    BY DEF Init, Idle
  <2>2. \A r \in Ride : ~Gone(r)
    BY <2>1 DEF Gone, Sending, Range
  <2> QED
    BY <2>1, <2>2, ShortLists DEF KeepsRides, Receipts, OptedOut, Budget, AllKept, Orderly, Closed,
       OneByOne, InSequence, TriedBefore, FailedOnce, GoneAreSubmitted, NoneOvertaken, Open
<1>2. PhoneOK /\ RestOK /\ KeepsRides /\ Orderly /\ [Next]_vars => KeepsRides' /\ Orderly'
  BY KeepsRidesStep, CallsStep, SequenceStep, TriedStep, GoneStep, OvertakenStep DEF Orderly
<1>3. Orderly => RidesLandInOrder
  <2> SUFFICES ASSUME Orderly, bound.open = 1, NEW i \in Ride, NEW j \in Ride, Regular(i), i < j,
                      j \in Range(landed)
               PROVE  i \in Range(landed)
    BY DEF RidesLandInOrder, Regular
  <2> QED BY DEF Orderly, NoneOvertaken, Gone
<1> QED
  BY <1>1, <1>2, <1>3, StateOK, PTL DEF Spec

----------------------------------------------------------------------------
(* No upload starts without consent.                                         *)

\* A turn starts requests with both switches on, or starts none.
LEMMA TurnAsks ==
  ASSUME NEW q, NEW w, NEW tried, Turn(q, tried, w), NEW r \in Ride, Starts(r)
  PROVE  consent /\ switch
<1>1. CASE TurnEnds(q, tried, w)
  BY <1>1 DEF Turn, TurnEnds, Starts, Idle
<1>2. CASE TurnSends(q, tried, w)
  BY <1>2 DEF TurnSends
<1> QED
  BY <1>1, <1>2 DEF Turn

\* So does every step.
LEMMA StartsAreAllowed ==
  ASSUME PhoneOK, RestOK, Next, NEW r \in Ride, Starts(r)
  PROVE  consent /\ switch
\* The drain keeps its entry, and no submit goes live.
<1>1. ASSUME drain'.on => drain.on /\ drain'.cur = drain.cur,
             \A s \in Ride : pc'[s] = "live" => pc[s] = "live"
      PROVE  FALSE
  BY <1>1 DEF Starts
<1>2. ASSUME NEW s \in Ride, Submit(s) PROVE consent /\ switch
  <2>1. CASE drain' = drain /\ pc' = [z \in Ride |-> IF z \in {s} THEN "waiting" ELSE pc[z]]
    BY <1>1, <2>1
  <2>2. CASE drain' = drain /\ pc' = [pc EXCEPT ![s] = "done"]
    BY <1>1, <2>2 DEF PhoneOK
  <2> QED BY <1>2, <2>1, <2>2, SubmitCases
<1>3. CASE RetryNow
  BY <1>1, <1>3, RetryCases, TurnAsks
<1>4. CASE DrainReply
  BY <1>4, ReplyCases, TurnAsks
<1>5. ASSUME NEW s \in Ride, LiveReply(s) PROVE FALSE
  BY <1>1, <1>5, LiveCases DEF PhoneOK
<1>6. CASE DrainAccepted
  BY <1>1, <1>6, DrainFacts DEF DrainAccepted
<1>7. CASE Kill
  BY <1>1, <1>7, DrainFacts DEF Kill
<1>8. CASE ToggleConsent \/ ToggleSwitch \/ \E s \in Ride : LiveAccepted(s) \/ StrayLands(s)
  BY <1>1, <1>8 DEF ToggleConsent, ToggleSwitch, LiveAccepted, StrayLands, phone
<1> QED
  BY <1>2, <1>3, <1>4, <1>5, <1>6, <1>7, <1>8 DEF Next

\* No upload starts, live or from the backlog, while the rider has opted out or the
\* operator has paused ingestion, wherever the toggles fall between the awaits.
THEOREM ConsentIsAsked == Spec => SentOnlyWithConsent
<1>1. PhoneOK /\ RestOK /\ [Next]_vars => [\A r \in Ride : Starts(r) => consent /\ switch]_vars
  BY StartsAreAllowed
<1> QED
  BY <1>1, StateOK, PTL DEF Spec, SentOnlyWithConsent
=============================================================================
