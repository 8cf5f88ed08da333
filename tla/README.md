# Tarmoto: TLA+ models, model checking and proofs

Tarmoto is a motorcycle app: a NestJS backend (`apps/backend`), a React Native
app (`apps/mobile`), a Next.js companion, an admin console, and packages they
share. This directory models the parts of it whose correctness hangs on the
order in which things happen: concurrent requests for one rider, leases that
lapse, replies that are lost, processes that are killed.

Contents: [inventory](#inventory), [modules](#modules), [runs](#runs-and-what-they-show),
[bounds](#bounds), [fairness](#fairness), [proofs](#proofs),
[where docs and code differ](#where-docs-and-code-differ),
[not modelled](#not-modelled), [plan](#plan).

## Inventory

| Component | State | Operations | Talks to | Hard behaviour | Correct when |
|---|---|---|---|---|---|
| Subscription-mutation lock (`account/subscription-mutation-lock.service.ts`) | a Redis key per rider; `subscription_lock_fence`, `_owner`, `_lease_expires_at` in the rider's row; a PostgreSQL sequence; per run: token, heartbeat | `runExclusive`: acquire key, take lease + token, renew, assert, guarded writes, release | Stripe webhook, store sweeps and notifications run under it; every guarded UPDATE of the rider's row compares fences | leases lapse under a stalled holder; an UPDATE queued behind the row lock wakes up in a different world; Redis forgets; the process dies | only the newest holder writes; nobody live is fenced out; external calls do not overlap; everything heals |
| Mobile sensor-upload queue (`services/offlineQueue.ts`) | a persisted FIFO; one drain in flight | `submitSensorUpload`, `drainOfflineQueue`, clear | `RideActiveScreen` submits, Settings retries; reads consent and an operator switch; POSTs to the backend | consent and the switch change at every `await`; replies are lost; the app is killed | no ride lost, sent without consent, duplicated for no reason, or overtaken |
| Store chains, roll-up, overlaps (`account/store-chain-writer.service.ts`, `store-rollup.ts`, `store-overlap.ts`) | one row per store subscription chain, a roll-up in the rider's row, overlap pairs | apply an observation, recompute expired roll-ups, sweep due overlaps, sync after a Stripe change | run under the lock with its fence; the Stripe flow syncs after its own writes | observations out of order; statements of lost leases; sweeps racing flows | roll-up equals what the live chains say; every double billing is tracked |
| Stripe flow (`account/account.service.ts`) | Stripe columns of the rider's row with the trial marker; reconciliation work items | webhook handlers under the lock: claim, reclaim, end, compensate, flush | Stripe API, lock, chains, notifications | redelivery, reordering, two subscriptions for one slot, a lease that lapses between two statements | one subscription owns the slot and it is the one that lives; nobody has two trials; a grant is not lost |
| Notifications (`subscription-notification.service.ts`) | a generation counter in the rider's row; queued jobs | enqueue, deliver under the lock | lock, BullMQ, email/push | a job delivered after the state it announces is gone | nothing stale is announced |
| Account deletion (`account-deletion.service.ts`, the worker in `store-reconciliation.processor.ts`, `admin-users.service.ts`) | `deleted_at`, `deletion_scheduled_at`, Stripe's renewal flag, work items, an advisory lock | request, restore, retry, purge when due | Stripe, the Stripe flow | restore against purge; Stripe timing out on a call that took effect; an activation during a deletion | a restored account is never torn down, a purged one never charged, and the flag is put right in the end |
| Data export (`account/data-export/`) | a row per request, a job, a ZIP in the object storage | request (reuse, expire, insert), enqueue, run | PostgreSQL, BullMQ, object storage, the purge | three stores without a common transaction; runners that are slow, dead or doubled; a row judged stuck while it is worked on | a ready row has its bundle, no bundle is forgotten, and who asks gets one in the end |
| Ride-stop reconciler (`mobile/services/rideStopReconciler.ts`) | persisted stops, requests in flight | stop, cancel, drain | HUD, kill watcher, backend | two stoppers, session swap, keep riding | a ride is stopped exactly when its rider wants it |
| Hazard, review queues (`mobile/services/hazardQueue.ts`, `reviewQueue.ts`) | persisted FIFOs | submit, drain | as the sensor queue | as the sensor queue, with more stop reasons | as the sensor queue |
| Trip collaboration, group rides, admin accounts, password reset, hazards | rows under row locks | voting, join/leave/end, demote, consume, claim photo | each other through PostgreSQL | two requests on one row | row-lock protocols hold |
| Rides, sensor ingestion, feature flags, crash detector, jobs, gateway, trips, roads, POI, imports, companion, admin, marketing, shared packages | various | various | | | see [not modelled](#not-modelled) |

## Modules

### `SubscriptionLock`: one rider's lock

A *flow* is one invocation of `runExclusive`, so its UUID owner string is the
flow itself. State: the Redis key (`keyOwner`, `keyTtl`), the rider's row
(`exists`, `leaseOwner`, `leaseTtl`, `fence`), the sequence `seq`, the row lock
as somebody else's transaction (`rowLocked`), the acquisition UPDATE a flow has
sent (`stmt`), and per flow its place in `runExclusive` (`pc`), attempts, token
and the time its external call may still take (`op`).

* `AcquireKey/AcquireTimeout/AcquireError` are `acquire`.
* `mintFenceToken` is split where PostgreSQL splits it. `ScanMatches` evaluates
  the WHERE clause and projects the new row; `StatementLands` gets the row lock
  and stores it, evaluating everything again if the row changed in between
  (READ COMMITTED); `ScanMisses`/`StatementMisses` find no row, and `Probe` is
  `riderExists`. A lease may be born expired. A client that gave up
  (`MintError`) leaves its statement running.
* `RenewKey`, `RenewLease` are the heartbeat; `Confirm`, `AssertFenceCurrent`,
  `GuardedWrite`, `ExternalWrite/ExternalDone`, `Finish` what a callback does, in
  any order; `ReleaseLease`, `ReleaseKey`, `ReleaseError` are `finally`.
* `Tick` lets all clocks run; `Crash`, `RedisLoss`, `RiderDeleted`,
  `LockRow/UnlockRow` are the environment. `Faults` selects which may happen.

`lastWrite` is an observation: the token of the last guarded write.

### `FencedRow`: what fencing promises

Two actions: an acquisition raises the epoch, a write is made in the name of the
current epoch. `SubscriptionLock` implements it with `epoch <- fence`,
`wrote <- lastWrite`; the refinement is the property `OnlyTheNewestWrites`.

### `OfflineQueue`: the phone's upload queue

JavaScript runs to completion between awaits, so an action is everything from
one await to the next: a call up to its first upload (`Submit`, `RetryNow`), or
a reply up to the next upload (`DrainUploaded`, `DrainNetworkDown`,
`DrainTransient`, `DrainRejected`, `LiveUploaded`, ...), including the submits
that resume when the drain they share ends (`Resume`). `Loop` is the head of the
drain loop with its consent and switch checks. The server (`DrainAccepted`,
`LiveAccepted`, `StrayLands`) accepts a request before its reply exists, so a lost
reply is a network error for an upload that landed, and a request that was given
up may still land. `Kill` keeps only the queue. Rides are numbered in the order in which
they are submitted; `optedOut`, `rejected`, `lost` are history for the properties.

### `StoreLiveness`, `StoreChains`: store subscriptions of a rider

`StoreLiveness` has the pure part: when a chain counts as live, the roll-up of a
set of chains (best tier, latest end within it), deadlines of overlap pairs.

In `StoreChains` a *flow* is one critical section under the rider's lock; of the
lock only the promise of `FencedRow` is kept: an acquisition stamps a new fence,
and a lease may lapse so that an older flow goes on beside a newer one. One action
is one SQL statement, and a transaction's row locks (`rowLock`, `chainLock`) hold
what it wrote until it commits.

* `applyChainState`: a fenced and ordered UPDATE, a classifying read, an INSERT
  with its disambiguation, the roll-up from the committed chains, its fenced
  stamp, the overlap sync. `recomputeExpiredRollups` enters at the roll-up.
* `sweepDueOverlaps` selects its batch first (`due`, with the time it began),
  then takes the lock and judges every pair.
* The Stripe flow: `Fetch` reads Stripe, `Settle` is the guarded write, `StripeSync` the
  overlap sync afterwards, which has no fence of its own.
* `SubscriptionMoves` is Stripe and the rider there: the subscription is created, a period
  is paid, a payment fails (`"unpaid"`, for `past_due` too), it pauses or is `incomplete`
  (`"dormant"`, which the code persists as `canceled`), the rider cancels it at the period
  end or takes that back (`renew`), and it ends for good. Only `"ended"` is final: `Terminal` and
  `renew`, by which a reading judges, may both be undone after it was fetched. Each move
  makes a new `version`, of which Stripe sends the event; `acked`, a history
  variable, is the newest version whose handler returned.
* `Tick` is the clock, `Crash` a dead process or a failed statement. `Jobs` is what
  flows may be asked to do; each flow does one job.

Abstracted: a rider has at most one Stripe subscription; deleting the account, the
trial marker and promotion of a pair to `open` are left out; the columns a settle
writes in several statements of one transaction are written at once, and
`updated_at` is the time of the transaction's last statement.

### `RideStop`: ending a ride from the phone

An action is what happens between two awaits; a continuation that is ready runs
before anything else (`Quiet`). State: whose tokens the phone has and whose
profile (`auth`, `profile`), the kill switch, the local session with its number
(`startedAtMs`), owner and ride, the start request of each session, the persisted
queue, the in-flight map with the bearer each request carries, open calls of
`stopAndExit` (`hud`) and of `drainPendingRideStops` (`drain`), and the server's rides.

* `FreshStart`, `RetryStart`, `StartLands`, `StartOk`, `StartFails`: the start
  request, also for a session that has ended meanwhile.
* `TapStop`, `HudGo`, `Finish`, `DiscardLocally`, `KeepRiding`: `stopAndExit`, its wait for
  a start, its upload and the three buttons of its alert.
* `Answer`, `NoAnswer`, `Expired`: the stop request, its 2xx/400/404, its loss, and the
  401 after which the client repeats it with the session of the moment.
* `Kill` is the watcher, `SignIn`, `SignOut`, `Foreground`, `DrainNext` the drains,
  `AppDies` a dead app, of which the queue and the tokens remain.

`holes` collects the rides that the code is known to let go of: a start whose
reply is lost, a 404 obtained with the wrong rider's token after a token refresh
or for a ride whose owner the session does not know, "Keep riding" on a stale
alert or beside a second open call, a call that ends another session than the one
it stopped, a kill that finds no owner, a dead app. Some of these contradict a
comment (see [below](#where-docs-and-code-differ)); `NoOrphan` says there are no others.
Abstracted: the request of a dead app has either landed or never lands; a start
is not repeated after a 401.

### `StripeFlow`: webhooks and one rider's billing row

A *flow* is the handling of one delivery, or of one notice, under the rider's lock.
Of the lock only what `SubscriptionLock` shows is kept: `newest` is whose token the
row's fence is, `holder` whose lease runs, and `Lapse` ends a lease under its
holder. One action is one SQL statement or one Stripe call, together with the
assertion that stands right before it; `pc` names the next one.

* `Deliver`, `Read`, `Fetch` begin a flow: the token, the row as of the lock, the live
  record of Stripe, which alone decides where the flow goes.
* `ClaimActive`, `Recheck`, `ClaimPastDue`, `Retire`, `Claim`, `Flush` are the
  activation, past-due and exclusivity claims with their guards on slot, status and
  trial marker; `StampEnded`, `Clear` the terminal branch.
* `Dedup`, `StampStale`, `ReadStored`, `AskStored`, `Reclaim`, `Reread` decide what to do
  with a subscription whose slot is taken; `Cancel`, `Refund`, `OpenConflict` compensate
  it, `Reject`, `EndTrial`, `OpenRejection` end a second trial.
* `Enqueue`, `Take`, `Match`, `Send` are a notice from its generation to its dispatch.
* `StripeMoves`, `CheckoutCompleted` (which takes no lock), `StoreTrial`, `Lapse`, `Fail`
  are the environment. `Ack` answers Stripe, `Abort` does not, and `heard` keeps a
  late answer of a superseded delivery from acknowledging the newer event.

What a rider starts with and what the environment may do comes as a *world*, chosen
in `Init` from the constant `Worlds`; `RowsAssumption` says that a world starts
without a Stripe subscription. `slips` records two places where the code acknowledges an event
without having done what it asks: a flush skipped behind a newer fence
(`"stamp"`) and a reclaim that takes its own id in the slot for another delivery's
work (`"reclaim"`). Abstracted: every price names one paid tier; amounts, dates and the
portal; of a work item only that it is open.

### `AccountDeletion`: deletion, restore and purge

One account, Stripe's `cancel_at_period_end` for each of its subscriptions, the open
`deletion_cancel_failed` items. A *process* is a request or a job on any pod; one
action is one transaction or one Stripe call, and the acquisition of the advisory lock
goes with the read that follows it.

* `Request` (no lock), `LockCancel`, `Cancel`, `Resolve` are `requestDeletion`;
  `Restore`, `Renew`, `Resolve` are `restoreAccount`; `Select` (no lock), `Retry`,
  `Converge`, `Resolve` the hourly worker; `Finalize` (the load before the lock),
  `LockPurge`, `HardCancel`, `DeleteCustomer`, `Delete` the purge; `SoftDelete` the
  admin's.
* `Event` is a Stripe event in one step (`StripeFlow` has the details), `Reread`,
  `FindOpen`, `OpenItem` what `ensureDeletionCancelReconciliation` adds to it.
* `Subscribe`, `PeriodEnds`, `GraceEnds` are Stripe and time; `Die`, `HookDies` dead
  processes; `FlagFails` a call that throws, with or without having taken effect.

Abstracted: the rows and files that go with the account, mails, sessions; the
`Delete` of an account that is no longer due leaves everything, a branch that the
model shows unreachable under the lock.

### `DataExport`: the rider's GDPR export

An export is known to three stores that share no transaction: its row in PostgreSQL,
its job in Redis, its ZIP in the object storage. One action is one statement or one call
to a store; every call may throw, with or without having taken effect.

* `Find`, `CheckExists`, `DeleteBundle`, `ExpireRow`, `InsertRow` are `requestExport` with
  `isRowReusable` and `expireAndCleanup`; `Enqueue`, `Rollback` the rest of the POST.
* `Take`, `Claim`, `Lookup`, `Put`, `Register`, `DeleteOrphan`, `Fail` are the runner:
  `markProcessing`, the SELECT of the user, the bundle, `markReady`, `markFailed`.
* `Strands`, `Runs`, `Slow` are time: a row is fresh, older than `STUCK_WORKER_MS`, or
  past its TTL. A row that nobody tends gets old by itself; one that is tended only if
  the queue or the runner is slow, which is a fault.
* `Redeliver`, `Die`, `Remove`, `Purge` are a second delivery of a job, a dead process, an
  operator who removes a bundle, the deletion of the account.

`zip = "lost"` names the ways in which the code lets a bundle go (listed at
`NoBundleIsForgotten`). The identities in `Req` are reused once nothing refers to them.

## Runs and what they show

| Run | Question | Result |
|---|---|---|
| `lock_fencing` | With every fault enabled: do only the newest holders write (`OnlyTheNewestWrites`), is a live owner never fenced out (`NoFalseStale`)? | holds |
| `lock_liveness` | With crashes and I/O errors, but no key loss: can two flows have a Stripe call under way at once (`ExternalExclusion`), does a hand-over meet a held lease although the holder neither died nor failed to release (`HandoffClean`), does every invocation end and every abandoned hold heal (`EveryFlowEnds`, `HoldsHeal`)? | never, never, yes |
| `upload_queue` | Any interleaving of submits, drains, toggles, lost replies, kills: is a ride lost (`NoRideLost`), duplicated without a lost reply (`DuplicatesNeedALostReply`), sent against consent or switch (`SentOnlyWithConsent`)? With one submit at a time: do rides reach the server in order (`RidesLandInOrder`)? Do retries empty the backlog, poison included (`BacklogDrains`)? | never; yes; yes |
| `chains_fencing` | Three flows report and recompute two chains, out of order and past lapsed leases: does a chain go back (`ChainsNeverGoBack`), is a stale verdict true (`StaleMeansNewer`), does the roll-up say what the committed chains say (`RollupFaithful`), is an ownership conflict, which starts a refund, ever reported of the rider's own chain (`ConflictMeansForeign`)? | holds |
| `chains_overlaps` | Is every double billing tracked (`OverlapTracked`), and none dropped while both sides charge on (`RetiredOnlyIfStopped`), although a cancellation, a pause or a period's end was read before it was taken back? | holds, with the [exception](#what-a-retired-pair-may-miss) of a reading Stripe has overtaken and still owes the event of |
| `chains_sweep` | Does a row the sweep has judged leave the front of its batch (`SweptRowsYield`)? | yes |
| `ride_stop` | Any interleaving of stops, kills, late starts, sign-ins, lost replies, a dead app: does the phone lose hold of an active ride (`NoOrphan`), is a ride that goes on recording stopped behind its rider's back (`OnlyTheRiderStopsARecordedRide`)? | only through `holes`, never |
| `ride_queue` | With two mounts of the HUD: is every queued stop worked off while its rider is signed in (`QueueDrains`)? | yes |
| `stripe_slot` | Events of two subscriptions for one slot, redelivered, late, fenced out or cut short: does the row end up agreeing with Stripe (`SettledRow`), has a rider two trials (`OneTrial`) or a trial nobody remembers (`TrialsAreStamped`), is the owner of the slot cancelled as a loser (`WinnersAreNotCancelled`), a grant dropped (`GrantsSurvive`), a false notice sent (`NoticesAreTrue`)? | yes, and never; two exceptions are named by `slips` |
| `account_deletion` | Requests, restores, worker, purge and activations race for the renewal flag: is a wrong flag forgotten (`MismatchIsOnRecord`) or left wrong for good (`FlagConverges`), a restored rider torn down (`TeardownOnlyWhileDue`), a purged one charged on (`PurgeLeavesNothingBilling`)? | never |
| `data_export` | Two POSTs and two runners over three stores, with failing calls, dead and slow processes, the purge: can two requests be active (`TypeOK`, the unique index), is a ready bundle deleted or another one forgotten (`StorageMatchesRows`), does a rider who keeps asking get a bundle (`BundleArrives`)? | never, never, yes |
| `stripe_refund` | Is the loser of a two-session conflict always refunded (`LosersAreRefunded`)? | violated, see [below](#where-docs-and-code-differ) |

Every property of a passing run comes with a mutant in `PROJECT.json`: a
plausible bug in the modelled code (for instance the pre-#1138 bare token of
`ProbeLease`, a release that frees the key first, removal by position instead of
by id) that makes TLC report the property violated.

## Bounds

* Lock: two flows reach every overlap of an old and a new holder. `TTL = 2` ticks tells
  "fresh", "about to lapse" and "lapsed" apart; `OpMax = TTL` is the longest call
  the code admits ("a single op cannot outlast it"). `Attempts = 2` (3 in the
  code) has a first, a repeated and a last attempt. A flow acquires once, so the
  sequence is bounded without a constraint.
* Queue: three rides give a backlog of two plus a fresh ride; `MaxAttempts = 2`
  (3 in the code). `Bounds` is chosen in `Init` and holds for a whole behaviour: how many
  submits are open at a time (two, or one as the stop button's `isStopping` has it) and
  how many replies are lost, answered with transient errors or cut off by kills, two with
  two submits and one with one, which between them reach every stop reason in both
  uploads.
* Chains: three flows (four for the sweep) are an old holder, the one that
  overtakes it and one more; each run asks for the jobs its question is about
  (`MCStoreChains`). `MaxNow = 3` lets a chain expire while a flow is under way and once
  more; `MaxNow = 2` in `chains_overlaps` leaves one tick, in which Stripe's first period
  ends and a pair falls due. `StripeEnds` has an end before and one after that. `MaxMoves = 3` lets Stripe create a subscription, stop it and take the
  stop back, or renew it twice; `StripeStates` is what a run needs besides `"live"`, which a
  payment leads to, and `"ended"`: in `chains_overlaps` a failed payment, which leaves a
  grant in place, and a pause. Two chains per rider are enough for a roll-up that must
  choose, a second rider for a claim that must be refused.
* Rides: two rides and two sessions give a late start and its successor; two
  riders a session swap; two calls of `stopAndExit` a remounted HUD (with one
  session, in the liveness run). `MaxFaults = 1` bounds lost replies
  and deaths of the app; kills, sign-ins and expired tokens are not bounded.
* Stripe: two subscriptions are enough for one slot, two flows for an old handler and
  the one that overtakes it. A world combines a row, the steps Stripe may take and a
  number of faults (`MCStripeFlow`): a free rider with trials and any one fault
  (lapse, failure, store trial); a founder's grant with payments that fail, one fault;
  a store's slot with one subscription, two faults; and, with notices followed to
  their dispatch, one subscription through all its states with two faults, and a
  failed payment beside a grant with a checkout in between and one lapse.
* Deletion: two processes, three identities of work items, `MaxAttempts = 2` (5 in the
  code), and one of: a second subscription during one deletion, two deletions of one
  subscriber, one of each with one fault (`MCAccountDeletion`). A fault is a Stripe call that
  throws, done or not, or a process that dies.
* Export: two POSTs race for the unique index and two runners for one job; four identities
  are one per process, which is as many as can be in use; two faults let a slow runner meet
  a second failure. Asking again, ageing and the expiry of bundles are not bounded.
  `CHECK_DEADLOCK FALSE`, since nothing is left to do once the account is purged.
* Symmetry (flows, riders, calls, subscriptions) is used for safety only.

## Fairness

* Lock (`FairSpec`): time passes, transactions commit, PostgreSQL serves row-lock
  waiters in order (strong fairness of `StatementLands/Misses`, `ReleaseLease`),
  each pending await resolves, and a callback makes finitely many calls (strong
  fairness of `Finish`). Heartbeats, waiters' luck and faults are not fair.
* Queue: a request is answered or its 15 s timer fires (`DrainReply`), and the
  rider taps "Retry now" again and again. Which answer comes is not fair.
* Rides: requests end, continuations run, and the rider returns to the app again
  and again (strong fairness of `Foreground`). That an entry leaves the queue is
  claimed only while its rider stays signed in and records no longer.
* Deletion: a process that holds the lock goes on and a webhook is delivered until it
  is answered (weak fairness of `Step`, `Hook`); waiters for the advisory lock are
  served, and the hourly worker gets round to an item that stays open (strong
  fairness of `Lock`, `Select`, per process). Nobody has to restore, purge or pay, and
  faults are bounded, not fair.
* Export: the rider asks again and again, a handler or runner that has begun goes on,
  a job is picked up, and a row that nobody tends gets old (weak fairness of `PostStep`,
  `WorkerStep`, `Strands`). No bundle has to expire; faults are bounded, not fair.

## Proofs

Eight modules hold proofs. Each theorem is about `Spec` with the constants as
parameters: any set of flows, riders, rides or subscriptions, any bound, any set of
faults or worlds; the assumptions used are the named `ASSUME`s of the module
proved about, which every run evaluates.

**`SubscriptionLockProofs`** (`FlowAssumption`, `TimeAssumption`, `AttemptAssumption`):

* `TypeCorrect`: the type invariant, with `TriesLeft` (an acquiring flow has an
  attempt left), without which it is not inductive.
* `FenceInvariant`: the inductive invariant `FenceInv`. Every token comes from one
  sequence (`Minted`); while the row exists every token in a flow's hands has been
  stamped and is at most the fence (`Stamped`); a queued UPDATE whose row nobody
  touched is newer than the fence and its WHERE still holds (`QueuedIsNewer`);
  only a flow that waits for or gave up a statement has one queued
  (`NothingQueued`). From it: `UniqueTokens`, `LiveOwnerNotStale`, `TokenOrder`,
  `NoTheft`, and `ImplementsFencedRow`: a guarded write asks for
  `fence <= token`, and `Stamped` gives `token <= fence`, so it writes in the name of
  the newest acquisition.
* `OneExternalCall`: if Redis loses no key, external calls exclude each other. The
  invariant `CallCovered` says a call under way is shorter than what is left of
  the key it was started under.
* `HandoffsAreClean`: assuming no key is lost and no lease lapses under its holder
  (`"redisLoss"` and `"lapse"` not in `Faults`, as in the run; crashes, I/O errors and
  deletions of the rider may still happen). The invariant `Handover`: whoever is inside owns the key, and
  nobody gets a lease or has an UPDATE queued for one before it had the key.

**`StoreChainsProofs`** (`NobodyAssumption`, `KeyAssumption`, `JobAssumption`,
`BoundAssumption`, and `WindowAssumption` of `StoreLiveness`), in four parts:

* `Inv`, about fences, locks and chains, gives `ConflictsAreReal`, `StalesAreOvertaken`,
  `ChainsGoForward`. Tokens differ and the row's fence is the newest holder's
  (`Fences`); a flow about to commit has the users row locked, so nobody can
  have overtaken it (`RowHeld`); whoever has a chain locked may still write it
  (`ChainHeld`); and a flow whose UPDATE missed will not find later that the chain was
  its own to write (`Reports`).
* `TInv` adds the types of everything else: `TypeCorrect`. A roll-up is a maximum over
  the chains of a rider, so this needs lemmas on maxima of finite sets of numbers
  (`MaxIs`), and of the chains that there are finitely many (`KeyAssumption`).
* `RInv` gives `RollupsAreFaithful`. What `StoreRollup` returns is characterised by `Tells`:
  no live chain is of a better tier, and an unexpired roll-up is the tier of a chain
  that lasts as long. This holds of every committed roll-up and of the draft of every
  transaction that can still commit; a commit fences out all other flows of its rider, so it
  makes no other draft untrue that matters.
* `OInv` gives `OverlapsAreTracked`, `NoneRetiredEarly`, `RetiredPairsComeBack`,
  `SweptRowsMoveOn` and `OnlyTheNewestWritesTheRow`. A Stripe flow between its write and its sync finds in
  the row what it wrote, while it is the newest (`Mirrors`); a Stripe side that owns the row
  was observed by a sync or has one to come (`Observed`); the rows a sweep selected and
  nobody has retired since are still there (`DueOpen`). That a pair is not retired for a stop that
  was taken back needs the versions of the subscription: nobody has read one that does not
  exist, and the newest flow none older than the newest acknowledged (`Versions`); who has the
  lock later reads the later version (`Ordered`); so, once the current version is
  acknowledged or written, the row agrees with a subscription that charges on (`Agreed`).
  From this also follows `RetiredPairsComeBack`. `SweptRowsMoveOn` assumes
  that no sweep waits for the lock for as long as a source of unknown end is trusted
  (`Window`): a sweep judges by the time at which it selected, and only within that window
  does what it writes lie in the future. In the run the condition holds by the
  bounds of the clock; in the code the window is `TARMOTO_BILLING_OVERLAP_FALLBACK_DAYS`, 35
  days by default, and a sweep gives up waiting for the lock after `ACQUIRE_TIMEOUT_MS`.

**`StripeFlowProofs`** (`NoneAssumption`, `WorldsAssumption`, `RowsAssumption`,
`LifecycleAssumption`), in two layers. The first gives `TypeCorrect`, `NoSecondTrial`, `GrantsLast`,
`LosersOnly`, `NoticesTellTheTruth`. Its invariant `SInv` has
the types, what every row satisfies (`RInv`: a Stripe slot names its subscription; a row
entitles without one only beside a grant; a trialing Stripe row is the trial of the
marker), that the holder of the lease is the newest (`Holding`), that a queued cancellation
stands beside no grant (`Mails`), and for each flow what it may rely on from its
earlier reads while it is the newest (`FInv`: the tier and provenance it read, a slot it
found taken, a notice it found true). The fence guards every write that could make this
false but the checkout's, which only fills a free slot.

The second gives `RowSettles` and `TrialsAreRemembered`, which speak of the moment when
everything is acknowledged and so are far from inductive. Its invariant `DInv` says of every
moment that *of whatever the row is wrong about, an event is still owed* (`Debts`), and, per
flow (`PInv`), why its acknowledgement settles the debt: a flow that is the newest and has
heard of the latest event knows Stripe's state as it is (`UpToDate`, `Sees`), is at a place
where that state leads (`Places`), and leaves the row right when it gets to the end
(`Knowing`); one that is not has its answer ignored, or a newer delivery owes the same.
`LifecycleAssumption` says that Stripe sends a subscription to the statuses
`incomplete` and `incomplete_expired` only from `incomplete`, which the code's
`NEVER_ENTITLED_STRIPE_STATUSES` takes for granted (account.service.ts:139-170).

**`AccountDeletionProofs`** (`NoneAssumption`, `AttemptsAssumption`, `BoundsAssumption`):
`TypeCorrect`; `NoTeardownOfTheRestored` and `PurgeTearsDown` from `PInv` (a process in the
purge holds the lock, so the account is due: `PurgeIsDue`; before the row is deleted
Stripe has been torn down or an error is remembered: `Torn`); `NoMismatchForgotten` from
`MInv`. The last one needs the most: a running subscription the program knows of owns the
slot (`KnownOwns`); a process about to resolve an item of a running subscription is
about that subscription (`ItemFits`); one that sets the flag against the deletion state of
the moment leaves another item for it (`Opposed`); one whose call was answered has the
flag as it wanted it (`FlagIsSet`); and each of the two mismatches has what keeps it on
record (`Renewing`, `Ending`).

**`RideStopProofs`** (`NobodyAssumption`, `BoundAssumption`), in three layers: `TInv` (types),
`AInv` (the session is the latest, sessions have different rides, a ride's owner is
known to the server), `BInv` (a ride whose start is not answered is known to nobody; no
drain is about to send the stop of the ride being recorded; a stop that is
under way or failed is held by its call), `CInv` (a request on its way carries its
rider, and every active ride is in somebody's hands). Theorems: `TypeCorrect`, `KeptRide`,
`RiderStops`, `NoRideIsOrphaned`.

**`DataExportProofs`** (`NoneAssumption`, `ProcAssumption`, `FaultsAssumption`): `TypeCorrect`,
`StorageIsConsistent`, from `IInv`. Neither half of `StorageMatchesRows` is inductive without
where the processes are: every process keeps to its own places (`Places`); a runner that
got its claim works on a row that is not ready, and is the only one to do so, so its
bundle is nobody else's (`Runners`); and a POST that is about to delete a bundle has a row
that was ready, is over or has nothing left to lose, and cannot become ready again
(`Cleaners`).

**`OfflineQueueProofs`**, **`OfflineQueueLemmas`** (`QueueAssumption`): `TypeCorrect`,
`NoRideIsLost`, `NoNeedlessDuplicates`, `RidesInOrder`, `ConsentIsAsked`. The lemmas say what
the queue's helpers do to sequences: an entry removed by id leaves the others in their
order, the loop takes the first entry it has not tried, and so on. The proofs rest on one
abstraction: every call and every reply runs on to the next `await` through the same code,
the loop or the end of the drain with the submits that resume, and `Turn` says once what
that code does to backlog and calls; it ends the drain (`TurnEnds`) or starts the next
upload (`TurnSends`). Each invariant is then proved of what a step does before the turn, and
of the turn:

* `TypeOK` with `Backlog` and `Waiters`: the backlog holds each ride once, and only rides
  whose submit returned; the submits that wait are exactly those a drain will resume.
* `KeepsRides`, for no loss: a ride whose submit returned is in the backlog, at the server
  (`Receipts`), opted out, or was rejected `MaxAttempts` times (`AllKept`).
* `Ledger`, for duplicates: the copies of a ride that landed, that the phone still
  owes and that may still arrive are at most one more than the replies lost.
* `Orderly`, for the order: with one submit at a time the backlog is in order of
  submission, a live upload is younger than all of it, and whatever a ride that reached the
  server has overtaken was tried before it (`TriedBefore`, `NoneOvertaken`).

Proved and not run: `UniqueTokens`, `TokenOrder` and `KeptRide`, on the way to
`OnlyTheNewestWrites` and `OnlyTheRiderStopsARecordedRide`, which say more; and
`OnlyTheNewestWritesTheRow`, which says of the rider's row in `StoreChains` what `FencedRow`
says of the row in `SubscriptionLock`; and `RetiredPairsComeBack`, which bounds the
exception of `RetiredOnlyIfStopped`.

Every invariant and every action property of the passing runs is stated by a theorem.
Model-checked only: the liveness properties (`EveryFlowEnds`, `HoldsHeal`, `BacklogDrains`,
`QueueDrains`, `FlagConverges`, `BundleArrives`), since fairness is out of the prover's reach.

## Where docs and code differ

The run `stripe_refund` shows one: a handler that fails after it has cancelled the losing
subscription (account.service.ts:2103) and before it has refunded it (2105) leaves the
event unacknowledged, but its redelivery finds the subscription `canceled`, takes the
terminal branch and returns. The refund is not retried, although a test says so of a
redelivery (stripe-billing.client.spec.ts:377-378), and no work item is opened.

Claims that are stated as definitions of the modules, and that TLC refutes when asked
to check them in the instances above:

* `OptOutIsFinal` (`OfflineQueue`): an opt-out clears the backlog (offlineQueue.ts:338) only if
  a queue call happens to run before the next opt-in; the comment above
  (335-337) says the opt-out takes effect for every payload not yet sent.
* `LateSyncIsRedundant` (`StoreChains`): the overlap sync after a Stripe write
  (account.service.ts:2247) is said to re-read committed state, so that a late one is
  redundant (store-chain-writer.service.ts:574-577). A flow whose lease lapsed after
  its settle still judges the Stripe side from its own older reading, and re-opens
  a pair for a subscription that a newer flow has recorded as ended or cancelled.
* `RetryRecordIsKept` (`RideStop`): the alert is suppressed if the session is over when the
  stop fails, lest "Keep riding" delete the only retry record
  (RideActiveScreen.tsx:560-562), but not withdrawn if the session ends while it is
  open (596).
* `EventsAreHonoured` (`StripeFlow`): a reclaim that matched no row and finds its own id in
  the slot takes this for the work of another delivery of the same subscription
  (account.service.ts:2038-2046). A checkout may have put the id there, without
  entitlement; if the flow was fenced out meanwhile, the event is acknowledged and the
  rider stays unentitled until the next one.
* `SkippedFlushIsBenign` (`StripeFlow`): a flush that matches no row because of a newer fence is
  called benign, the newer flow having written the same fields
  (account.service.ts:2146-2148). If the newer flow was about another
  subscription or a notice, the trial marker stays unset.
* `ReadyIsKept` (`DataExport`): a POST that has read an old queued or processing row expires it
  by id alone (data-export.service.ts:132). If its runner gets it ready in between, the
  UPDATE expires the ready row, and the bundle, whose key the POST had not read, stays
  where no record leads to it. The comment of `markReady` (168-171) deals with the other
  order of the two, lest personal data be leaked on disk indefinitely. In production a
  30-day rule of the bucket ends it (export-storage-key.ts:3-5).

Met while modelling, and part of the models (`Kill` and the uncaught 4xx of
`OfflineQueue`, `holes` of `RideStop`, the environment of the other two):

* The upload queue's header promises that offline rides are not lost, but a fresh
  payload is only in memory while `submitSensorUpload` awaits the drain and the
  live upload (offlineQueue.ts:384, 452). A kill of the app there loses it.
* A 4xx on the live upload is rethrown with nothing queued (offlineQueue.ts:504);
  the caller's comment counts on the drain path to retry it
  (RideActiveScreen.tsx:630).
* "Start failed → there's no backend ride to stop" (RideActiveScreen.tsx:531) is not
  so when the reply was lost: the ride stays active and locks its rider out.
* The session-swap guard of `reconcileRideStop` is asked before the POST; the
  client's retry after a 401 (typedClient.ts:661) uses whoever is signed in by then,
  and that rider's 404 counts as stopped.
* A ride opened while signed out keeps an empty owner after its start is retried
  under a sign-in; its failed stop is queued under the empty id, which no rider's
  drain takes.
* The header of `drainOfflineQueue` calls a second invocation a no-op (it shares the
  running drain's promise), and the module header says 4xx items are dropped (they
  get three attempts). Two submits open at once could break the order of rides; the
  screen prevents that.
* A notice about a failed payment is matched and sent under the lock, but a checkout takes
  no lock: it may fill the slot beside a grant between the two. `NoticesAreTrue` says so.
* A subscription that goes from trial to active never updates `subscription_status`:
  the activation claim asks for a row that is not live, and the exclusivity claim writes
  the status only of a subscription that no longer entitles.
* `restoreAccount` turns renewal back on even if the rider had cancelled in the portal
  before asking for deletion; and a comment of `requestDeletion`
  (account-deletion.service.ts:257) says that `restoreAccount` no longer calls Stripe,
  which it does. An account locked out by an admin is neither scheduled for deletion
  nor kept from renewing.
* A comment of the export's runner (data-export.processor.ts:97-100) has a row whose failure
  could not be recorded stay active until its TTL; since `STUCK_WORKER_MS` it is thirty
  minutes. The purge of an account deletes the rows of its exports by `ON DELETE CASCADE`,
  and no bundle: that is left to the same rule of the bucket.

### What a retired pair may miss

`syncOverlapsInTx` retires a pair as soon as one reading shows a member stopped, and a
Stripe subscription that is cancelled at the period end, `incomplete` or `paused` counts
as stopped (account.service.ts:2237-2255, store-chain-writer.service.ts:831-852)
although each may be undone; so may the end of a period, which a payment moves. If the
rider takes the cancellation back, or pays, after a flow has fetched the subscription,
or before the event of that is worked off, the flow, a chain event or a sweep retires a
pair both sides of which go on charging, with no lease lapsed. `RetiredOnlyIfStopped`
allows this only while both hold: Stripe has not been acknowledged the event of the
newest version, and the row does not agree with the subscription. `RetiredPairsComeBack`
proves the other half: once that event is acknowledged, a pair of a chain and a
subscription that owns the row has an overlap row again, under a new id and with a new
deadline, unless a Stripe flow of the rider died before its sync or synced late. Without
the allowance TLC finds such retirements: by a sweep whose row has a period end that a
payment has moved, and by a flow that fetched a cancelling subscription. Late syncs are
exempt altogether (`LateSyncIsRedundant` above).

## Not modelled

`runExclusiveByOtid` has no caller. Geometry, routing, ML, rendering, signal
processing and bulk imports, by far most of the repository, compute rather than
coordinate. The gateway, jobs and web front ends keep no protocol state of their own.
Formatting, logging and wording are abstracted everywhere. Corrupt local storage (a torn
MMKV write) is outside the queue's control.

In `AccountDeletion`: the rider's own cancellation in the portal is left out, only the
program sets the renewal flag there (what `restoreAccount` does to such a cancellation is
noted above); `FlagConverges` counts a parked work item as converged, since the worker gives
up on it and leaves it to an operator; a Stripe call that was given up takes effect at once or never, not
after a later one; the session-level advisory lock is assumed to keep its connection; a
purge that dies between Stripe and the DELETE, followed by a restore, leaves the rider
without the subscription, which the model has as a teardown while due. In `StripeFlow`:
checkout and portal sessions, refund webhooks, reads of the account. In `DataExport`: the
download and its signed URLs, the mail that the bundle is ready, what goes into it, the
lifecycle rule of the bucket.

## Plan

Done: the lock, the sensor queue, store chains, ride stops, Stripe's webhooks, notices,
account deletion, data export, and proofs about all of them. Next:

1. `HazardQueue`, a sibling of `OfflineQueue` with other stop reasons.
2. Row-lock protocols: votes against resolution (`TripCollab`), the last super admin
   (`AdminAccounts`), single use of reset tokens, hazard photos against the orphan
   sweep, group rides. Feature-flag resolution as an operator.
3. Composition: `SubscriptionLock` below `StripeFlow` and `StoreChains` through `FencedRow`;
   `OnlyTheNewestWritesTheRow` is the half of `StoreChains`.
4. Abstract specifications for the components that have none: an outbox that
   `OfflineQueue` and `RideStop` refine, a slot with an owner that `StripeFlow` refines.
