# MetroPulse: TLA+ specifications and proofs

MetroPulse tracks the trains of the Delhi Metro. A worker polls a GTFS-realtime feed
every few seconds, keeps the current picture in Redis, and announces the changes on a
Redis stream. API replicas follow that stream and push the changes to phones over
WebSockets; the worker's own consumers of the same stream drive commuter features:
journeys, alerts, reminders, shared positions. The phone is a Flutter app with some
protocol of its own. PostgreSQL holds the timetable, the history and every user's rows.

This directory specifies the parts whose correctness depends on order, on interleaving or
on failure, and the pure algorithms whose answers riders rely on. TLC checks the
specifications on small instances, and TLAPS proves the most important properties for
all values of the constants.

Contents: [the system](#the-system) · [modules and code](#modules-and-code) ·
[runs](#runs) · [fairness](#fairness) · [proofs](#proofs) · [findings](#findings) ·
[other divergences](#divergences-without-a-run) · [not modelled](#not-modelled) ·
[plan](#plan)

Python paths below are relative to `src/metropulse/`, and `commuter/` and `intelligence/`
stand for `application/commuter/` and `application/intelligence/`. `PROJECT.json` maps
each definition to the lines it models and lists all components and hazards with full
paths.

## The system

### Parts, state, operations

| Part (code) | State it keeps | Operations | What makes it correct |
|---|---|---|---|
| Poll engine (`application/realtime_engine.py`, started by `cli.py`) | nothing between cycles except failure counts | fetch, read snapshot, diff, apply, insert history, take a number, cache train states, publish | every change is applied, recorded and announced, in order, once; a failed cycle does no damage |
| Vehicle store (`infrastructure/redis/vehicle_store.py`) | `mp:vehicles`, `mp:trains`, `mp:seq`, the stream `mp:updates` | apply a diff, cache/delete train states, INCR, XADD with MAXLEN, XREAD loop | the tables agree with what was announced; numbers grow along the stream; what another version stored is still read |
| Live hub (`application/live_hub.py`) | a bounded queue, the replay buffer, the connection registry | enqueue, record, broadcast with a send timeout, register, drop | a replay is exact or refused; a registered connection misses nothing; one slow peer cannot stop the others |
| WebSocket endpoint (`api/ws/live.py`) | a handler per connection | subscribe, snapshot or replay, register, answer pings | the client's table converges to the worker's |
| API process (`main.py`, `api/middleware.py`) | the stream listener task, token buckets | follow `mp:updates`, restart on failure; let a request through or refuse it | a lost subscription comes back; nobody exceeds the limit |
| Phone live client (`app/lib/data/ws_client.dart`, `providers`) | table of trains, `last_seq`, connection | connect, apply frames, watchdog, suspend, resume | the same |
| Stream consumers (`infrastructure/redis/stream_bus.py`) | a consumer group and its pending list in Redis | create group, recover, read, handle, acknowledge | at-least-once delivery in stream order |
| Journeys (`commuter/journeys.py`, `journey_session.py`, `rule_engine.py`) | rows `journeys`, `journey_events`, `notifications` | start, complete, abandon (API); expire, arrive, miss, remind (engine) | one active journey, no journey comes back to life, nobody is told twice, every journey ends |
| Destination alerts (`commuter/alerts.py`, `rule_engine.py`) | rows `destination_alerts` | create, cancel (API); trigger, expire (engine) | fires once, never waits for a train that has left |
| Shared journeys (`commuter/journey_share.py`) | rows `journey_shares` | create, position, stop (API); erase (hourly job) | one public link at a time, positions are erased |
| Sharing button (`app/lib/features/journey_mode/journey_share.dart`) | flag, timer | start, tick, stop, denied location, dispose | the position loop ends with the share |
| Analytics (`app/lib/core/analytics.dart`; `commuter/analytics.py`) | buffer, timer, upload in progress; stored events | record, flush, discard; store, purge | nothing is kept after a withdrawal, nothing is sent twice needlessly, nothing is kept too long |
| Static timetable (`application/static_loader.py`, `validation.py`, `gtfs_static_updater.py`) | timetable tables, version, ETag | download, validate, load, record the ETag | what is accepted loads; the newest good archive is followed |
| Caches of it (`application/route_resolver.py`, `commuter/offline.py`) | in-memory contexts, bundle cache | resolve (single flight), build bundle | built once, and from the version they are named after |
| Minute job (`rule_engine.py`, `commuter/last_train.py`, `intelligence/proactive_scheduler.py`) | marks "told for this date" | remind, nudge | once per date |
| Learned delays (`intelligence/`, the LLM delay scheduler) | baseline per bucket, refinements | learn, ask the providers, correct, tell | a correction stays within its bound and its age |
| Accounts (`commuter/users.py`, `app/lib/data/api_client.dart`) | users, tokens, favourites | register, recover a refused token, resend a call | a recovered phone keeps its account; nothing is done twice |
| Exits and contributions (`commuter/station_exit_loader.py`, `otd_loader.py`, `contributions.py`) | exits, hints, reports | replace, cover, report, confirm | every row refers to an exit there is; a claim needs enough riders |
| Inbox (`commuter/notifications.py`, `alerts.py`, `app/lib/features/notifications`) | rows `notifications`, `service_alerts`, the last id seen | create, announce, list, sync | what is announced exists; what is not yet seen is shown |
| Pure algorithms | — | decode, place, estimate, plan, forecast, advise, match, track | agree with a reference definition |
| The rest (feedback, REST reads, screens, configuration) | independent rows or none | inserts, reads | ordinary tests reach them |

### Interactions

    feed ──poll──▶ RealtimeEngine ──apply──▶ Redis tables ◀──list_trains── WebSocket handler
                        │                                                      ▲      │
                        └──XADD──▶ mp:updates ──XREAD──▶ listener ─▶ hub queue ─▶ replay buffer
                                       │                                  └──broadcast──▶ phone
                                       └──XREADGROUP──▶ consumers ──▶ rule engine ──▶ PostgreSQL
                                                                                       ▲
                                  API requests of the user, loads, minute and daily jobs ─┘

Redis and PostgreSQL are the only state shared between processes. Within a process all
code runs in one asyncio event loop (or one Dart isolate): another task runs exactly
where the code awaits. So a module's actions are the pieces of a handler between two
awaits that something else can observe; awaits nobody can observe are merged.

### What is hard

* **Interleaving.** Two poll cycles; a registration and a broadcast; two requests of
  one user; a request and the rule engine's long transaction; a tap and a running upload;
  several callers of one cache entry; a load and a report; a token recovered twice at once.
* **Failure in the middle.** A poll cycle has five writes in two databases and no
  transaction over them. The rule engine delivers pushes inside a transaction that may
  still roll back. An alert is announced before it is committed.
* **Crash and restart.** Worker, replica and app lose their memory and keep Redis.
* **Loss.** The hub drops on a full queue, Redis trims the stream, a subscription restarts
  from the newest entry, a socket stays open after its peer is gone, a request is lost
  with or without having been executed.
* **Order.** The replay is chosen before, and the registration happens after, a
  series of awaits; ids are given at the flush and become visible at the commit.
* **Numbers.** Service days beyond 24:00, UTC days and local days, shapes that go back
  over themselves, ids and profiles with gaps, coarse fixes, buckets that refill.

The hazard list of `PROJECT.json` names each one at its line, with the properties that
cover it. One thing has no property because none holds: a snapshot is labelled with a
number read after its trains (`api/ws/live.py:109`); `LiveGateway` reaches it.

## Modules and code

### The live path and the commuter's rows

| Module | Models | State and actions |
|---|---|---|
| `RealtimeEngine` | `poll_once`/`poll_safe`, the store's writes, the train-state cache | one `pc` per poller; one action per await: `Fetch`, `ReadStore`, `Apply`, `Record`, `NextSequence`, `CacheTrainStates`, `PublishDiff`, plus `Fail` at any await and `Crash` of the worker. `announced` is what a client that saw every update would show, `recorded` the newest history row |
| `ReplayBuffer` | `ReplayBuffer` of `live_hub.py` | operators `Add`, `Oldest`, `Newest` and `Since`: recording with eviction, and what is replayed from where |
| `LiveGateway` | listener, hub, registry, `/ws/live` handler, phone client | the poll reduced to the three observable steps; connections 1, 2, … of one client; `wire` holds frames in transit, `Window` is the TCP buffer beyond which a send blocks; the watchdog, suspend/resume and replica restarts are actions |
| `AtLeastOnce` | nothing: the abstract promise of a consumer group | entries are attempted, then settled; see the refinement below |
| `StreamConsumer` | `RedisStreamConsumer.run`, `ensure_group`, `_drain`, and Redis's consumer groups (external) | entries are numbers; `delivered`, `pending`, `trimmed`, the task's `mode` and `batch`; crashes, disconnects (which kill the task), read errors and loss of the stream |
| `Journeys` | `JourneyService`, the journey part of `evaluate_realtime`, the row locks of PostgreSQL under READ COMMITTED | a request reads in one step and commits in another; the engine's transaction keeps the rows it read (the ORM's identity map), what it changed, what it delivered, and may roll back |
| `DestinationAlerts` | create/cancel and `_evaluate_alert` | the same shape for alert rows, with a train that leaves and returns |
| `JourneyShares` | create/position/stop, expiry, `forget_expired_share_positions` | two devices of a user, each call a read and a commit; `overlaps` counts creates that raced |
| `ShareButton` | `_startSharing`, `_pushPositionOnce`, `_stopSharing`, `dispose` | a handler is a continuation waiting at one of its awaits; `loops` are the running periodic timers, `timer` the one `_timer` refers to |
| `AnalyticsQueue` | `AnalyticsService`, the upload and the switch of the settings screen | events are numbers in the order of recording; `batch` is what a running upload carries while `buffer` changes under it |
| `MCCommuter` | the notify consumer's handler in `cli.py` | joins five small modules that share no state and runs one per behaviour, chosen by `part`; a cycle of the rule engine begins only while events reach it (`driven`) |

### The services around it, as state machines

| Module | Models | State and actions |
|---|---|---|
| `StaticUpdate` | `gtfs_static_updater.py`, the operator's commands, `load_static` | the daily job and a command as runs of four transactions each: read the ETag, download, load, record; crashes, loads by hand, archives that are rejected or do not load |
| `OfflineBundle` | `commuter/offline.py` | requests that read version, two Redis keys and the rows in separate sessions, with loads in between; contents are named by the datasets they were read from |
| `RouteResolver` | `resolve_trip`, `resolve_route` and their caches | callers, the task in `_inflight`, cancellations, failures and reloads |
| `Reminders` (with `Timetable`) | `evaluate_reminders`, `last_train.py` | leave-home reminders and the last-train reminder in one transaction, rows deleted meanwhile, pushes that leave before it commits |
| `FeedClient` | `infrastructure/gtfs_rt/client.py` | two fetchers, retries, circuit breaker, a feed that goes down and up |
| `RateLimiter` | `RateLimitMiddleware` | buckets with idle pruning, integer credit |
| `StationExits` | the OSM and the registry loader, reports, curation by hand | loads in the transactions they use, a report checked in one step and stored in another, the cascade |
| `Accounts` | registration, tokens, favourites; the phone's error handler | calls of a phone side by side, recoveries, reads repeated after a loss |
| `Notices` | service alerts, the inbox, its reader on the phone | two machines: alert written, announced, committed or not; rows flushed, committed, read by page |
| `CommuteNudges` | `proactive_scheduler.py` | a cycle over all riders in one transaction, habits that change |
| `DelayRefinement` | the LLM refinement cycle and the estimator | buckets, providers asked in turn, an answer, a useless answer or none; correction within a bound |
| `RiderData` | — | `StationExits`, `Accounts`, `Notices`, `CommuteNudges` and `DelayRefinement` as one system: their tables are disjoint, a step of the whole is a step of one |

### Algorithms, as operators checked against definitions

A property of such a module is a definition of the right answer that does not follow the
code's way to it.

| Module | Algorithms | What is asked |
|---|---|---|
| `GtfsValidation` | `validation.py`, the load's constraints | does everything that is accepted load? |
| `Timetable` | services on a date, next departures, last train | the next train is the next; only midnight hides trains |
| `JourneyPlanner` | graph, Dijkstra with lazy deletion, legs | the fastest plan against a reference, the other preferences against it |
| `JourneyTools` | latest departure, meeting point | no later departure arrives in time; no place passed over is better for both |
| `TrainOnTrip` | shape geometry, locate, ETA, dwell, delay, speed, scheduled positions | stations in trip order, two views that agree, delays of the right service day |
| `FeedDecoder` | `infrastructure/gtfs_rt/decoder.py`, train resolution, ETA cache | which of several entities speaks for a vehicle; when a cached ETA may be shown |
| `Wire` | `domain/entities.py`, `domain/events.py` as stored | what a reader of another version makes of it |
| `Telemetry` | ingest, purge and summary; position history | what is counted and kept under clocks that are wrong |
| `StationMatching` | the loaders' matching of names, codes and places; the session that replaces a table row by row | no row goes to a wrong or a farther station, tables are replaced whole or not, also when two rows of the file are at one stop |
| `BoardingAdvice`, `StationAdvice`, `CommuteAdvice` | coaches, exits, crowding, step-free gates, parking, fares, places, predictions, recommendation, card | each against its own definition |
| `RideTracking` | the phone's `journey_tracking.dart`, `motion_stop_counter.dart`, `journey_timetable.dart`, `journey_progress.dart` | which fix may move progress, which stillness is a stop, do the two sources of progress agree? |
| `MCServices`, `MCQuestions` | — | one run over all of these: `part` picks the state machine, or "questions", each with its small inputs |

What data stands for. A vehicle's position is a model value with a timestamp: enough to
tell "changed", "same timestamp, other position" and "absent" apart. The client's table
is the *set of polls whose changes it reflects*: a missing member is a train shown
where it is not until the feed changes it again. Journeys, alerts and shares keep their
status and the marks the code tests. In the algorithms a place is a point of a line or a
grid, a day has a handful of time units, an optional field is the set of its value or
empty, and real numbers are whole parts of a unit; rounding is left out unless a
property is about it. Time is an action (`Age`, `Expires`, `GraceEnds`, a train leaving)
where only order matters, and a number where the code does arithmetic on it.

`InFlight`, `races`, `overlaps`, `abandoned`, `joined`, `processed`, `missed`, `attempts`, `told`,
`arrived`, `unanswered`, `overtaken`, `disturbed` and the failure counters are history: no
guard of the program reads them (bounds do), and properties do.

## Runs

All bounds appear in the `.cfg` files or in the `INSTANCE` lines of the MC modules.
Production sizes (a queue of 2048, 64 entries per XREAD, 25 events per batch) are
constants: small values reach the full queue, the second batch and the evicted message
within a few steps.

| Run | Bounds | Question and answer |
|---|---|---|
| `realtime_engine` | 2 vehicles, 2 fixes, 1 timestamp, 3 numbers, 2 failures, 1 crash | If cycles do not overlap, do the snapshot, the cache, the history and the stream drift apart only for the vehicles of a cycle that failed? **Yes.** Cached states have no orphans, announcements are recorded first, numbers grow. Two vehicles are the least that tell "this one drifts" from "another one drifts"; one timestamp with two fixes is the case in which the cache reuses a state it should not |
| `failed_cycle` | 1 vehicle, 1 failure | Does a failed cycle leave state untouched, as documented? **No** |
| `poll_overlap` | 2 pollers | Are overlapping cycles prevented, as documented? **No** |
| `live_gateway` | 3 polls, 2 connections, queue 1, read count 2, window 1, buffer 2 | Safety of the whole path of an update to the phone: replays are exact with respect to what the hub took, a registered connection misses nothing, updates arrive in order. Three polls with a buffer of two evict; a queue of one overflows; a window of one makes a peer slow; two connections make a resume |
| `live_gateway_liveness` | 3 polls, 1 connection, 1 listener failure, 1 restart, queue 1, buffer 2 | With restarts and a failing subscription: every broadcast ends even if no client reads again, and a connection the manager dropped does not stay open unserved for ever. A replay is compared with the stream itself (`ReplaysSurviveRestarts`): it lacks what the running replica let go by, at a full queue or between two subscriptions, and nothing from before a restart. Three polls are one buffered, one lost, one after it. Failures are here, and not in `live_gateway`, to keep each state space small |
| `resume_replay` | nothing overflows or is lost | Does a resumed client receive everything it missed, as documented? **No** |
| `stream_consumer` | batch 2, stream length 2, 4 entries, 2 crashes, one each of read error, disconnect, loss | Nothing leaves the pending list unhandled unless trimmed; redelivery costs a restart; stream order; the consumer implements `AtLeastOnce`; what is pending is settled. Four entries over a stream of two trim pending and unread entries, and make two batches |
| `silent_consumer` | 2 entries, 1 disconnect | Does every group get every event, as documented? **No** |
| `journeys` | 2 requests, 1 reminder kind, 2 journeys, 1 failed cycle | Extra active journeys only come from racing starts; ended journeys stay ended; the event log explains every status; nothing committed is told again; no deadlock on row locks (TLC's deadlock check is on). Two requests and the engine are the three writers a row can have; two journeys let a start supersede |
| `commuter` | 1 request on journeys; 2 callers and 2 alerts; 2 devices and 2 shares; 3 handlers and 2 loops; 4 events, batch 2, buffer 3, 3 taps, 1 refusal | Shared positions are erased, and journeys and alerts end unless events stop reaching the rule engine for good (`LifecyclesEnd`; `driven` says whether they do); alerts fire once; two live shares only after racing creates; a position loop is left behind only by overlapping handlers; the analytics queue keeps nothing after a withdrawal and repeats no answered batch. Three handlers are a start, a tick and a stop at once; four events overflow a buffer of three during the upload of a batch of two |
| `services` | below | The services and the algorithms of the two later tables |
| `hints_reload` | the part "exits" of `services` | Do coach hints survive a reload of the exits, as documented? **No** |

The parts of `commuter`, and those of `services`, share a run because they are small; they
share no state (the end of a journey, which a share needs, is an action `JourneyShares`
leaves open), so no behaviour of one is hidden by running them apart.

What `services` checks, and where its bounds come from:

* `FeedsAreFollowed`: the tables end up with what DMRC serves last, and a circuit breaker
  closes again. Two published archives of every kind, one crash and one load by hand let
  a run be overtaken by another; two fetchers and three failures let a fetch begun before
  the circuit opened end after it.
* `CurrentBundleIsRight`, `BuiltOnceUnlessFailed`: two requests and three loads bring a
  version back; three callers, three builds and two reloads let a caller clear the entry
  of a build it did not start.
* `RemindedOnce`: days of four units and service days past midnight, one rider with a
  deletion and one failing cycle.
* `WithinTheLimit`: two clients, bursts of two requests, one tracked bucket, so that pruning
  happens.
* `RiderDataIsRight`: two riders, one station in both exit files, three ids, two
  reports; two calls of a phone, two reads, one loss; two writers of the inbox, three
  rows, pages of two; nudges for two riders with two habits; two hours and kinds of day,
  two providers, a nudge past the bound and one within it.
* `AnswersAreRight`, `LoadsAreRight`, `AdviceIsRight`: every question of `MCQuestions` is asked
  once. The inputs are small but cross each boundary the code has: midnight, gaps in the
  hours, ties, empty lists, shapes that fold back, two stops within reach at different
  distances, rows that match twice, entities without a time, objects of another version, a
  train held between stations, a fix as wide as the gap it has to resolve.

`CHECK_DEADLOCK FALSE` is set only where the system may really stop within the bounds: the
poll engine out of numbers, the gateway with its connections used up, the consumer whose
task ended, and `MCServices`, where an answered question is the end. In the other runs
TLC checks that there is no deadlock.

Each property was also checked against mutants of the code: a dropped guard, an
off-by-one at the eviction boundary, a swapped order of writes, a missing reset. Each
mutant violates its property under the run's own configuration (`PROJECT.json`,
"mutants"; the operators that precede their originals in the modules).

## Fairness

Fairness is assumed only where the code schedules something, and never for a failure,
a crash, a user or a client that may stay away.

* `LiveGateway`: the hub's loop takes from its queue and ends a gather that is complete
  (`Dequeue`, `EndBroadcast`); a started send either succeeds or times out (`Sends`),
  which `asyncio.wait_for` guarantees; a handler that can go on does (`Handler`); the
  phone's watchdog timer fires (`Watchdog`). That the phone reads is *not* assumed: it is a
  hypothesis inside `ConnectedIsServed`, and `BroadcastEnds` does without.
* `StreamConsumer`: a dead worker is started again (`Start`: the container's restart
  policy) and the event loop runs the task (`Task`). A task that ended with an
  exception is not restarted, because nothing in the code does.
* `MCCommuter`: the rule engine goes through its cycles while events reach it (`CycleStep`,
  `RulesStep` under `driven`): each successful poll publishes an event, changes or not.
  That events reach it is *not* assumed. The notify consumer's task may end on a connection
  error and stay ended (`EventsStop`, as in `silent_consumer`), and only a restart of the
  worker starts it again (`EventsResume`); that it is not so for ever, `<>[]driven`, is a
  premise inside `LifecyclesEnd`, without which TLC refutes it. The hourly job that erases
  positions (`Forget`) belongs to the scheduler and needs no premise. An admitted request
  goes on (`RequestStep`, `TapStep`) and time passes (`Age`, `Expires`, `GraceEnds`). Weak fairness suffices throughout: no
  priority among requests and jobs is assumed. Failing cycles are bounded, which stands
  for "a cycle succeeds now and then"; with failures for ever nothing would be promised.
* `MCServices`: the daily job fetches and a started run goes on (`Fetch("job")`, `Goon`:
  the scheduler's cron job); the cool-down elapses and a fetch goes on (`Elapses`,
  `Goon`). That the feed comes back for good is a hypothesis of `FeedComesBack`.

## Proofs

`tlapm` checks every leaf with Z3, Zenon and LS4. Nothing is assumed but the named
assumptions on constants of the modules, which TLC evaluates in the runs.

**`RealtimeEngineProofs`.** `TypeCorrect` holds of any number of pollers. The other
theorems have the hypothesis `SinglePoller`, "cycles do not overlap", which the
scheduler grants to its own job and `poll_overlap` refutes for the priming cycle.
`DriftIsConfined` is not inductive: it says nothing of what a cycle holds in its local
variables across an await. `IInv` adds it: a read snapshot is still current before apply
(`ReadIsCurrent`), what was applied, recorded and cached is what the diff says
(`DiffIsApplied`, `DiffIsRecorded`, `DiffIsCached`), and a number taken is above the
stream's tail (`NumberIsNew`). From it follow `DriftTheorem`, `OrphanTheorem`,
`RecordTheorem` and `StreamOrderTheorem`.

**`StreamConsumerProofs`.** `IInv` relates the batch in hand to the group's state in Redis:
it is addressed to the group, pending or trimmed (`BatchIsAddressed`, `BatchIsPending`,
`BodilessIsTrimmed`), ahead of what was handled before (`BatchIsAhead`), and every
attempt beyond the first was paid for with a crash (`AttemptsArePaid`). Theorems:
`AtLeastOnceTheorem`, `RedeliveryTheorem`, `OrderTheorem`, and `PromiseTheorem`: the
consumer implements `AtLeastOnce` under the mapping "settled = addressed, not pending and
not in hand", each step a step or a stutter. A lemma shows that a batch of the
smallest entries leaves nothing below its newest.

**`JourneysProofs`.** `IInv` says that an id handed out by a flush is nobody else's
(`IdsAreFresh`), that what was read exists (`ReadsExist`), that the engine is the only
writer of the "told" marks so its copy of them is current (`RowsAreCurrent`), that what was
delivered is staged for commit (`SentIsStaged`) and that what is committed has left its mark
(`ToldIsMarked`). Theorems: `ToldOnce`, `EndedForGood`, and, with `EventsInv`, `LogAccounts`:
the log explains the status also when an API request and the engine end a journey one over
the other.

**`JourneysProofs`, races.** `ActivesComeFromRaces` counts: each journey of a device that is
active beyond the first goes back to a start that did not see another one. Two
transactions disturb the count between read and commit, so `RacesInv` adds that the
journeys which a start that nobody raced with would leave active, besides the one it
replaces, are already accounted for. Theorem `RacesAccount`.

**`LiveGatewayProofs`.** Stream, hub, replay buffer, broadcasts, connection handlers, wire
and phone, for any polls, connections, restarts and sizes of queue, buffer, read and
transport window. None of the safety properties is inductive. `IInv` adds: numbers are
published in growing order (`StreamOK`); what the hub has taken is older than what it has
queued, and that is older than what is still to be read, also when the subscription starts again
(`QueueOK`); the buffer holds the newest of what the hub has taken, without a gap
(`BufferOK`); a broadcast is of a message taken (`BroadcastOK`); only a handler that has reached
its receive loop is known to the hub, and only one that replays has something left to
replay (`SessionsOK`); a snapshot is the first frame of its connection, and updates
on the wire were taken by the hub (`WireOK`); and what a registered phone has in its table is
not undone by a snapshot that is still on the wire (`KeptOrUnderWay`), the part without which
`RegisteredMissNothing` is not preserved by `Receive`. `RestartsKeepReplays` needs an invariant
beside it: an entry behind the listener that the replica neither took nor let go by was lost to
a restart, and is older than everything the replica has taken (`LostOK`); a replay starts at
most one number before the oldest buffered update, so it cannot reach back to such an entry.
Theorems `TypeCorrect`, `ReplayIsComplete`, `RegisteredAreServed`, `UpdatesArriveInOrder`,
`RestartsKeepReplays`. What
`Later`, a recursive function, returns for a buffer of any length is an induction: lemma
`NatIsInductive` makes it from a least counterexample, with the library's
`NatLessThanWellFounded` and `WFMin`.

**`CommuterProofs`.** *Destination alerts*: an alert the rider was told of is not triggered
again although a cancel may commit under the engine's transaction and a cycle may roll back
after its push. `AlertInv` adds that an alert that was told is no longer active, and never
again (`ToldAreSettled`), and that what the engine has listed, or triggered and not yet
committed, was not told before (`ListedAreUntold`). Theorem `AlertFiresOnceTheorem`, for any
number of alerts and callers.
*Shares*: `LiveSharesComeFromRaces` counts: the live shares beyond the first are no more than the
creates that overlapped. `SharesInv` adds that a create which no other one overlapped still
finds no live share when it commits (`CreatesFindNone`). Theorem `LiveSharesTheorem`.
*Analytics queue*: that no answered event is stored again rests on where the
batch stands relative to the buffer. `QueueInv` says that the buffer holds the latest events
without a gap (`Recent`), that a batch is a run of events (`Run`), that it is at the
front of the buffer, was pushed out of it from the front, or lies entirely before it after
a discard (`Behind`), and that what is in the buffer or beyond is not stored unless an
answer was lost (`Unstored`). Removal by position then takes every event of the batch
that is still there, and perhaps later ones: events may be lost, never repeated.
Theorems: `QueueKeepsTypes`, `WithdrawalTheorem` and `NoRepeatTheorem`, for any batch and buffer size above
zero, a buffer smaller than a batch included.
*Sharing button*: each position loop that nobody can stop goes back to a start that was open
together with a stop. `ButtonInv` counts a loop before it is lost: one that can still be left
behind (`Precarious`) is paid for when it is armed (`Accounted`), because a start that no stop
overlapped (`Clean`) is alone with its share from the tap to the first push (`StartsOK`).
Theorem `StraysArePaidFor`.
*All of them*: the five modules of `MCCommuter` share no state, so `CommuterInv` is the
conjunction of their invariants with `IInv` of `JourneysProofs`, and what remains for
`AllTypesOK` are bounds: an alert or a share is not numbered beyond its bound, a request
that moves or stops a share does it to one that exists (`SharesFit`), and a start that is
open has its timer set aside (`ButtonFits`). Theorems `CommuterTypes`, and `CommuterHolds`:
the invariants of the run hold of the system the run explores, not only of each part alone.

**`ServicesProofs`.** *Rate limiter*: no client is let through more often than burst and rate
allow. `LimiterInv` keeps an account per client: what was spent and the bucket's level are
covered by the burst and the time until the bucket was touched, and a client whose bucket
was pruned has spent no more than the time that passed (`Balanced`), because a bucket idle
for `IdleEvict` is full (the assumption `Limits`: `Burst <= IdleEvict`; in the code 300 s
suffice to fill a minute's budget). Theorems `LimitHolds` and `RetryAfterHolds`: who waits
as long as it was told is let through.
*Offline bundle*: a bundle stored under the current version is that dataset, although a
request reads the version before the rows. `BundleInv` follows the version a request
carries: it has been loaded before (`Carries`), and while a version that was loaded only
once is current, what a request that carries it has read comes from it (`Follows`,
`Stored`). Theorem `BundleIsRight`.
*Route resolver*: a trip's context is built once, and once more at most for each caller that
was told of a failed build. `ResolverInv` adds that when there is neither a build to
share nor a context in the cache (`NothingToShare`), the build about to start is paid for
already. Theorem `BuildsAreShared`.
*Reminders*: a push is repeated only by a cycle that was rolled back. `ReminderInv` relates
rows, marks and pushes. A row that is pending and that the cycle has not touched (`Open`) was
pushed by rolled-back cycles only (`RowOK`). A push for a service date beyond those has left
its mark, or the window of that date is over (`DayOK`): windows have no gaps, so one that
another date's mark replaced does not come back, unless the two windows meet.
The hypotheses are `TimetablesAreFinite` and `ReminderBounds`,
which `MCServices` has TLC evaluate for the instance of the run. Theorems `RemindersKeepTypes` and
`RemindersFireOnce`.
*Timetable*: `NextTrainIsTheNext` and `OnlyMidnightHidesTrains` are facts about a timetable and the clock.
A departure that counts leaves before the day after tomorrow and its service day is not over, so
it is yesterday's, today's or tomorrow's, and on each of these dates the service finds the first
(`FirstIsFirst`). The hypothesis `TimetablesFit` says that a service day has less than 48 hours;
the comment in `last_train.py:129` puts the latest departure at 25:13. Without it the claim is
false: three dates are not enough. Theorems `NextTrainIsFound` and `MidnightHidesTrains`.

**`RiderDataProofs`.** *Station exits*: a claim is checked in one request and stored in
another step, and a load may replace the exits in between. `ExitInv` says that what a call
has counted still stands when it commits (`CountedStand`), that what a rider was told has its
votes and its exit (`ToldStand`), and that a registry run no OSM load overtook has read the
stops that are covered (`RunsAreCurrent`). A load hands out ids that no claim in hand refers to,
so `CountedStand` survives it. Theorem `ExitsHold`.
*Service alerts*: ids are handed out in order and frames leave before the commit; `AnnounceInv`
says that what is written was announced and what is announced was handed out, and that one
request is at work at a time (`OneDraft`).
*Inbox*: `OnlyOvertakenAreMissed` is about rows the phone's mark has passed. `InboxInv` adds that
the page in hand read committed rows only, shows everything in it that is above the mark
(`PagesAreHonest`), and would leave behind only rows that were overtaken by a higher id
committed first or crowded out by a full page of newer ones (`LeftBehind`, also for the rows
of transactions that are still open). What a page of the newest ids leaves out is an
argument about cardinalities.
*Accounts*: a call that was alone is not refused for good, a write happens once at most, and
the phone ends up with the account's token. A registration next to a call disturbs it;
`AccountInv` says that the token an undisturbed call was issued is still the account's when
it is saved and when the call is sent again (`OwnTokenOpens`), that a change is the last
thing before an answer, which is repeated only for a read (`AppliedLast`), and that once a
call was let in and nothing was disturbed, the phone has the account's token or is about
to save it (`LetInByCurrent`). The hypothesis `LabelsAreNoVerbs` separates labels from the
names of the other operations. Theorem `AccountsRecover`.
*Nudges*: `NudgedOnce` compares an inbox, a remembered date and pushes that leave before the
commit. `NudgeInv` adds that the cycle has marked one date at most for a rider, and not the
one remembered (`Remembered`), and that every push is in the inbox, marked by the cycle under way,
or was made by one that was rolled back (`Covered`). Theorem `NudgesFireOnce`, with no
assumption on the constants.
*Refined delays*: a refinement does not compound. `RefinementInv` keeps with each row, in the
table and in what a cycle has staged, the baseline it was derived from, and says that it is
one nudge away from it and the only one of its bucket (`RowsFit`). What riders are shown is then
arithmetic on today's baseline and that row (`ShownIs`). Theorem
`RefinementsDoNotCompound`; its hypothesis `RefinementBounds` says that delays are whole numbers,
bounded above, and that the bound of a correction is not negative.
*All of them*: theorems `RiderDataKeepsTypes` and `RiderDataHolds`: `RiderDataIsRight`, which the
run checks, is an invariant of `RiderData`. The hypothesis `RiderDataBounds` is
that of the parts; `MCServices`, which extends `RiderData`, has TLC evaluate it for the
instance of the run.

**`TimetableProofs`.** *Planner*: the search is Dijkstra's with superseded entries left in its
queue, run once for each preference and once without a target. A way (`Ways`) is a sequence
of nodes from the origin, each with what it costs to be there; the definition follows the edges
and knows nothing of the search. `PlannerInv` says that a node with a cost has its edges relaxed
or still waits in the queue with that cost, that its cost is that of some way, and that the target of
a search that has one only ever waits (`Settled`). A way that were cheaper than what comes
out of the queue first, or ended in a node without a cost, would have a first node that is
not as it should be; its predecessor has its edges relaxed, and that is the contradiction
(`NoWayIsCheaper`: a least position instead of an induction). Preferences change weights and not
edges, so a node that one of them reaches all reach (`PreferencesReachTheSame`). Theorems
`RoutesAreCheapest`: what comes out of the queue first has no cheaper way to it;
`TravelTimesAreExact`: `travel_seconds_from` gives the stops that can be reached and no other,
each with the time of a quickest way, and each preference finds a route exactly when
there is one; `PlannerKeepsTypes`. The hypothesis `PlannerFits` asks for finitely many trips whose calls
are at stops, and for penalties that are natural numbers: the search would not be right with a
negative one.
*Static archive*: an ETag that ran ahead of the tables would make every later check find
"unchanged". `EtagIsLoaded` is about the recorded ETag; `UpdateInv`
adds what a check in progress promises while it is alone (`AlonePromises`): its archive is at least
as new as the recorded ETag, and once that is loaded the tables hold it or the operator's
override. Theorem `EtagIsOfALoadedArchive`.
*Validation*: `AcceptedArchivesAreLoaded` goes through the constraints of the tables one by
one and finds the check that implies each (`AcceptedLoads`); what is left over are the
exceptions that `Overlooked` names. The hypothesis `DatasetsFit` says that a
dataset has files of the known names, and rows with known kinds of faults.
*Feed client*: the circuit is open only for cause (`CircuitOpensForCause`), whichever fetch
that began before ends after it.
*What is computed at one call*: no invariant, but facts about operators, for every length of a
list and every value of the constants. `DelaysAreOfTheirDay` is `DelayIsOfItsDay`, which
`AnswersAreRight` asks about a few days and times: `_arrival_delay` tries the service days of today and
yesterday, and the proof splits on the day the arrival falls in. Its hypothesis says that a
plausible delay is less than half a day (the code has six hours) and that an arrival, with its
delay, is before the second midnight; with a longer delay the two days could not be told apart.
`TrainsAreShownAsAssembled` is `TrainsAreRight` for every snapshot, cache and clock.
`RefinementsAreBounded` is the bound and the sign of a refined delay. `RowsFindTheirStop` is `RightStop`
for every row and list of stops, the nearest stop within reach included; that there is one nearest pair, and one only, is two least
elements, one of the distances and one of the pairs at that distance (`ClosestIsOne`).
`UpdatesAreHonest` is `UpdateIsHonest`, the claim that `RideIsTracked` makes of each update of a ride. It
assumes that no two stations are at one place and that there is one fix at most; a ride that called
twice at a place could not be told by a fix where it is.
`MCServices` has TLC evaluate all four hypotheses for the instance of the run, and checks
`EtagIsLoaded`, `OpensForCause` and `AcceptedArchivesLoad` as parts of `AnswersAreRight`.

**Only model-checked**: liveness and everything under fairness (no ENABLED in this
prover); `AllTypesOK`, `AnswersAreRight`, `LoadsAreRight` and `AdviceIsRight` of `MCServices` as
wholes. The first joins the types of all parts, each of which is proved or part of a proved
invariant, in a module that reaches RECURSIVE operators (`Wire`), which the prover cannot
read. Of the second the feed, the archives, the updates, the timetables, the delays and the
list of trains are proved, and of the planner that its costs are least; that a plan's own total, a fold over a path read
backwards, is the cost of its target, and that both agree with `Fastest`, the reference
by growing paths, is left to TLC. The last two compare algorithms with reference
definitions over bounded inputs; of them only the claims about one call of the matching, of the refined
delay and of the ride's tracker are proved, since the others are about folds and counts. The library's induction schemes take operators as
parameters, which the prover cannot instantiate; where an induction was needed it is written
as an argument about a least counterexample.

## Findings

Each is a run that TLC refutes, against a quoted sentence of the repository.

1. `failed_cycle`: the docstring of `realtime_engine.py` says a failed cycle leaves
   state untouched. The diff is applied before the history insert, the INCR and the
   XADD; if one of those fails, the change is in the snapshot and is never announced.
2. `poll_overlap`: the README says overlapping runs are prevented. The priming poll in
   `cli.py` is not a scheduled job.
3. `resume_replay`: `live.py` says a resumed client receives the updates it missed. The
   replay is chosen before the awaits that send it, and the registration comes after them.
4. `silent_consumer`: the README says groups process every event. A connection error ends the
   consumer's task, and nothing restarts it while the worker lives.
5. `hints_reload`: `commuter_repositories.py` says that replacing the exits leaves the
   coach hints untouched. They refer to the exits with `ON DELETE CASCADE` and go with them.

## Divergences without a run

Seen while translating; each is modelled as the code does it or noted here.

The live path:

* `train_service.py:35`: a cached train state is reused if the timestamps agree.
* `live_hub.py:130`: on a full queue an update is in neither the broadcast nor the buffer.
  The client takes any number as its `last_seq` (`ws_client.dart:115`) and does not see
  the hole.
* `live.py:109`: a snapshot is labelled with a number read after its trains.
* `vehicle_store.py:45`, `:125`: one entry of `mp:vehicles` that does not parse fails every
  poll; a listener that lost its subscription starts from the newest entry.
* `stream_bus.py:68`: pending entries are recovered by one read at the start; a failed
  read leaves them to the next restart. `parse_event` drops a known event to which a newer
  worker has added a field.
* The ETA warmer promises "pure cache hits until the next position update"; a cached ETA
  lives for 30 s. A speed measured across a long gap in the history counts like any other,
  and predicted ETAs need not be in the order of the stations.

Journeys, alerts, shares and the inbox:

* `journeys.py` says a user has at most one active journey: two starts that read before
  either commits leave two (`ActivesComeFromRaces` bounds it). `journey_share.py`: after two
  creates that raced, Stop ends one of the two links.
* `rule_engine.py:10` calls the evaluation idempotent and crash-safe through the
  transaction; pushes are delivered inside the open transaction, so a rollback repeats them.
* `rule_engine.py:109`: the vehicle snapshot is read before the alerts, so an alert
  created in between on a train that has just appeared is judged by the older snapshot.
* `notifications.py:53`: rows whose push failed wait for a sweep that does not exist.
* `journeys.py:86`: `JourneyStarted` is published before the commit. Domain events are
  best effort and are left out of `Journeys`.
* `journey_share.py:191` says that `SHARE_TTL` stops a share from being read; the public view
  returns the last position of an expired or stopped share until the hourly job erases it.
* `event_publisher.py` promises that a Redis failure never fails a transaction; the alert
  frame, sent before the commit, can.
* `windowed_counted` promises how many riders reported something and counts the reports;
  `confirmed_coach_exits` pools the votes for exits of one name.

The static timetable and its readers:

* `validation.py:3` promises that what is accepted loads; some duplicates are compared as
  text and refused by the tables as numbers (`AcceptedArchivesLoad` states the exception).
* `route_resolver.py:120`: `clear_cache` has no caller in production; `offline.py:57` reads
  version and rows in two sessions.
* `schedule_position_source.py:49`: trains of yesterday's service day vanish at midnight.
  The delay of an early train just before midnight is unknown rather than negative.
* `locate` projects a train onto its shape without a lower bound: where the shape retraces
  itself, the train may be put on the branch it has left.
* `last_train.py:238` keeps one date for two candidate service dates, so around midnight
  pushes may repeat; the nudges do the same.
* `otd_loader.py`: a station that two rows of a file name is a unique violation that aborts
  the load (accessibility, facilities); a code with two rows is both resolved and reported
  as unmatched; the docstring of `StationAccessibility` describes another rule than
  `load_accessibility` applies.

Advice:

* Off-peak windows, medians of the usual departure and the kinds of days are computed in
  UTC hours; riders live at +5:30. The commute card falls back to the first two
  favourites when only one label is set.
* `llm_delay_refiner.py` says that a correction can never invert a delay; one below a
  minute can become an early arrival. A bucket is for one kind of day, its baseline for both.
* A coach hint beyond the eighth coach lengthens the train that is ranked (`coach.py`).

The phone:

* `repositories.dart` says the position loop stops once sharing is torn
  down. Stop during the first push lets the push arm the timer afterwards
  (`StraysComeFromOverlaps` bounds it). A failed Stop is swallowed, and the link lives
  until it expires.
* `analytics.dart:166` says the flush never throws. A discard during an upload makes
  the removal by position raise (`RemovalThrows`); an eviction during an upload makes
  it remove an event that was not sent; and the loop does not read the consent again
  between batches.
* `api_client.dart` calls a 401 recoverable. Of two recoveries side by side one may save a
  token the other has already rotated away; and a resent call's own failure is reported as
  the first 401.
* `journey_tracking_service.dart:142`, `:194`: nothing feeds the motion counter, so in a
  tunnel the count stays 0 under the label "Counted from stops"; `confirmPosition` and
  `reconcile` have no caller, and no schedule index is passed. A wait at the origin would
  count as a stop.
* `journey_tracking.dart:193` says that within half of the gap the nearest station is
  unambiguous; the arrival radius and the accuracy add up, so it need not be.
* `journey_progress.dart:153`: an empty list of remaining stations means "arrived", also for a
  train that could not be resolved; of a train that goes on beyond the destination the
  progress becomes unknown and never "arrived" (`ProgressAgrees`). A plan that ends on foot
  flags its destination as an interchange.

## Not modelled

* Inside the modelled parts: alert frames without a number on the wire (they only pass
  through the broadcast), MAXLEN trimming under a lagging listener, the loss of `mp:seq`,
  back-off durations, the public view of a share (a read), the read mark of the inbox
  (nothing else reads it), confidence scores, the wording of reasons and advice, the
  geometry of the sphere and of streets, unzipping, CSV and protobuf parsing, the HTTP
  clients of the language models.
* Feedback (one insert), REST read endpoints and their schemas, admin statistics:
  formatting of rows other modules own.
* Screens, map, schematic, voice and search: layout, animation and text.
* Configuration, logging, metrics, tracing, migrations, deployment, one-off tools and
  the scripts that produce documents: no state of the running system.

## Plan

The live path was specified first because it is what the product is; then the commuter's
rows, the services, and the algorithms. What remains, in this order:

1. `LiveSystem`: `RealtimeEngine` and `LiveGateway` over one stream, replacing the reduced
   poll; the loss of `mp:seq`. `ShareButton` composed with `JourneyShares`, `Accounts` with
   the calls of the analytics queue.
2. The tracking service's timer and its notification, once a counter is fed.
