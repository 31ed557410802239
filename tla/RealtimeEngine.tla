--------------------------- MODULE RealtimeEngine ---------------------------
(***************************************************************************)
(* The worker's poll cycle: RealtimeEngine.poll_safe / poll_once and the   *)
(* Redis keys it writes.  One cycle is a chain of awaits - fetch, read the *)
(* stored snapshot, apply the diff, insert history rows, take a sequence   *)
(* number, cache the resolved train states, append the update to the       *)
(* stream, record success - and every one of them can raise, or the worker *)
(* can die, after the earlier ones took effect.                            *)
(*                                                                         *)
(* Data: a position is the pair <<timestamp, everything else>>, because    *)
(* the code compares the whole position (diff_snapshots) in one place and  *)
(* the timestamp alone (TrainService._cached_if_fresh) in another.  The    *)
(* "stale" list of an update depends on the wall clock only and is left    *)
(* out, as are the domain events appended to mp:events, which publish()    *)
(* never lets raise and nothing in the worker reads back.                  *)
(***************************************************************************)
EXTENDS Naturals, FiniteSets, TLC

CONSTANTS
  Vehicles,     \* vehicle ids
  Stamps,       \* feed timestamps of a position
  Fixes,        \* the rest of a position: coordinates, trip, stop status
  Absent,       \* no entry in a Redis hash or in a snapshot
  Pollers,      \* the activities that call poll_safe: the job, the priming call
  MaxSequence,  \* bound: cycles start only below this sequence number
  MaxFailures,  \* bound on failed cycles
  MaxCrashes    \* bound on worker restarts

Positions == Stamps \X Fixes
Snapshots == [Vehicles -> Positions \cup {Absent}]

ASSUME AbsentAssumption == Absent \notin Positions
ASSUME PollersAssumption == Pollers \subseteq {"job", "prime"}
ASSUME BoundsAssumption ==
  MaxSequence \in Nat /\ MaxFailures \in Nat /\ MaxCrashes \in Nat

VARIABLES
  vehicles,   \* mp:vehicles, the latest-position hash
  trains,     \* mp:trains: the position each cached resolution was built from
  recorded,   \* the newest vehicle_position_history row of each vehicle
  sequence,   \* mp:seq
  tail,       \* sequence number of the newest entry of mp:updates (0: none)
  announced,  \* the table of a reader that applied every entry of mp:updates
  pc,         \* how far each poller's cycle has got
  current,    \* the decoded feed of each poller's cycle
  previous,   \* the store snapshot its diff was computed against
  number,     \* the sequence number it took
  primeDue,   \* run_worker has not made its priming call yet
  failures,   \* EngineStats.failures, kept across restarts (bounded)
  crashes,    \* restarts so far (bounded)
  drifted     \* vehicles whose last applied change was never announced

store == <<vehicles, trains, recorded, sequence, tail, announced>>
cycle == <<pc, current, previous, number, primeDue>>
faults == <<failures, crashes, drifted>>
vars == <<store, cycle, faults>>

Steps == {"idle", "fetched", "diffed", "applied", "recorded", "numbered",
          "cached", "published"}
AfterRead == Steps \ {"idle", "fetched"}
Unannounced == {"applied", "recorded", "numbered", "cached"}

Nowhere == [v \in Vehicles |-> Absent]

TypeOK ==
  /\ vehicles \in Snapshots
  /\ trains \in Snapshots
  /\ recorded \in Snapshots
  /\ announced \in Snapshots
  /\ sequence \in Nat
  /\ tail \in Nat
  /\ pc \in [Pollers -> Steps]
  /\ current \in [Pollers -> Snapshots]
  /\ previous \in [Pollers -> Snapshots]
  /\ number \in [Pollers -> Nat]
  /\ primeDue \in BOOLEAN
  /\ failures \in Nat
  /\ crashes \in Nat
  /\ drifted \subseteq Vehicles

Init ==
  /\ vehicles = Nowhere /\ trains = Nowhere
  /\ recorded = Nowhere /\ announced = Nowhere
  /\ sequence = 0 /\ tail = 0
  /\ pc = [p \in Pollers |-> "idle"]
  /\ current = [p \in Pollers |-> Nowhere]
  /\ previous = [p \in Pollers |-> Nowhere]
  /\ number = [p \in Pollers |-> 0]
  /\ primeDue = TRUE
  /\ failures = 0 /\ crashes = 0
  /\ drifted = {}

(***************************************************************************)
(* diff_snapshots: "changed" holds the added and the moved vehicles.       *)
(***************************************************************************)
Changed(p) == {v \in Vehicles : current[p][v] # Absent
                                /\ previous[p][v] # current[p][v]}
Removed(p) == {v \in Vehicles : previous[p][v] # Absent /\ current[p][v] = Absent}
Diff(p) == Changed(p) \cup Removed(p)

\* A hash after the diff of p's cycle was written to it.
Patch(table, p) ==
  [v \in Vehicles |-> IF v \in Changed(p) THEN current[p][v]
                      ELSE IF v \in Removed(p) THEN Absent
                      ELSE table[v]]

\* A hash after HDEL of the vehicles p's diff removed.
Delete(table, p) == [v \in Vehicles |-> IF v \in Removed(p) THEN Absent ELSE table[v]]

InFlight == UNION {IF pc[p] \in Unannounced THEN Diff(p) ELSE {} : p \in Pollers}

-----------------------------------------------------------------------------
Goto(p, from, to) == pc[p] = from /\ pc' = [pc EXCEPT ![p] = to]

(***************************************************************************)
(* Slips: forms of the actions below with one plausible mistake each.  No  *)
(* specification uses them; they show that the properties can fail.        *)
(***************************************************************************)

\* HDEL of mp:trains forgotten: removal leaves the cached train state behind.
ApplyKeepsTrains(p) ==
  /\ Goto(p, "diffed", "applied")
  /\ vehicles' = Patch(vehicles, p)
  /\ UNCHANGED <<trains, recorded, sequence, tail, announced, current, previous, number,
                 primeDue, faults>>

\* History rows for added vehicles only.
RecordAddedOnly(p) ==
  /\ Goto(p, "applied", "recorded")
  /\ recorded' = [v \in Vehicles |-> IF v \in Changed(p) /\ previous[p][v] = Absent
                                     THEN current[p][v] ELSE recorded[v]]
  /\ UNCHANGED <<vehicles, trains, sequence, tail, announced, current, previous,
                 number, primeDue, faults>>

\* The counter runs the wrong way.
NextSequenceCountsDown(p) ==
  /\ Goto(p, "recorded", "numbered")
  /\ sequence' = sequence - 1
  /\ number' = [number EXCEPT ![p] = sequence - 1]
  /\ UNCHANGED <<vehicles, trains, recorded, tail, announced, current, previous,
                 primeDue, faults>>

\* The update leaves out the "removed" list.
PublishChangedOnly(p) ==
  /\ Goto(p, "cached", "published")
  /\ tail' = number[p]
  /\ announced' = [v \in Vehicles |-> IF v \in Changed(p) THEN current[p][v]
                                      ELSE announced[v]]
  /\ drifted' = drifted \ Diff(p)
  /\ UNCHANGED <<vehicles, trains, recorded, sequence, current, previous, number,
                 primeDue, failures, crashes>>

\* The sequence number is kept in the worker's memory instead of Redis.
CrashResetsSequence ==
  /\ crashes < MaxCrashes
  /\ pc' = [p \in Pollers |-> "idle"]
  /\ current' = [p \in Pollers |-> Nowhere]
  /\ previous' = [p \in Pollers |-> Nowhere]
  /\ number' = [p \in Pollers |-> 0]
  /\ primeDue' = TRUE
  /\ drifted' = drifted \cup InFlight
  /\ crashes' = crashes + 1
  /\ sequence' = 0
  /\ UNCHANGED <<vehicles, trains, recorded, tail, announced, failures>>

-----------------------------------------------------------------------------

(***************************************************************************)
(* One action per await of poll_once.  max_instances=1 keeps one job cycle *)
(* at a time: a poller starts only from "idle".                            *)
(***************************************************************************)
Fetch(p) ==
  /\ sequence < MaxSequence
  /\ p = "prime" => primeDue
  /\ Goto(p, "idle", "fetched")
  /\ \E feed \in Snapshots : current' = [current EXCEPT ![p] = feed]
  /\ primeDue' = (primeDue /\ p # "prime")
  /\ UNCHANGED <<store, previous, number, faults>>

ReadStore(p) ==
  /\ Goto(p, "fetched", "diffed")
  /\ previous' = [previous EXCEPT ![p] = vehicles]
  /\ UNCHANGED <<store, current, number, primeDue, faults>>

\* RedisVehicleStore.apply: one MULTI over both hashes.
Apply(p) ==
  /\ Goto(p, "diffed", "applied")
  /\ vehicles' = Patch(vehicles, p)
  /\ trains' = Delete(trains, p)
  /\ UNCHANGED <<recorded, sequence, tail, announced, current, previous, number,
                 primeDue, faults>>

\* One database transaction inserts a history row per changed vehicle.
Record(p) ==
  /\ Goto(p, "applied", "recorded")
  /\ recorded' = [v \in Vehicles |-> IF v \in Changed(p) THEN current[p][v]
                                     ELSE recorded[v]]
  /\ UNCHANGED <<vehicles, trains, sequence, tail, announced, current, previous,
                 number, primeDue, faults>>

NextSequence(p) ==
  /\ Goto(p, "recorded", "numbered")
  /\ sequence' = sequence + 1
  /\ number' = [number EXCEPT ![p] = sequence + 1]
  /\ UNCHANGED <<vehicles, trains, recorded, tail, announced, current, previous,
                 primeDue, faults>>

CacheTrainStates(p) ==
  /\ Goto(p, "numbered", "cached")
  /\ trains' = Patch(trains, p)
  /\ UNCHANGED <<vehicles, recorded, sequence, tail, announced, current, previous,
                 number, primeDue, faults>>

\* XADD of the update; a reader of the stream then applies it to its table.
PublishDiff(p) ==
  /\ Goto(p, "cached", "published")
  /\ tail' = number[p]
  /\ announced' = Patch(announced, p)
  /\ drifted' = drifted \ Diff(p)
  /\ UNCHANGED <<vehicles, trains, recorded, sequence, current, previous, number,
                 primeDue, failures, crashes>>

\* record_feed_success, the best-effort events, and poll_safe's normal return.
Succeed(p) ==
  /\ Goto(p, "published", "idle")
  /\ current' = [current EXCEPT ![p] = Nowhere]
  /\ previous' = [previous EXCEPT ![p] = Nowhere]
  /\ number' = [number EXCEPT ![p] = 0]
  /\ UNCHANGED <<store, primeDue, faults>>

\* An await raised: poll_safe counts the failure and ends the cycle.  A Redis
\* or database command that ran but lost its reply is the command's own action
\* followed by this one.
Fail(p) ==
  /\ failures < MaxFailures
  /\ pc[p] # "idle"
  /\ pc' = [pc EXCEPT ![p] = "idle"]
  /\ current' = [current EXCEPT ![p] = Nowhere]
  /\ previous' = [previous EXCEPT ![p] = Nowhere]
  /\ number' = [number EXCEPT ![p] = 0]
  /\ drifted' = IF pc[p] \in Unannounced THEN drifted \cup Diff(p) ELSE drifted
  /\ failures' = failures + 1
  /\ UNCHANGED <<store, primeDue, crashes>>

\* The worker process dies and is started again; Redis and PostgreSQL survive.
Crash ==
  /\ crashes < MaxCrashes
  /\ pc' = [p \in Pollers |-> "idle"]
  /\ current' = [p \in Pollers |-> Nowhere]
  /\ previous' = [p \in Pollers |-> Nowhere]
  /\ number' = [p \in Pollers |-> 0]
  /\ primeDue' = TRUE
  /\ drifted' = drifted \cup InFlight
  /\ crashes' = crashes + 1
  /\ UNCHANGED <<store, failures>>

Poll(p) ==
  \/ Fetch(p) \/ ReadStore(p) \/ Apply(p) \/ Record(p) \/ NextSequence(p)
  \/ CacheTrainStates(p) \/ PublishDiff(p) \/ Succeed(p)

Next == (\E p \in Pollers : Poll(p) \/ Fail(p)) \/ Crash

Spec == Init /\ [][Next]_vars

-----------------------------------------------------------------------------
(***************************************************************************)
(* Properties of a worker whose cycles do not overlap.                     *)
(***************************************************************************)

\* A vehicle whose stored position, cached resolution and announced position
\* disagree is either in the diff of the running cycle or in the diff of a cycle
\* that failed between apply and publish: no interleaving of failures, restarts
\* and later cycles makes any other vehicle drift apart.
DriftIsConfined ==
  \A v \in Vehicles \ (InFlight \cup drifted) :
    /\ announced[v] = vehicles[v]
    /\ trains[v] = vehicles[v]

\* A cached train state exists only for a tracked vehicle, at every await and
\* after every failure (list_trains walks the vehicles, so an orphan would never
\* be deleted: removal is announced for stored vehicles only).
CacheHasNoOrphans ==
  \A v \in Vehicles : vehicles[v] = Absent => trains[v] = Absent

\* Clients are never told of a position that is not already in
\* vehicle_position_history, the data the ETA engine estimates speed from.
AnnouncedIsRecorded ==
  [][\A v \in Vehicles :
       (announced'[v] # announced[v] /\ announced'[v] # Absent)
         => recorded[v] = announced'[v]]_vars

\* Updates enter the stream with growing sequence numbers, each at most once.
\* The replay buffer searches it by "seq > last_seq" and relies on that.
StreamIsOrdered == [][tail' # tail => tail' > tail]_vars

-----------------------------------------------------------------------------
(***************************************************************************)
(* What the documentation says, and the runs refute.                       *)
(***************************************************************************)

\* realtime_engine.py:10: "A failed cycle logs the failure and leaves state
\* untouched".
FailedCycleLeavesStateUntouched ==
  [][\A p \in Pollers : (pc[p] \in AfterRead /\ failures' > failures)
                           => vehicles = previous[p]]_vars

\* README.md:193: "overlapping runs are prevented (max_instances=1, coalescing)".
PollsDoNotOverlap ==
  \A p, q \in Pollers : (pc[p] # "idle" /\ pc[q] # "idle") => p = q

\* No definition names a vehicle or a fix: permuting them is a symmetry.
Symmetry == Permutations(Vehicles) \cup Permutations(Fixes)
=============================================================================
