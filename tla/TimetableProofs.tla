-------------------------- MODULE TimetableProofs --------------------------
(***************************************************************************)
(* Proofs about the data on their way to the rider: the client of the live *)
(* feed, the check for a new static archive, the validation of it, the     *)
(* journey planner, and what is computed from the data at one call: which  *)
(* train is shown, its delay, its delay refined, the stop a row of an open *)
(* file is of, and how far the phone says a ride has got.                  *)
(***************************************************************************)
EXTENDS JourneyPlanner, FiniteSetTheorems, WellFoundedInduction, TLAPS

CONSTANTS Datasets, MaxPublished, MaxCrashes, MaxByHand,
          Fetchers, MaxAttempts, Threshold, Cooldown, MaxOutages

\* Of what is computed at one call.
CONSTANTS Radius, DayLength, DelayLimit, DwellMin, DwellMax, DefaultDwell,
          MinSpeed, MaxSpeed, DefaultSpeed, HistoryLimit, HistoryWindow, SpeedUnit,
          HourLength, Minute, Lookback, LocalOffset, Floor, Slabs, Beyond,
          SanityRadius, WalkRadius, TopCount,
          ArrivalRadius, ApproachRadius, MaxAccuracy, MaxFixAge, Window, Stillness, MinimumDwell, MinimumRun

VARIABLES archive, outcome,
          up, outages, failures, cooling, attempt, served,
          remote, kind, tagged, tables, etag, run, outdated, crashes, byHand, overlapped

F == INSTANCE FeedClient
U == INSTANCE StaticUpdate
V == INSTANCE GtfsValidation
Trains == INSTANCE TrainOnTrip
Feed == INSTANCE FeedDecoder
Commutes == INSTANCE CommuteAdvice
Matching == INSTANCE StationMatching
Tracking == INSTANCE RideTracking WITH Threshold <- Stillness

-----------------------------------------------------------------------------
(***************************************************************************)
(* FeedClient, for any number of fetches side by side, attempts and        *)
(* failures it takes to open the circuit.  The invariant is inductive once *)
(* the types are known.                                                    *)
(***************************************************************************)

Counters ==
  /\ outages \in 0..MaxOutages /\ failures \in 0..(Threshold + 1) /\ cooling \in 0..Cooldown
  /\ attempt \in [Fetchers -> 0..MaxAttempts]
Flags == up \in BOOLEAN /\ served \in BOOLEAN
BreakerInv == Counters /\ Flags /\ F!OpensForCause

\* The circuit opens for enough failures in a row and for nothing else, however
\* the fetches overlap (GtfsRtClient.fetch, _record_failure).
THEOREM CircuitOpensForCause ==
  ASSUME F!FeedBounds
  PROVE  F!Spec => [](F!TypeOK /\ F!OpensForCause)
<1>. USE DEF BreakerInv, F!OpensForCause, F!CircuitOpen, F!FeedBounds
<1>1. F!Init => BreakerInv
  <2>. SUFFICES ASSUME F!Init PROVE BreakerInv
    OBVIOUS
  <2>1. Counters
    BY DEF F!Init, Counters
  <2>2. Flags
    BY Zenon DEF F!Init, Flags
  <2>3. F!OpensForCause
    BY DEF F!Init
  <2>. QED BY <2>1, <2>2, <2>3
<1>2. ASSUME BreakerInv, [F!Next]_F!feedVars
      PROVE  BreakerInv'
  <2>1. Counters'
    <3>1. ASSUME NEW f \in Fetchers, F!FailFast(f) \/ F!Goon(f)
          PROVE  Counters'
      <4>1. CASE F!GiveUp(f)
        <5>1. F!Counted \in 0..(Threshold + 1)
          BY <1>2 DEF Counters, F!Counted
        <5>. QED BY <1>2, <4>1, <5>1 DEF Counters, F!GiveUp
      <4>2. CASE F!FailFast(f)
        BY <1>2, <4>2 DEF Counters, F!FailFast
      <4>3. CASE F!Start(f) \/ F!Succeed(f) \/ F!Retry(f)
        BY <1>2, <4>3 DEF Counters, F!Start, F!Succeed, F!Retry
      <4>. QED BY <3>1, <4>1, <4>2, <4>3 DEF F!Goon
    <3>2. CASE F!GoesDown \/ F!ComesUp \/ F!Elapses \/ UNCHANGED F!feedVars
      BY <1>2, <3>2 DEF Counters, F!GoesDown, F!ComesUp, F!Elapses, F!feedVars
    <3>. QED BY <1>2, <3>1, <3>2 DEF F!Next
  <2>2. Flags'
    BY <1>2, Zenon
    DEF Flags, F!Next, F!Goon, F!GoesDown, F!ComesUp, F!Elapses, F!FailFast, F!Start, F!Succeed, F!Retry,
        F!GiveUp, F!feedVars
  <2>3. F!OpensForCause'
    <3>1. ASSUME NEW f \in Fetchers, F!FailFast(f) \/ F!Goon(f)
          PROVE  F!OpensForCause'
      <4>1. CASE F!GiveUp(f)
        BY <1>2, <4>1 DEF Counters, F!GiveUp, F!Counted
      <4>2. CASE F!FailFast(f)
        BY <1>2, <4>2 DEF F!FailFast
      <4>3. CASE F!Start(f) \/ F!Succeed(f) \/ F!Retry(f)
        BY <1>2, <4>3 DEF F!Start, F!Succeed, F!Retry
      <4>. QED BY <3>1, <4>1, <4>2, <4>3 DEF F!Goon
    <3>2. CASE F!GoesDown \/ F!ComesUp \/ F!Elapses \/ UNCHANGED F!feedVars
      BY <1>2, <3>2 DEF Counters, F!GoesDown, F!ComesUp, F!Elapses, F!feedVars
    <3>. QED BY <1>2, <3>1, <3>2 DEF F!Next
  <2>. QED BY <2>1, <2>2, <2>3
<1>3. BreakerInv => F!TypeOK /\ F!OpensForCause
  BY DEF Counters, Flags, F!TypeOK
<1>. QED BY <1>1, <1>2, <1>3, PTL DEF F!Spec

-----------------------------------------------------------------------------
(***************************************************************************)
(* GtfsValidation, for any archives.                                       *)
(***************************************************************************)

\* An archive that validation accepts loads, or has one of the faults that
\* validation does not look at.
LEMMA AcceptedLoads ==
  ASSUME NEW ds, V!DatasetsFit, ds \in Datasets, V!Accepted(ds), ~V!Overlooked(ds)
  PROVE  V!Loads(ds)
<1>1. \A f \in DOMAIN ds : V!FileRows(ds, f) = ds[f].rows /\ V!Lines(ds, f) = DOMAIN V!FileRows(ds, f)
  BY DEF V!Accepted, V!HasColumns, V!Lines, V!FileRows
<1>2. V!RequiredFiles \subseteq DOMAIN ds
  BY DEF V!Accepted, V!FilesPresent
<1>3. ASSUME NEW f \in DOMAIN ds
      PROVE  V!RowsConvert(ds, f)
  <2>1. SUFFICES ASSUME NEW i \in DOMAIN V!FileRows(ds, f)
                 PROVE  V!FileRows(ds, f)[i].bad = {}
    BY DEF V!RowsConvert
  <2>2. "required" \notin V!FileRows(ds, f)[i].bad
    BY <1>1, <2>1 DEF V!Accepted, V!FieldsParse
  <2>3. V!FileRows(ds, f)[i].bad # {"optional"}
    BY <2>1, <1>3 DEF V!Overlooked
  <2>4. V!FileRows(ds, f)[i].bad \subseteq {"required", "optional"}
    BY <1>1, <2>1 DEF V!DatasetsFit
  <2>. QED BY <2>2, <2>3, <2>4
<1>4. ASSUME NEW f \in DOMAIN ds
      PROVE  V!KeysUnique(ds, f)
  <2>1. CASE f \in {"agency", "calendar", "calendar_dates", "shapes"}
    BY <2>1 DEF V!Overlooked
  <2>2. CASE f \in {"routes", "stops", "trips"}
    BY <1>1, <2>2 DEF V!Accepted, V!IdsUnique, V!KeysUnique, V!Key
  <2>3. CASE f = "stop_times"
    BY <1>1, <2>3 DEF V!Accepted, V!StopTimesResolve, V!Overlooked, V!SpelledTwice, V!KeysUnique, V!Key
  <2>4. f \in V!RequiredFiles \cup V!ConditionalFiles
    BY DEF V!DatasetsFit
  <2>. QED BY <2>1, <2>2, <2>3, <2>4 DEF V!RequiredFiles, V!ConditionalFiles
<1>5. \A f \in {"routes", "stops", "trips"} : V!Ids(ds, f) \subseteq V!Keys(ds, f)
  BY <1>1, <1>2 DEF V!Ids, V!Keys, V!Key, V!RequiredFiles
<1>6. V!ReferencesHold(ds)
  BY <1>1, <1>2, <1>5
  DEF V!Accepted, V!TripsResolve, V!StopTimesResolve, V!ReferencesHold, V!RequiredFiles
<1>. QED BY <1>3, <1>4, <1>6 DEF V!Loads, V!Overlooked

ValidationInv ==
  /\ archive \in Datasets
  /\ outcome \in {"unread", "accepted", "rejected", "loaded", "rolled back"}
  /\ outcome \in {"accepted", "loaded", "rolled back"} => V!Accepted(archive)
  /\ outcome = "rolled back" => ~V!Loads(archive)

\* What is accepted is loaded, or ends in one of the errors that the report
\* does not announce (validate_dataset against GtfsStaticLoader.load).
THEOREM AcceptedArchivesAreLoaded ==
  V!DatasetsFit => (V!Spec => [](V!TypeOK /\ V!AcceptedArchivesLoad))
<1>. SUFFICES ASSUME V!DatasetsFit PROVE V!Spec => [](V!TypeOK /\ V!AcceptedArchivesLoad)
  OBVIOUS
<1>1. V!Init => ValidationInv
  BY DEF V!Init, ValidationInv
<1>2. ValidationInv /\ [V!Next]_V!validationVars => ValidationInv'
  BY DEF ValidationInv, V!Next, V!Validate, V!Insert, V!validationVars
<1>3. ValidationInv => V!TypeOK /\ V!AcceptedArchivesLoad
  BY AcceptedLoads DEF ValidationInv, V!TypeOK, V!AcceptedArchivesLoad, V!DatasetsFit
<1>. QED BY <1>1, <1>2, <1>3, PTL DEF V!Spec

-----------------------------------------------------------------------------
(***************************************************************************)
(* StaticUpdate, for any number of datasets, crashes and loads by hand.    *)
(*                                                                         *)
(* While checks do not overlap, the archive of the check under way is at   *)
(* least as new as the recorded ETag, and once it is loaded the tables     *)
(* hold it or the override.                                                *)
(***************************************************************************)

Checking(r) == run[r].pc # "idle" /\ run[r].data # U!Override

RunStates == [pc : {"idle", "fetched", "changed", "loading", "loaded"}, data : 0..U!Override]

RunOK(r) ==
  run[r].pc # "idle" => \/ run[r].data \in 1..remote
                        \/ run[r].data = U!Override /\ run[r].pc = "loading"

AlonePromises(r) ==
  Checking(r) => /\ \A q \in U!Runs : Checking(q) => q = r
                 /\ etag <= run[r].data
                 /\ run[r].pc = "loaded" => run[r].data <= tables

UpdateInv ==
  /\ U!TypeOK
  /\ \A r \in U!Runs : RunOK(r)
  /\ etag <= remote
  /\ ~overlapped => etag <= tables /\ \A r \in U!Runs : AlonePromises(r)

\* A process takes a step: the others stay where they are.
LEMMA OneSteps ==
  ASSUME NEW r \in U!Runs, NEW next, U!TypeOK, run' = [run EXCEPT ![r] = next]
  PROVE  /\ run'[r] = next
         /\ \A q \in U!Runs \ {r} : run'[q] = run[q]
         /\ next \in RunStates => run' \in [U!Runs -> RunStates]
BY DEF U!TypeOK, RunStates

LEMMA RunsEndIdle == MaxPublished \in Nat => U!Idle \in RunStates /\ U!Idle.pc = "idle"
BY DEF U!Idle, RunStates, U!NoData, U!Override

LEMMA UpdateStarts ==
  ASSUME U!UpdateBounds, U!Init
  PROVE  UpdateInv
<1>. USE DEF U!UpdateBounds, U!Feeds, U!Override, U!NoData
<1>1. run = [r \in U!Runs |-> [pc |-> "idle", data |-> 0]]
  BY DEF U!Init, U!Idle
<1>2. \A r \in U!Runs : run[r].pc = "idle"
  BY <1>1
<1>3. U!TypeOK
  <2>1. run \in [U!Runs -> RunStates]
    BY RunsEndIdle DEF U!Init
  <2>2. remote \in U!Feeds /\ tables \in 0..U!Override /\ etag \in 0..MaxPublished
    BY DEF U!Init
  <2>3. outdated \subseteq U!Runs
    BY DEF U!Init
  <2>4. crashes \in 0..MaxCrashes /\ byHand \in 0..MaxByHand
    BY DEF U!Init
  <2>5. overlapped \in BOOLEAN
    BY DEF U!Init
  <2>. QED BY <2>1, <2>2, <2>3, <2>4, <2>5 DEF U!Init, U!TypeOK, RunStates
<1>4. \A r \in U!Runs : RunOK(r) /\ AlonePromises(r)
  BY <1>2 DEF RunOK, AlonePromises, Checking
<1>. QED BY <1>3, <1>4 DEF UpdateInv, U!Init

\* A run ends, and nothing else changes that the invariant speaks of.
LEMMA RunEnds ==
  ASSUME NEW r \in U!Runs, UpdateInv, U!Ends(r), crashes' \in 0..MaxCrashes, outdated' \subseteq U!Runs,
         UNCHANGED <<remote, kind, tagged, tables, etag, byHand, overlapped>>, MaxPublished \in Nat
  PROVE  UpdateInv'
<1>1. /\ run'[r].pc = "idle"
      /\ \A q \in U!Runs \ {r} : run'[q] = run[q]
      /\ run' \in [U!Runs -> RunStates]
  BY OneSteps, RunsEndIdle DEF U!Ends, UpdateInv
<1>2. U!TypeOK'
  BY <1>1 DEF UpdateInv, U!TypeOK, RunStates
<1>3. \A q \in U!Runs : RunOK(q)'
  BY <1>1 DEF UpdateInv, RunOK
<1>4. \A q \in U!Runs : ~overlapped => AlonePromises(q)'
  BY <1>1 DEF UpdateInv, AlonePromises, Checking
<1>. QED BY <1>2, <1>3, <1>4 DEF UpdateInv

\* A check goes on with its archive, and nothing else changes that the invariant
\* speaks of.
LEMMA RunGoesOn ==
  ASSUME NEW r \in U!Runs, NEW pc \in {"fetched", "changed", "loading"}, UpdateInv, U!Goes(r, pc),
         run[r].pc \in {"fetched", "changed"}, outdated' \subseteq U!Runs,
         UNCHANGED <<remote, kind, tagged, tables, etag, crashes, byHand, overlapped>>, MaxPublished \in Nat
  PROVE  UpdateInv'
<1>. DEFINE next == [run[r] EXCEPT !.pc = pc]
<1>1. run[r] \in RunStates
  BY DEF UpdateInv, U!TypeOK, RunStates
<1>2. next.pc = pc /\ next.data = run[r].data
      /\ next \in RunStates
  BY <1>1 DEF RunStates
<1>3. run' = [run EXCEPT ![r] = next]
  BY DEF U!Goes, UpdateInv, U!TypeOK
<1>4. /\ run'[r] = next
      /\ \A q \in U!Runs \ {r} : run'[q] = run[q]
      /\ run' \in [U!Runs -> RunStates]
  BY <1>2, <1>3, OneSteps DEF UpdateInv
<1>5. U!TypeOK'
  BY <1>4 DEF UpdateInv, U!TypeOK, RunStates
<1>. HIDE DEF next
<1>6. \A q \in U!Runs : RunOK(q)'
  BY <1>2, <1>4 DEF UpdateInv, RunOK
<1>7. \A q \in U!Runs : ~overlapped => AlonePromises(q)'
  BY <1>2, <1>4 DEF UpdateInv, AlonePromises, Checking
<1>. QED BY <1>5, <1>6, <1>7 DEF UpdateInv

THEOREM UpdateInvariantHolds ==
  ASSUME U!UpdateBounds
  PROVE  U!Spec => []UpdateInv
<1>1. U!Init => UpdateInv
  BY UpdateStarts
<1>2. ASSUME UpdateInv, [U!Next]_U!updateVars
      PROVE  UpdateInv'
  <2>. USE <1>2 DEF U!UpdateBounds, UpdateInv, U!TypeOK, U!Feeds, U!Override, U!NoData
  <2>1. CASE U!Publish
    BY <2>1 DEF U!Publish, RunOK, AlonePromises, Checking
  <2>2. CASE U!BeginByHand
    BY <2>2 DEF U!BeginByHand, RunOK, AlonePromises, Checking, U!Runs
  <2>3. ASSUME NEW r \in U!Runs, U!Fetch(r) PROVE UpdateInv'
    <3>1. [pc |-> "fetched", data |-> remote] \in RunStates
      BY DEF RunStates
    <3>2. /\ run'[r] = [pc |-> "fetched", data |-> remote]
          /\ \A q \in U!Runs \ {r} : run'[q] = run[q]
          /\ run' \in [U!Runs -> RunStates]
      BY <2>3, <3>1, OneSteps DEF U!Fetch
    <3>3. U!TypeOK'
      BY <2>3, <3>2 DEF U!Fetch, RunStates
    <3>4. \A q \in U!Runs : RunOK(q)'
      BY <2>3, <3>2 DEF U!Fetch, RunOK
    <3>5. ~overlapped' => \A q \in U!Runs : AlonePromises(q)'
      BY <2>3, <3>2 DEF U!Fetch, AlonePromises, Checking
    <3>. QED BY <2>3, <3>3, <3>4, <3>5 DEF U!Fetch
  <2>4. ASSUME NEW r \in U!Runs, U!Compare(r) PROVE UpdateInv'
    BY <2>4, RunEnds, RunGoesOn DEF U!Compare
  <2>5. ASSUME NEW r \in U!Runs, U!BeginLoad(r) PROVE UpdateInv'
    BY <2>5, RunEnds, RunGoesOn DEF U!BeginLoad
  <2>6. ASSUME NEW r \in U!Runs, U!CommitLoad(r) PROVE UpdateInv'
    <3>1. CASE U!CommitFails(r)
      BY <2>6, <3>1, RunEnds DEF U!CommitLoad
    <3>2. CASE ~U!CommitFails(r) /\ run[r].data = U!Override
      <4>1. /\ run'[r].pc = "idle"
            /\ \A q \in U!Runs \ {r} : run'[q] = run[q]
            /\ run' \in [U!Runs -> RunStates]
        BY <2>6, <3>2, OneSteps, RunsEndIdle DEF U!CommitLoad, U!Ends
      <4>2. /\ tables' = U!Override
            /\ outdated' \subseteq U!Runs
            /\ UNCHANGED <<remote, kind, tagged, etag, crashes, byHand, overlapped>>
        BY <2>6, <3>2 DEF U!CommitLoad
      <4>3. U!TypeOK'
        BY <4>1, <4>2 DEF RunStates
      <4>4. \A q \in U!Runs : RunOK(q)'
        BY <4>1, <4>2 DEF RunOK
      <4>5. ~overlapped => \A q \in U!Runs : AlonePromises(q)'
        <5>1. \A q \in U!Runs : Checking(q) => run[q].data <= U!Override
          BY DEF RunOK, Checking
        <5>. QED BY <4>1, <4>2, <5>1 DEF AlonePromises, Checking
      <4>. QED BY <4>2, <4>3, <4>4, <4>5
    <3>3. CASE ~U!CommitFails(r) /\ run[r].data # U!Override
      <4>1. /\ run'[r].pc = "loaded" /\ run'[r].data = run[r].data
            /\ \A q \in U!Runs \ {r} : run'[q] = run[q]
            /\ run' \in [U!Runs -> RunStates]
        <5>1. [run[r] EXCEPT !.pc = "loaded"] \in RunStates
          BY DEF RunStates
        <5>2. run' = [run EXCEPT ![r] = [run[r] EXCEPT !.pc = "loaded"]]
          BY <2>6, <3>3 DEF U!CommitLoad, U!Goes
        <5>. QED BY <5>1, <5>2, OneSteps DEF RunStates
      <4>2. /\ tables' = run[r].data
            /\ outdated' \subseteq U!Runs
            /\ UNCHANGED <<remote, kind, tagged, etag, crashes, byHand, overlapped>>
        BY <2>6, <3>3 DEF U!CommitLoad
      <4>3. Checking(r) /\ run[r].data \in 1..remote
        BY <2>6, <3>3 DEF U!CommitLoad, RunOK, Checking
      <4>4. U!TypeOK'
        <5>1. tables' \in 0..U!Override
          BY <4>2, <4>3
        <5>. QED BY <4>1, <4>2, <5>1 DEF RunStates
      <4>5. \A q \in U!Runs : RunOK(q)'
        BY <4>1, <4>2, <4>3 DEF RunOK
      <4>6. ~overlapped => etag <= run[r].data /\ \A q \in U!Runs : AlonePromises(q)'
        <5>1. SUFFICES ASSUME ~overlapped
                       PROVE  etag <= run[r].data /\ \A q \in U!Runs : AlonePromises(q)'
          OBVIOUS
        <5>2. /\ etag <= run[r].data
              /\ \A q \in U!Runs \ {r} : ~Checking(q)
          BY <4>3, <5>1 DEF AlonePromises
        <5>3. AlonePromises(r)'
          BY <4>1, <4>2, <4>3, <5>2 DEF AlonePromises, Checking
        <5>4. \A q \in U!Runs \ {r} : AlonePromises(q)'
          BY <4>1, <5>2 DEF AlonePromises, Checking
        <5>. QED BY <5>2, <5>3, <5>4
      <4>. QED BY <4>2, <4>4, <4>5, <4>6
    <3>. QED BY <3>1, <3>2, <3>3
  <2>7. ASSUME NEW r \in U!Runs, U!StoreEtag(r) PROVE UpdateInv'
    <3>1. /\ run'[r].pc = "idle"
          /\ \A q \in U!Runs \ {r} : run'[q] = run[q]
          /\ run' \in [U!Runs -> RunStates]
      BY <2>7, OneSteps, RunsEndIdle DEF U!StoreEtag, U!Ends
    <3>2. /\ run[r].pc = "loaded" /\ etag' \in {run[r].data, U!NoData}
          /\ UNCHANGED <<remote, kind, tagged, tables, outdated, crashes, byHand, overlapped>>
      BY <2>7 DEF U!StoreEtag
    <3>3. Checking(r) /\ run[r].data \in 1..remote
      BY <3>2 DEF RunOK, Checking
    <3>4. U!TypeOK'
      BY <3>1, <3>2, <3>3 DEF RunStates
    <3>5. \A q \in U!Runs : RunOK(q)'
      BY <3>1, <3>2, <3>3 DEF RunOK
    <3>6. ~overlapped => etag' <= tables /\ \A q \in U!Runs : AlonePromises(q)'
      BY <3>1, <3>2, <3>3 DEF AlonePromises, Checking
    <3>. QED BY <3>2, <3>3, <3>4, <3>5, <3>6
  <2>8. ASSUME NEW r \in U!Runs, U!Crash(r) PROVE UpdateInv'
    BY <2>8, RunEnds DEF U!Crash
  <2>9. CASE UNCHANGED U!updateVars
    BY <2>9 DEF U!updateVars, RunOK, AlonePromises, Checking
  <2>. QED BY <2>1, <2>2, <2>3, <2>4, <2>5, <2>6, <2>7, <2>8, <2>9 DEF U!Next, U!Goon
<1>. QED BY <1>1, <1>2, PTL DEF U!Spec

\* No ETag is on record for an archive newer than the tables', unless two checks
\* overlapped: whatever crashes, is rejected or is loaded by hand, the next check
\* finds what it still has to load (GtfsStaticUpdateService.check_for_update).
THEOREM EtagIsOfALoadedArchive ==
  ASSUME U!UpdateBounds
  PROVE  U!Spec => [](U!TypeOK /\ U!EtagIsLoaded)
<1>1. UpdateInv => U!TypeOK /\ U!EtagIsLoaded
  BY DEF UpdateInv, U!EtagIsLoaded
<1>. QED BY <1>1, UpdateInvariantHolds, PTL

-----------------------------------------------------------------------------
(***************************************************************************)
(* JourneyPlanner, for any networks, walking distances and penalties.      *)
(*                                                                         *)
(* A way is what the search looks for the cheapest of: the nodes of a      *)
(* path from the origin with what each costs.                              *)
(***************************************************************************)

Steps == [node : Nodes(network), cost : Nat]

Leads(a, b, preference) ==
  \E e \in Edges(network, a.node, preference) : b.node = e.to /\ b.cost = a.cost + e.weight

Ways(preference) ==
  {w \in Seq(Steps) :
     /\ Len(w) >= 1 /\ w[1] = [node |-> Start, cost |-> 0]
     /\ \A k \in 1..(Len(w) - 1) : Leads(w[k], w[k + 1], preference)}

End(w) == w[Len(w)]
Reaches(node, preference) == \E w \in Ways(preference) : End(w).node = node

\* What a cheapest way to a node costs.
IsLeast(cost, node, preference) ==
  /\ \E w \in Ways(preference) : End(w) = [node |-> node, cost |-> cost]
  /\ \A w \in Ways(preference) : End(w).node = node => cost <= End(w).cost

\* A finite set of integers has a greatest member: a least counterexample,
\* by cardinality, would have a part that has one.
LEMMA FiniteHasMax ==
  ASSUME NEW S \in SUBSET Int, IsFiniteSet(S), S # {}
  PROVE  Max(S) \in S /\ \A y \in S : y <= Max(S)
<1>. DEFINE HasMax(Q) == \E x \in Q : \A y \in Q : y <= x
            Wrong == {n \in Nat : \E Q \in SUBSET Int : IsFiniteSet(Q) /\ Q # {} /\ Cardinality(Q) = n /\ ~HasMax(Q)}
<1>1. Wrong = {}
  <2>. SUFFICES ASSUME Wrong # {} PROVE FALSE
    OBVIOUS
  <2>1. PICK n \in Wrong : \A m \in Wrong : ~ (<<m, n>> \in OpToRel(<, Nat))
    BY NatLessThanWellFounded, WFMin
  <2>2. PICK Q \in SUBSET Int : IsFiniteSet(Q) /\ Q # {} /\ Cardinality(Q) = n /\ ~HasMax(Q)
    BY <2>1
  <2>3. PICK x \in Q : TRUE
    BY <2>2
  <2>4. Q \ {x} \in SUBSET Int /\ IsFiniteSet(Q \ {x}) /\ Cardinality(Q \ {x}) = n - 1
    BY <2>2, <2>3, FS_RemoveElement
  <2>5. HasMax(Q \ {x})
    <3>1. Q \ {x} # {}
      BY <2>2, <2>3
    <3>2. n - 1 \in Nat
      BY <2>4, FS_CardinalityType
    <3>3. <<n - 1, n>> \in OpToRel(<, Nat)
      BY <2>2, <3>2, FS_CardinalityType DEF OpToRel
    <3>4. n - 1 \notin Wrong
      BY <2>1, <3>3
    <3>. QED BY <2>4, <3>1, <3>2, <3>4
  <2>6. PICK z \in Q \ {x} : \A y \in Q \ {x} : y <= z
    BY <2>5
  <2>7. HasMax(Q)
    <3>1. CASE x <= z
      BY <2>3, <2>6, <3>1
    <3>2. CASE ~(x <= z)
      <4>1. \A y \in Q : y <= x
        BY <2>2, <2>3, <2>6, <3>2
      <4>. QED BY <2>3, <4>1
    <3>. QED BY <3>1, <3>2
  <2>. QED BY <2>2, <2>7
<1>2. HasMax(S)
  <2>1. Cardinality(S) \in Nat /\ Cardinality(S) \notin Wrong
    BY <1>1, FS_CardinalityType
  <2>. QED BY <2>1
<1>. HIDE DEF HasMax
<1>3. \E x \in S : \A y \in S : x >= y
  BY <1>2 DEF HasMax
<1>4. Max(S) \in S /\ \A y \in S : Max(S) >= y
  BY <1>3 DEF Max
<1>. QED BY <1>4

\* A set of natural numbers has a least member.
LEMMA LeastNatural ==
  ASSUME NEW S \in SUBSET Nat, S # {}
  PROVE  Min(S) \in S /\ \A y \in S : Min(S) <= y
<1>1. PICK m \in S : \A k \in S : ~ (<<k, m>> \in OpToRel(<, Nat))
  BY NatLessThanWellFounded, WFMin
<1>2. \A k \in S : m <= k
  <2>. TAKE k \in S
  <2>1. k \in Nat /\ m \in Nat /\ ~ (k < m)
    BY <1>1 DEF OpToRel
  <2>. QED BY <2>1
<1>. QED BY <1>1, <1>2 DEF Min

\* A pattern is the calls of a trip.
LEMMA PatternFits ==
  ASSUME NEW n, NetworkFits(n), NEW key \in Patterns(n)
  PROVE  Pattern(n, key) \in Seq(Call(n))
<1>. DEFINE ofKey == {i \in DOMAIN n.trips : <<n.trips[i].route, n.trips[i].direction>> = key}
            lengths == {Len(n.trips[i].calls) : i \in ofKey}
            longest == Max(lengths)
            those == {i \in ofKey : Len(n.trips[i].calls) = longest}
<1>1. ofKey # {}
  BY DEF Patterns
<1>2. \A i \in ofKey : n.trips[i].calls \in Seq(Call(n)) /\ Len(n.trips[i].calls) \in Nat
  BY DEF NetworkFits
<1>3. IsFiniteSet(ofKey)
  BY FS_Subset DEF NetworkFits
<1>4. IsFiniteSet(lengths)
  <2>. DEFINE f == [i \in ofKey |-> Len(n.trips[i].calls)]
  <2>1. f \in Surjection(ofKey, lengths)
    BY DEF Surjection
  <2>. QED BY <1>3, <2>1, FS_Surjection DEF ExistsSurjection
<1>5. longest \in lengths
  <2>1. lengths # {}
    BY <1>1
  <2>2. lengths \in SUBSET Int
    <3>. HIDE DEF ofKey
    <3>. QED BY <1>2
  <2>. QED BY <1>4, <2>1, <2>2, FiniteHasMax
<1>6. those # {} /\ those \in SUBSET Nat
  BY <1>5 DEF NetworkFits
<1>7. Min(those) \in ofKey
  BY <1>6, LeastNatural
<1>. QED BY <1>2, <1>7 DEF Pattern

Weights == {"fastest", "fewer_transfers", "less_walking", "everywhere"}

\* The edges out of a stop and those out of a place in a pattern.
LEMMA StopEdges ==
  ASSUME NEW n, NetworkFits(n), PlannerFits, NEW s \in DOMAIN n.stops, NEW p \in Weights,
         NEW e \in Edges(n, <<"at", s>>, p)
  PROVE  \/ \E key \in Patterns(n) : \E i \in DOMAIN Pattern(n, key) :
               e = Edge(<<"on", key, i>>, "board", BoardWeight(p), BoardPenalty)
         \/ \E b \in DOMAIN n.stops :
               e = Edge(<<"at", b>>, "walk", WalkSeconds(n, s, b) * WalkWeight(p), WalkSeconds(n, s, b))
<1>1. e \in Boardings(n, s, p) \/ e \in Walks(n, s, p)
  BY DEF Edges
<1>2. ASSUME e \in Boardings(n, s, p)
      PROVE  \E key \in Patterns(n) : \E i \in DOMAIN Pattern(n, key) :
               e = Edge(<<"on", key, i>>, "board", BoardWeight(p), BoardPenalty)
  <2>1. PICK key \in Patterns(n) : \E i \in 1..(Len(Pattern(n, key)) - 1) :
          e = Edge(<<"on", key, i>>, "board", BoardWeight(p), BoardPenalty)
    BY <1>2 DEF Boardings
  <2>2. \A i \in 1..(Len(Pattern(n, key)) - 1) : i \in DOMAIN Pattern(n, key)
    BY PatternFits
  <2>. QED BY <2>1, <2>2
<1>3. ASSUME e \in Walks(n, s, p)
      PROVE  \E b \in DOMAIN n.stops :
               e = Edge(<<"at", b>>, "walk", WalkSeconds(n, s, b) * WalkWeight(p), WalkSeconds(n, s, b))
  BY <1>3 DEF Walks, Walkable
<1>. QED BY <1>1, <1>2, <1>3

LEMMA PatternEdges ==
  ASSUME NEW n, NetworkFits(n), NEW key \in Patterns(n), NEW i \in DOMAIN Pattern(n, key), NEW p,
         NEW e \in Edges(n, <<"on", key, i>>, p)
  PROVE  \/ e = Edge(<<"at", Pattern(n, key)[i].stop>>, "alight", 0, 0)
         \/ /\ i + 1 \in DOMAIN Pattern(n, key)
            /\ e = Edge(<<"on", key, i + 1>>, "ride", Hop(Pattern(n, key), i), Hop(Pattern(n, key), i))
<1>1. e \in Rides(n, key, i)
  BY DEF Edges
<1>2. Pattern(n, key) \in Seq(Call(n))
  BY PatternFits
<1>3. (\E k \in 1..(Len(Pattern(n, key)) - i) : TRUE) => i + 1 \in DOMAIN Pattern(n, key)
  BY <1>2
<1>. QED BY <1>1, <1>3 DEF Rides

LEMMA WeightsAreNatural ==
  ASSUME NEW n, NetworkFits(n), PlannerFits, NEW p \in Weights
  PROVE  /\ BoardWeight(p) \in Nat
         /\ \A a, b \in DOMAIN n.stops : WalkSeconds(n, a, b) * WalkWeight(p) \in Nat
         /\ \A key \in Patterns(n) : \A i \in DOMAIN Pattern(n, key) :
              i + 1 \in DOMAIN Pattern(n, key) => Hop(Pattern(n, key), i) \in Nat
<1>1. BoardWeight(p) \in Nat
  BY DEF BoardWeight, PlannerFits
<1>2. ASSUME NEW a \in DOMAIN n.stops, NEW b \in DOMAIN n.stops
      PROVE  WalkSeconds(n, a, b) * WalkWeight(p) \in Nat
  <2>1. Distance(n, a, b) \in Nat
    BY DEF Distance, NetworkFits
  <2>2. WalkSeconds(n, a, b) \in Nat /\ WalkWeight(p) \in Nat
    BY <2>1 DEF WalkSeconds, WalkWeight, PlannerFits
  <2>. QED BY <2>2
<1>3. ASSUME NEW key \in Patterns(n), NEW i \in DOMAIN Pattern(n, key), i + 1 \in DOMAIN Pattern(n, key)
      PROVE  Hop(Pattern(n, key), i) \in Nat
  <2>. DEFINE late == Pattern(n, key)[i + 1].arrives - Pattern(n, key)[i].departs
  <2>1. Pattern(n, key) \in Seq(Call(n))
    BY PatternFits
  <2>2. late \in Int /\ MinHop \in Nat
    <3>1. Pattern(n, key)[i] \in Call(n) /\ Pattern(n, key)[i + 1] \in Call(n)
      BY <1>3, <2>1
    <3>. QED BY <3>1 DEF Call, PlannerFits
  <2>. HIDE DEF late
  <2>3. {late, MinHop} \in SUBSET Int /\ IsFiniteSet({late, MinHop})
    <3>1. IsFiniteSet({late}) /\ {late, MinHop} = {late} \cup {MinHop}
      BY FS_Singleton
    <3>. QED BY <2>2, <3>1, FS_AddElement
  <2>4. Max({late, MinHop}) \in {late, MinHop} /\ MinHop <= Max({late, MinHop})
    BY <2>3, FiniteHasMax
  <2>. QED BY <2>2, <2>4 DEF Hop, late
<1>. QED BY <1>1, <1>2, <1>3

\* An edge leads to a node, weighs no less than nothing, and is the only one from
\* its node to that node.
LEMMA EdgesFit ==
  ASSUME NEW n, NetworkFits(n), PlannerFits, NEW p \in Weights, NEW node \in Nodes(n), NEW e \in Edges(n, node, p)
  PROVE  /\ e.to \in Nodes(n) /\ e.weight \in Nat
         /\ \A f \in Edges(n, node, p) : f.to = e.to => f.weight = e.weight
<1>1. CASE \E s \in DOMAIN n.stops : node = <<"at", s>>
  <2>1. PICK s \in DOMAIN n.stops : node = <<"at", s>>
    BY <1>1
  <2>2. CASE \E key \in Patterns(n) : \E i \in DOMAIN Pattern(n, key) :
               e = Edge(<<"on", key, i>>, "board", BoardWeight(p), BoardPenalty)
    <3>0. PICK key \in Patterns(n) : \E i \in DOMAIN Pattern(n, key) :
            e = Edge(<<"on", key, i>>, "board", BoardWeight(p), BoardPenalty)
      BY <2>2
    <3>1. PICK i \in DOMAIN Pattern(n, key) :
            e = Edge(<<"on", key, i>>, "board", BoardWeight(p), BoardPenalty)
      BY <3>0
    <3>2. e.to = <<"on", key, i>> /\ e.weight = BoardWeight(p)
      BY <3>1 DEF Edge
    <3>3. \A f \in Edges(n, node, p) : f.to = e.to => f.weight = e.weight
      BY <2>1, <3>2, StopEdges DEF Edge
    <3>. QED BY <3>2, <3>3, WeightsAreNatural DEF Nodes
  <2>3. CASE \E b \in DOMAIN n.stops :
               e = Edge(<<"at", b>>, "walk", WalkSeconds(n, s, b) * WalkWeight(p), WalkSeconds(n, s, b))
    <3>1. PICK b \in DOMAIN n.stops :
            e = Edge(<<"at", b>>, "walk", WalkSeconds(n, s, b) * WalkWeight(p), WalkSeconds(n, s, b))
      BY <2>3
    <3>2. e.to = <<"at", b>> /\ e.weight = WalkSeconds(n, s, b) * WalkWeight(p)
      BY <3>1 DEF Edge
    <3>3. \A f \in Edges(n, node, p) : f.to = e.to => f.weight = e.weight
      BY <2>1, <3>2, StopEdges DEF Edge
    <3>. QED BY <3>2, <3>3, WeightsAreNatural DEF Nodes
  <2>. QED BY <2>1, <2>2, <2>3, StopEdges
<1>2. CASE \E key \in Patterns(n) : \E i \in DOMAIN Pattern(n, key) : node = <<"on", key, i>>
  <2>0. PICK key \in Patterns(n) : \E i \in DOMAIN Pattern(n, key) : node = <<"on", key, i>>
    BY <1>2
  <2>1. PICK i \in DOMAIN Pattern(n, key) : node = <<"on", key, i>>
    BY <2>0
  <2>2. Pattern(n, key)[i].stop \in DOMAIN n.stops
    <3>1. Pattern(n, key)[i] \in Call(n)
      BY PatternFits
    <3>. QED BY <3>1 DEF Call
  <2>3. \/ e.to = <<"at", Pattern(n, key)[i].stop>> /\ e.weight = 0
        \/ /\ e.to = <<"on", key, i + 1>> /\ e.weight = Hop(Pattern(n, key), i)
           /\ i + 1 \in DOMAIN Pattern(n, key)
    BY <2>1, PatternEdges DEF Edge
  <2>4. \A f \in Edges(n, node, p) : f.to = e.to => f.weight = e.weight
    BY <2>1, <2>3, PatternEdges DEF Edge
  <2>5. e.to \in Nodes(n)
    BY <2>2, <2>3 DEF Nodes
  <2>6. e.weight \in Nat
    BY <2>3, WeightsAreNatural
  <2>. QED BY <2>4, <2>5, <2>6
<1>. QED BY <1>1, <1>2 DEF Nodes

\* Preferences differ in weights only.
LEMMA EdgesCorrespond ==
  ASSUME NEW n, NEW node, NEW p, NEW q, NEW e \in Edges(n, node, p)
  PROVE  \E f \in Edges(n, node, q) : f.to = e.to
<1>1. CASE e \in Boardings(n, node[2], p) /\ node[1] = "at"
  <2>0. PICK key \in Patterns(n) :
          \E i \in {k \in 1..(Len(Pattern(n, key)) - 1) : Pattern(n, key)[k].stop = node[2]} :
            e = Edge(<<"on", key, i>>, "board", BoardWeight(p), BoardPenalty)
    BY <1>1 DEF Boardings
  <2>1. PICK i \in {k \in 1..(Len(Pattern(n, key)) - 1) : Pattern(n, key)[k].stop = node[2]} :
          e = Edge(<<"on", key, i>>, "board", BoardWeight(p), BoardPenalty)
    BY <2>0
  <2>2. Edge(<<"on", key, i>>, "board", BoardWeight(q), BoardPenalty) \in Edges(n, node, q)
    BY <1>1 DEF Boardings, Edges
  <2>. QED BY <2>1, <2>2 DEF Edge
<1>2. CASE e \in Walks(n, node[2], p) /\ node[1] = "at"
  <2>1. PICK b \in Walkable(n, node[2]) :
          e = Edge(<<"at", b>>, "walk", WalkSeconds(n, node[2], b) * WalkWeight(p), WalkSeconds(n, node[2], b))
    BY <1>2 DEF Walks
  <2>2. Edge(<<"at", b>>, "walk", WalkSeconds(n, node[2], b) * WalkWeight(q), WalkSeconds(n, node[2], b))
          \in Edges(n, node, q)
    BY <1>2 DEF Walks, Edges
  <2>. QED BY <2>1, <2>2 DEF Edge
<1>3. CASE node[1] # "at"
  BY <1>3 DEF Edges
<1>. QED BY <1>1, <1>2, <1>3 DEF Edges

\* One way is not to leave; a way can be continued over an edge.
LEMMA StayingIsAWay ==
  ASSUME NEW p, Start \in Nodes(network)
  PROVE  /\ <<[node |-> Start, cost |-> 0]>> \in Ways(p)
         /\ End(<<[node |-> Start, cost |-> 0]>>) = [node |-> Start, cost |-> 0]
<1>. DEFINE w == <<[node |-> Start, cost |-> 0]>>
<1>1. w \in Seq(Steps) /\ Len(w) = 1 /\ w[1] = [node |-> Start, cost |-> 0]
  BY DEF Steps
<1>. HIDE DEF w
<1>2. 1..(Len(w) - 1) = {}
  BY <1>1
<1>3. w \in Ways(p)
  <2>1. Len(w) >= 1 /\ \A k \in 1..(Len(w) - 1) : Leads(w[k], w[k + 1], p)
    BY <1>1, <1>2
  <2>. QED BY <1>1, <2>1, Zenon DEF Ways
<1>4. End(w) = [node |-> Start, cost |-> 0]
  BY <1>1 DEF End
<1>. QED BY <1>3, <1>4 DEF w

LEMMA WaysGoOn ==
  ASSUME NEW p, NEW w \in Ways(p), NEW e \in Edges(network, End(w).node, p),
         e.to \in Nodes(network), e.weight \in Nat
  PROVE  \E v \in Ways(p) : End(v) = [node |-> e.to, cost |-> End(w).cost + e.weight]
<1>. DEFINE step == [node |-> e.to, cost |-> End(w).cost + e.weight]
            v == Append(w, step)
<1>1. w \in Seq(Steps) /\ Len(w) \in Nat /\ Len(w) >= 1
  BY DEF Ways
<1>2. End(w) \in Steps
  BY <1>1 DEF End
<1>3. step \in Steps
  BY <1>2 DEF Steps
<1>4. Leads(End(w), step, p)
  BY DEF Leads
<1>. HIDE DEF step
<1>5. /\ v \in Seq(Steps) /\ Len(v) = Len(w) + 1 /\ v[Len(w) + 1] = step
      /\ \A k \in 1..Len(w) : v[k] = w[k]
  BY <1>1, <1>3
<1>. HIDE DEF v
<1>6. v[1] = [node |-> Start, cost |-> 0]
  BY <1>1, <1>5 DEF Ways
<1>7. \A k \in 1..(Len(v) - 1) : Leads(v[k], v[k + 1], p)
  <2>. SUFFICES ASSUME NEW k \in 1..(Len(v) - 1) PROVE Leads(v[k], v[k + 1], p)
    OBVIOUS
  <2>1. CASE k = Len(w)
    BY <1>1, <1>4, <1>5, <2>1 DEF End
  <2>2. CASE k \in 1..(Len(w) - 1)
    <3>1. v[k] = w[k] /\ v[k + 1] = w[k + 1]
      BY <1>1, <1>5, <2>2
    <3>. QED BY <2>2, <3>1 DEF Ways
  <2>. QED BY <1>1, <1>5, <2>1, <2>2
<1>8. v \in Ways(p) /\ End(v) = step
  BY <1>1, <1>5, <1>6, <1>7 DEF Ways, End
<1>. QED BY <1>8 DEF step

\* Every edge out of a node leads to a node that is no dearer than over it.
Relaxed(node, preference) ==
  \A e \in Edges(network, node, preference) :
    e.to \in DOMAIN best /\ best[e.to] <= best[node] + e.weight

\* If only nodes that cost as much as some limit may be unrelaxed, a way is as
\* dear as the limit or its end is no dearer than the way: a first step for
\* which this fails would come after one that is relaxed.
LEMMA NoWayIsCheaper ==
  ASSUME PlannerFits, network \in Networks, NEW p \in Weights,
         \A v \in DOMAIN best : v \in Nodes(network) /\ best[v] \in Nat,
         Start \in DOMAIN best, best[Start] = 0,
         NEW limit \in Nat, \A v \in DOMAIN best : Relaxed(v, p) \/ limit <= best[v],
         NEW w \in Ways(p)
  PROVE  limit <= End(w).cost \/ (End(w).node \in DOMAIN best /\ best[End(w).node] <= End(w).cost)
<1>. DEFINE Fine(k) == limit <= w[k].cost \/ (w[k].node \in DOMAIN best /\ best[w[k].node] <= w[k].cost)
            wrong == {k \in 1..Len(w) : ~Fine(k)}
<1>1. w \in Seq(Steps) /\ Len(w) \in Nat /\ Len(w) >= 1
  BY DEF Ways
<1>2. wrong = {}
  <2>. SUFFICES ASSUME wrong # {} PROVE FALSE
    OBVIOUS
  <2>0. wrong \in SUBSET Nat
    OBVIOUS
  <2>1. PICK k \in wrong : \A m \in wrong : k <= m
    <3>. HIDE DEF wrong
    <3>. QED BY <2>0, LeastNatural
  <2>2. Fine(1)
    BY DEF Ways
  <2>3. k \in Nat /\ k # 1 /\ k \in 1..Len(w) /\ k - 1 \in 1..Len(w)
    BY <1>1, <2>1, <2>2
  <2>4. Fine(k - 1)
    BY <2>1, <2>3
  <2>5. PICK e \in Edges(network, w[k - 1].node, p) : w[k].node = e.to /\ w[k].cost = w[k - 1].cost + e.weight
    <3>1. k - 1 \in 1..(Len(w) - 1) /\ (k - 1) + 1 = k
      BY <1>1, <2>3
    <3>2. Leads(w[k - 1], w[k], p)
      BY <3>1 DEF Ways
    <3>. QED BY <3>2 DEF Leads
  <2>6. w[k - 1] \in Steps /\ w[k] \in Steps
    BY <1>1, <2>3
  <2>7. w[k - 1].node \in Nodes(network) /\ w[k - 1].cost \in Nat /\ w[k].cost \in Nat
    BY <2>6 DEF Steps
  <2>8. e.weight \in Nat
    BY <2>5, <2>7, EdgesFit DEF PlannerFits
  <2>9. ~(limit <= w[k - 1].cost)
    BY <2>1, <2>5, <2>7, <2>8
  <2>10. w[k - 1].node \in DOMAIN best /\ best[w[k - 1].node] <= w[k - 1].cost
    BY <2>4, <2>9
  <2>11. Relaxed(w[k - 1].node, p)
    BY <2>7, <2>9, <2>10
  <2>12. w[k].node \in DOMAIN best /\ best[w[k].node] <= best[w[k - 1].node] + e.weight
    BY <2>5, <2>11 DEF Relaxed
  <2>13. Fine(k)
    <3>1. best[w[k].node] \in Nat /\ best[w[k - 1].node] \in Nat
      BY <2>10, <2>12
    <3>2. w[k].cost = w[k - 1].cost + e.weight
      BY <2>5
    <3>. DEFINE before == w[k - 1]  after == w[k]
                dist == best[before.node]  reached == best[after.node]
    <3>3. /\ dist \in Nat /\ reached \in Nat /\ before.cost \in Nat /\ after.cost \in Nat /\ e.weight \in Nat
          /\ reached <= dist + e.weight /\ dist <= before.cost /\ after.cost = before.cost + e.weight
      BY <2>7, <2>8, <2>10, <2>12, <3>1, <3>2
    <3>4. reached <= after.cost
      <4>. HIDE DEF before, after, dist, reached
      <4>. QED BY <3>3
    <3>. QED BY <2>12, <3>4
  <2>. QED BY <2>1, <2>13
<1>3. Fine(Len(w))
  BY <1>1, <1>2
<1>. QED BY <1>3 DEF End

\* Whatever the preference, the same nodes can be reached.
LEMMA PreferencesReachTheSame ==
  ASSUME PlannerFits, network \in Networks, origin \in DOMAIN network.stops,
         NEW p \in Weights, NEW q \in Weights, NEW node, Reaches(node, p)
  PROVE  Reaches(node, q)
<1>1. PICK w \in Ways(p) : End(w).node = node
  BY DEF Reaches
<1>. DEFINE wrong == {k \in 1..Len(w) : ~Reaches(w[k].node, q)}
<1>2. w \in Seq(Steps) /\ Len(w) \in Nat /\ Len(w) >= 1
  BY DEF Ways
<1>3. wrong = {}
  <2>. SUFFICES ASSUME wrong # {} PROVE FALSE
    OBVIOUS
  <2>0. wrong \in SUBSET Nat
    OBVIOUS
  <2>1. PICK k \in wrong : \A m \in wrong : k <= m
    <3>. HIDE DEF wrong
    <3>. QED BY <2>0, LeastNatural
  <2>2. Reaches(w[1].node, q)
    <3>1. Start \in Nodes(network)
      BY DEF Start, Nodes
    <3>. QED BY <3>1, StayingIsAWay DEF Ways, Reaches
  <2>3. k \in Nat /\ k # 1 /\ k \in 1..Len(w) /\ k - 1 \in 1..Len(w)
    BY <1>2, <2>1, <2>2
  <2>4. PICK v \in Ways(q) : End(v).node = w[k - 1].node
    <3>1. Reaches(w[k - 1].node, q)
      BY <2>1, <2>3
    <3>. QED BY <3>1 DEF Reaches
  <2>5. PICK e \in Edges(network, w[k - 1].node, p) : w[k].node = e.to
    <3>1. k - 1 \in 1..(Len(w) - 1) /\ (k - 1) + 1 = k
      BY <1>2, <2>3
    <3>2. Leads(w[k - 1], w[k], p)
      BY <3>1 DEF Ways
    <3>. QED BY <3>2 DEF Leads
  <2>6. PICK f \in Edges(network, w[k - 1].node, q) : f.to = w[k].node
    BY <2>5, EdgesCorrespond
  <2>7. w[k - 1].node \in Nodes(network)
    <3>1. w[k - 1] \in Steps
      BY <1>2, <2>3
    <3>. QED BY <3>1 DEF Steps
  <2>8. f.to \in Nodes(network) /\ f.weight \in Nat
    BY <2>6, <2>7, EdgesFit DEF PlannerFits
  <2>9. Reaches(w[k].node, q)
    <3>1. f \in Edges(network, End(v).node, q)
      BY <2>4, <2>6
    <3>2. PICK u \in Ways(q) : End(u) = [node |-> f.to, cost |-> End(v).cost + f.weight]
      BY <2>8, <3>1, WaysGoOn
    <3>. QED BY <2>6, <3>2 DEF Reaches
  <2>. QED BY <2>1, <2>9
<1>4. Reaches(w[Len(w)].node, q)
  BY <1>2, <1>3
<1>. QED BY <1>1, <1>4 DEF End

\* What an entry of the queue still offers to a node.
Open(node) == \E e \in queue : e.node = node /\ e.cost = best[node]

\* A node has its edges relaxed or waits for it, and its cost is that of a way.
\* The target of a search only ever waits.
Settled(preference) ==
  /\ \A v \in DOMAIN best : Open(v) \/ Relaxed(v, preference)
  /\ \A v \in DOMAIN best : \E w \in Ways(preference) : End(w) = [node |-> v, cost |-> best[v]]
  /\ preference # "everywhere" /\ Target \in DOMAIN best => Open(Target)

SearchFits ==
  /\ network \in Networks /\ origin \in DOMAIN network.stops /\ destination \in DOMAIN network.stops \ {origin}
  /\ searched \in 0..4
  /\ Start \in DOMAIN best /\ best[Start] = 0
  /\ DOMAIN prev = DOMAIN best \ {Start}
  /\ \A v \in DOMAIN best : v \in Nodes(network) /\ best[v] \in Nat
  /\ \A e \in queue : e.node \in DOMAIN best /\ e.cost \in Nat /\ e.cost >= best[e.node]

\* The costs of travel_seconds_from: those of the stops that can be reached.
CostsAreLeast(costs) ==
  /\ \A s \in DOMAIN costs : s \in DOMAIN network.stops /\ IsLeast(costs[s], <<"at", s>>, "everywhere")
  /\ \A s \in DOMAIN network.stops : Reaches(<<"at", s>>, "everywhere") => s \in DOMAIN costs

PlanIsRight(i) ==
  IF i = 4 THEN CostsAreLeast(plans[4])
  ELSE plans[i] = NoRoute <=> ~Reaches(Target, Preferences[i])

PlansFit ==
  /\ \E S : plans \in Seq(S)
  /\ Len(plans) = searched
  /\ \A i \in 1..searched : PlanIsRight(i)

PlannerInv == SearchFits /\ (searched < 4 => Settled(Preference)) /\ PlansFit

LEMMA PreferenceIsOne == \A i \in 1..4 : Preferences[i] \in Weights /\ (Preferences[i] = "everywhere" <=> i = 4)
BY DEF Preferences, Weights

\* What comes out of the queue first is a least cost, and an empty queue leaves
\* nothing out.
LEMMA FirstIsLeast ==
  ASSUME PlannerFits, SearchFits, NEW p \in Weights, Settled(p),
         NEW entry, Cheapest(entry), entry.cost <= best[entry.node]
  PROVE  entry.cost = best[entry.node] /\ IsLeast(entry.cost, entry.node, p)
<1>1. entry \in queue /\ entry.node \in DOMAIN best /\ entry.cost \in Nat /\ best[entry.node] \in Nat
      /\ entry.cost = best[entry.node]
  BY DEF Cheapest, SearchFits
<1>2. ASSUME NEW v \in DOMAIN best
      PROVE  Relaxed(v, p) \/ entry.cost <= best[v]
  <2>1. CASE Open(v)
    BY <2>1 DEF Open, Cheapest
  <2>. QED BY <2>1 DEF Settled
<1>3. ASSUME NEW w \in Ways(p), End(w).node = entry.node
      PROVE  entry.cost <= End(w).cost
  BY <1>1, <1>2, <1>3, NoWayIsCheaper DEF SearchFits
<1>. QED BY <1>1, <1>3 DEF IsLeast, Settled

LEMMA NothingIsLeftOut ==
  ASSUME PlannerFits, SearchFits, NEW p \in Weights, Settled(p), queue = {}
  PROVE  \A node : /\ node \in DOMAIN best <=> Reaches(node, p)
                   /\ node \in DOMAIN best => IsLeast(best[node], node, p)
<1>1. \A v \in DOMAIN best : Relaxed(v, p)
  BY DEF Settled, Open
<1>2. ASSUME NEW w \in Ways(p)
      PROVE  End(w).node \in DOMAIN best /\ best[End(w).node] <= End(w).cost
  <2>1. w \in Seq(Steps) /\ Len(w) \in Nat /\ Len(w) >= 1
    BY DEF Ways
  <2>2. End(w) \in Steps
    BY <2>1 DEF End
  <2>3. End(w).cost \in Nat /\ End(w).cost + 1 \in Nat /\ ~(End(w).cost + 1 <= End(w).cost)
    BY <2>2 DEF Steps
  <2>. QED BY <1>1, <2>3, NoWayIsCheaper DEF SearchFits
<1>. QED BY <1>2 DEF Settled, IsLeast, Reaches

\* The ways are those of the question, which does not change.
LEMMA WaysStay ==
  ASSUME UNCHANGED <<network, origin, destination>>
  PROVE  /\ \A p : Ways(p)' = Ways(p)
         /\ \A node, p : Reaches(node, p)' <=> Reaches(node, p)
         /\ \A c, node, p : IsLeast(c, node, p)' <=> IsLeast(c, node, p)
         /\ \A costs : CostsAreLeast(costs)' <=> CostsAreLeast(costs)
         /\ Start' = Start /\ Target' = Target
<1>1. Start' = Start /\ Target' = Target /\ Steps' = Steps
  BY DEF Start, Target, Steps
<1>2. \A a, b, p : Leads(a, b, p)' <=> Leads(a, b, p)
  BY DEF Leads
<1>3. \A p : Ways(p)' = Ways(p)
  BY <1>1, <1>2 DEF Ways
<1>4. \A node, p : Reaches(node, p)' <=> Reaches(node, p)
  BY <1>3 DEF Reaches
<1>5. \A c, node, p : IsLeast(c, node, p)' <=> IsLeast(c, node, p)
  BY <1>3 DEF IsLeast
<1>6. \A costs : CostsAreLeast(costs)' <=> CostsAreLeast(costs)
  BY <1>4, <1>5 DEF CostsAreLeast
<1>. QED BY <1>1, <1>3, <1>4, <1>5, <1>6

\* A search begins at the origin.
SearchStarts ==
  /\ network \in Networks /\ origin \in DOMAIN network.stops /\ destination \in DOMAIN network.stops \ {origin}
  /\ searched \in 0..4
  /\ best = [node \in {Start} |-> 0] /\ prev = << >> /\ queue = {[cost |-> 0, node |-> Start]}

LEMMA SearchBegins == SearchStarts => SearchFits /\ \A p \in Weights : Settled(p)
<1>. SUFFICES ASSUME SearchStarts PROVE SearchFits /\ \A p : Settled(p)
  OBVIOUS
<1>. USE DEF SearchStarts
<1>1. DOMAIN best = {Start} /\ best[Start] = 0
  OBVIOUS
<1>2. Start \in Nodes(network)
  BY DEF Start, Nodes
<1>3. DOMAIN prev = {}
  OBVIOUS
<1>4. SearchFits
  BY <1>1, <1>2, <1>3 DEF SearchFits
<1>5. ASSUME NEW p
      PROVE  Settled(p)
  <2>1. \A v \in DOMAIN best : Open(v)
    BY <1>1 DEF Open
  <2>2. \A v \in DOMAIN best : \E w \in Ways(p) : End(w) = [node |-> v, cost |-> best[v]]
    BY <1>1, <1>2, StayingIsAWay
  <2>3. Target \notin DOMAIN best
    BY <1>1 DEF Start, Target
  <2>. QED BY <2>1, <2>2, <2>3 DEF Settled
<1>. QED BY <1>4, <1>5

LEMMA NextSearchBegins == SearchStarts' => (SearchFits /\ \A p \in Weights : Settled(p))'
BY SearchBegins, PTL

\* Dropping superseded entries, if any, changes nothing.
LEMMA SupersededEntries ==
  ASSUME PlannerInv, UNCHANGED <<network, origin, destination, searched, best, prev, plans>>,
         queue' \subseteq queue, \A e \in queue \ queue' : e.cost > best[e.node]
  PROVE  PlannerInv'
<1>. USE DEF PlannerInv
<1>1. searched < 4 => Preference' = Preference
  BY DEF Preference
<1>2. Start' = Start /\ Target' = Target
  BY DEF Start, Target
<1>3. SearchFits'
  BY <1>2 DEF SearchFits
<1>4. \A v : Open(v) => Open(v)'
  <2>1. \A e \in queue : e.cost = best[e.node] => e \in queue'
    BY DEF SearchFits
  <2>. QED BY <2>1 DEF Open
<1>5. \A v, p : Relaxed(v, p)' <=> Relaxed(v, p)
  BY DEF Relaxed
<1>6. \A p : Ways(p)' = Ways(p)
  BY WaysStay
<1>7. \A p : Settled(p) => Settled(p)'
  BY <1>2, <1>4, <1>5, <1>6 DEF Settled
<1>8. PlansFit'
  BY WaysStay DEF PlansFit, PlanIsRight
<1>. QED BY <1>1, <1>3, <1>7, <1>8

\* A search ends with a right answer, and the next begins.
LEMMA SearchEndsRight ==
  ASSUME PlannerInv, searched < 4, NEW result, SearchEnds(result),
         IF searched = 3 THEN CostsAreLeast(result)
         ELSE result = NoRoute <=> ~Reaches(Target, Preference)
  PROVE  PlannerInv'
<1>. USE DEF PlannerInv
<1>1. /\ UNCHANGED <<network, origin, destination>> /\ searched' = searched + 1
      /\ plans' = Append(plans, result)
  BY DEF SearchEnds
<1>2. Start' = Start /\ searched' \in 0..4
  BY <1>1 DEF Start, SearchFits
<1>3. /\ network' \in Networks /\ origin' \in DOMAIN network'.stops
      /\ destination' \in DOMAIN network'.stops \ {origin'}
      /\ best' = [node \in {Start'} |-> 0] /\ prev' = << >> /\ queue' = {[cost |-> 0, node |-> Start']}
  BY <1>1, <1>2 DEF SearchEnds, SearchFits
<1>4. SearchFits' /\ \A p \in Weights : Settled(p)'
  <2>1. SearchStarts'
    BY <1>2, <1>3 DEF SearchStarts
  <2>. QED BY <2>1, NextSearchBegins DEF Weights
<1>5. PICK S : plans \in Seq(S)
  BY DEF PlansFit
<1>6. /\ plans' \in Seq(S \cup {result}) /\ Len(plans') = searched'
      /\ \A i \in 1..searched : plans'[i] = plans[i]
      /\ plans'[searched + 1] = result
  <2>1. plans \in Seq(S \cup {result}) /\ Len(plans) = searched
    BY <1>5 DEF PlansFit
  <2>. QED BY <1>1, <2>1 DEF SearchFits
<1>7. ASSUME NEW i \in 1..searched'
      PROVE  PlanIsRight(i)'
  <2>1. CASE i \in 1..searched
    BY <1>1, <1>6, <2>1, WaysStay DEF PlanIsRight, PlansFit
  <2>2. CASE i = searched + 1
    <3>1. Preferences[i] = Preference /\ plans'[i] = result /\ (i = 4 <=> searched = 3)
      BY <1>6, <2>2 DEF Preference, SearchFits
    <3>. QED BY <1>1, <3>1, WaysStay DEF PlanIsRight
  <2>. QED BY <1>1, <2>1, <2>2 DEF SearchFits
<1>8. PlansFit'
  BY <1>6, <1>7 DEF PlansFit
<1>9. searched' < 4 => Preference' \in Weights
  BY <1>2, PreferenceIsOne DEF Preference
<1>. QED BY <1>4, <1>8, <1>9

\* The cheapest entry of a node is expanded: what its edges lead to becomes as
\* cheap as over them.
LEMMA ExpandReaches ==
  ASSUME PlannerFits, SearchFits, Preference \in Weights,
         NEW entry, entry \in queue, entry.cost = best[entry.node], Expand(entry)
  PROVE  \E relaxed \in SUBSET Edges(network, entry.node, Preference),
            reached \in SUBSET Nodes(network) :
           /\ reached = {e.to : e \in relaxed}
           /\ reached \cap {entry.node, Start} = {}
           /\ DOMAIN best' = DOMAIN best \cup reached /\ DOMAIN prev' = DOMAIN prev \cup reached
           /\ \A e \in relaxed : /\ e.weight \in Nat /\ best'[e.to] = entry.cost + e.weight
                                 /\ e.to \in DOMAIN best => best'[e.to] < best[e.to]
           /\ \A e \in Edges(network, entry.node, Preference) \ relaxed :
                e.weight \in Nat /\ e.to \in DOMAIN best /\ best[e.to] <= entry.cost + e.weight
           /\ \A v \in DOMAIN best \ reached : best'[v] = best[v]
           /\ queue' = (queue \ {entry}) \cup {[cost |-> best'[e.to], node |-> e.to] : e \in relaxed}
<1>. DEFINE edges == Edges(network, entry.node, Preference)
            relaxed == {e \in edges : e.to \notin DOMAIN best \/ entry.cost + e.weight < best[e.to]}
            reached == {e.to : e \in relaxed}
            Into(node) == CHOOSE e \in relaxed : e.to = node
<1>1. /\ best' = [node \in reached \cup DOMAIN best |->
                    IF node \in reached THEN entry.cost + Into(node).weight ELSE best[node]]
      /\ DOMAIN prev' = reached \cup DOMAIN prev
      /\ queue' = (queue \ {entry}) \cup {[cost |-> entry.cost + e.weight, node |-> e.to] : e \in relaxed}
  BY DEF Expand
<1>2. NetworkFits(network) /\ entry.node \in Nodes(network) /\ entry.node \in DOMAIN best
      /\ entry.cost \in Nat
  BY DEF PlannerFits, SearchFits
<1>3. \A e \in edges : e.to \in Nodes(network) /\ e.weight \in Nat
  BY <1>2, EdgesFit
<1>4. ASSUME NEW e \in relaxed
      PROVE  Into(e.to).weight = e.weight
  <2>1. Into(e.to) \in relaxed /\ Into(e.to).to = e.to
    OBVIOUS
  <2>. QED BY <1>2, <2>1, EdgesFit
<1>. HIDE DEF Into
<1>5. \A e \in relaxed : best'[e.to] = entry.cost + e.weight
  BY <1>1, <1>4
<1>6. \A v \in DOMAIN best : best[v] \in Nat
  BY DEF SearchFits
<1>7. ASSUME NEW e \in relaxed
      PROVE  e.to # entry.node /\ e.to # Start
  BY <1>2, <1>3 DEF SearchFits
<1>8. \A e \in relaxed : e.to \in DOMAIN best => best'[e.to] < best[e.to]
  BY <1>5
<1>9. \A e \in edges \ relaxed : e.to \in DOMAIN best /\ best[e.to] <= entry.cost + e.weight
  <2>. SUFFICES ASSUME NEW e \in edges \ relaxed
                PROVE  e.to \in DOMAIN best /\ best[e.to] <= entry.cost + e.weight
    OBVIOUS
  <2>1. e.to \in DOMAIN best /\ ~(entry.cost + e.weight < best[e.to])
    OBVIOUS
  <2>. QED BY <1>2, <1>3, <1>6, <2>1
<1>10. \A v \in DOMAIN best \ reached : best'[v] = best[v]
  BY <1>1
<1>11. queue' = (queue \ {entry}) \cup {[cost |-> best'[e.to], node |-> e.to] : e \in relaxed}
  BY <1>1, <1>5
<1>12. reached \subseteq Nodes(network) \ {entry.node, Start}
  BY <1>3, <1>7
<1>13. DOMAIN best' = DOMAIN best \cup reached
  BY <1>1
<1>14. relaxed \in SUBSET edges
  OBVIOUS
<1>15. \A e \in edges : e.weight \in Nat
  BY <1>3
<1>16. reached \in SUBSET Nodes(network) /\ reached \cap {entry.node, Start} = {}
  BY <1>12
<1>17. reached = {e.to : e \in relaxed}
  OBVIOUS
<1>. HIDE DEF relaxed, reached
<1>. QED BY <1>16, <1>17, <1>1, <1>5, <1>8, <1>9, <1>10, <1>11, <1>13, <1>14, <1>15

\* So what is invariant of the search stays so.
LEMMA ExpandKeeps ==
  ASSUME PlannerFits, PlannerInv, searched < 4, NEW entry, Cheapest(entry), Expand(entry)
  PROVE  PlannerInv'
<1>. USE DEF PlannerInv
<1>1. UNCHANGED <<network, origin, destination, searched, plans>>
  BY DEF Expand
<1>2. Preference \in Weights /\ Preference' = Preference /\ Start' = Start
  BY <1>1, PreferenceIsOne DEF Preference, Start, SearchFits
<1>3. entry \in queue /\ entry.node \in DOMAIN best /\ entry.cost \in Nat /\ entry.cost = best[entry.node]
  BY DEF Cheapest, SearchFits, Expand
<1>4. PICK relaxed \in SUBSET Edges(network, entry.node, Preference),
            reached \in SUBSET Nodes(network) :
           /\ reached = {e.to : e \in relaxed}
           /\ reached \cap {entry.node, Start} = {}
           /\ DOMAIN best' = DOMAIN best \cup reached /\ DOMAIN prev' = DOMAIN prev \cup reached
           /\ \A e \in relaxed : /\ e.weight \in Nat /\ best'[e.to] = entry.cost + e.weight
                                 /\ e.to \in DOMAIN best => best'[e.to] < best[e.to]
           /\ \A e \in Edges(network, entry.node, Preference) \ relaxed :
                e.weight \in Nat /\ e.to \in DOMAIN best /\ best[e.to] <= entry.cost + e.weight
           /\ \A v \in DOMAIN best \ reached : best'[v] = best[v]
           /\ queue' = (queue \ {entry}) \cup {[cost |-> best'[e.to], node |-> e.to] : e \in relaxed}
  BY <1>2, <1>3, ExpandReaches
<1>5. /\ \A v \in DOMAIN best : best[v] \in Nat /\ best'[v] \in Nat /\ best'[v] <= best[v]
      /\ \A v \in DOMAIN best' : v \in Nodes(network) /\ best'[v] \in Nat
  <2>1. \A v \in reached : \E e \in relaxed : v = e.to
    BY <1>4
  <2>2. \A v \in reached : best'[v] \in Nat /\ (v \in DOMAIN best => best'[v] < best[v])
    BY <1>3, <1>4, <2>1
  <2>3. \A v \in DOMAIN best : v \in Nodes(network) /\ best[v] \in Nat
    BY DEF SearchFits
  <2>. QED BY <1>4, <2>2, <2>3
<1>6. SearchFits'
  <2>1. Start \in DOMAIN best' /\ best'[Start] = 0 /\ DOMAIN prev' = DOMAIN best' \ {Start}
    BY <1>4 DEF SearchFits
  <2>2. \A e \in queue : e.node \in DOMAIN best' /\ e.cost \in Nat /\ e.cost >= best'[e.node]
    BY <1>4, <1>5 DEF SearchFits
  <2>3. \A e \in relaxed : e.to \in DOMAIN best' /\ best'[e.to] \in Nat
    BY <1>4, <1>5
  <2>4. \A e \in queue' : e.node \in DOMAIN best' /\ e.cost \in Nat /\ e.cost >= best'[e.node]
    BY <1>4, <2>2, <2>3
  <2>. QED BY <1>1, <1>2, <1>5, <2>1, <2>4 DEF SearchFits
<1>. DEFINE Fine(v) == \A e \in Edges(network, v, Preference) :
                         e.to \in DOMAIN best' /\ best'[e.to] <= best'[v] + e.weight
<1>7. ASSUME NEW v \in DOMAIN best'
      PROVE  Open(v)' \/ Fine(v)
  <2>1. CASE v \in reached
    <3>1. PICK e \in relaxed : v = e.to
      BY <1>4, <2>1
    <3>2. [cost |-> best'[v], node |-> v] \in queue'
      BY <1>4, <3>1
    <3>. QED BY <3>2 DEF Open
  <2>2. CASE v = entry.node
    <3>1. best'[v] = entry.cost
      BY <1>3, <1>4, <2>2
    <3>2. Fine(v)
      <4>. SUFFICES ASSUME NEW e \in Edges(network, v, Preference)
                    PROVE  e.to \in DOMAIN best' /\ best'[e.to] <= best'[v] + e.weight
        OBVIOUS
      <4>1. CASE e \in relaxed
        BY <1>3, <1>4, <3>1, <4>1
      <4>2. CASE e \notin relaxed
        <5>1. e.weight \in Nat /\ e.to \in DOMAIN best /\ best[e.to] <= entry.cost + e.weight
          BY <1>4, <2>2, <4>2
        <5>2. best'[e.to] <= best[e.to] /\ best'[e.to] \in Nat /\ best[e.to] \in Nat
          BY <1>5, <5>1
        <5>. QED BY <1>3, <1>4, <3>1, <5>1, <5>2
      <4>. QED BY <4>1, <4>2
    <3>. QED BY <3>2
  <2>3. CASE v \in DOMAIN best \ reached /\ v # entry.node /\ Open(v)
    <3>1. PICK e \in queue : e.node = v /\ e.cost = best[v]
      BY <2>3 DEF Open
    <3>. QED BY <1>4, <2>3, <3>1 DEF Open
  <2>4. CASE v \in DOMAIN best \ reached /\ ~Open(v)
    <3>1. Relaxed(v, Preference)
      BY <2>4 DEF Settled
    <3>2. best'[v] = best[v]
      BY <1>4, <2>4
    <3>3. ASSUME NEW e \in Edges(network, v, Preference)
          PROVE  e.to \in DOMAIN best' /\ best'[e.to] <= best'[v] + e.weight
      <4>1. e.to \in DOMAIN best /\ best[e.to] <= best[v] + e.weight
        BY <3>1 DEF Relaxed
      <4>2. e.weight \in Nat
        <5>1. NetworkFits(network) /\ v \in Nodes(network)
          BY <2>4 DEF PlannerFits, SearchFits
        <5>. QED BY <1>2, <5>1, EdgesFit
      <4>. QED BY <1>4, <1>5, <2>4, <3>2, <4>1, <4>2
    <3>. QED BY <3>3
  <2>. QED BY <1>4, <2>1, <2>2, <2>3, <2>4
<1>8. ASSUME NEW v \in DOMAIN best'
      PROVE  \E w \in Ways(Preference) : End(w) = [node |-> v, cost |-> best'[v]]
  <2>1. CASE v \in reached
    <3>1. PICK e \in relaxed : v = e.to
      BY <1>4, <2>1
    <3>2. PICK w \in Ways(Preference) : End(w) = [node |-> entry.node, cost |-> entry.cost]
      BY <1>3 DEF Settled
    <3>3. e \in Edges(network, End(w).node, Preference) /\ e.to \in Nodes(network) /\ e.weight \in Nat
          /\ End(w).cost + e.weight = best'[v]
      BY <1>4, <3>1, <3>2
    <3>. QED BY <3>1, <3>3, WaysGoOn
  <2>2. CASE v \in DOMAIN best \ reached
    BY <1>4, <2>2 DEF Settled
  <2>. QED BY <1>4, <2>1, <2>2
<1>9. Settled(Preference)'
  <2>1. Ways(Preference)' = Ways(Preference)
    BY <1>1, <1>2, WaysStay
  <2>2. \A v : Fine(v) => Relaxed(v, Preference)'
    BY <1>1, <1>2 DEF Relaxed
  <2>3. \A v \in DOMAIN best' : Open(v)' \/ Relaxed(v, Preference)'
    BY <1>7, <2>2
  <2>4. Preference # "everywhere" => entry.node # Target
    BY DEF Expand
  <2>5. Preference # "everywhere" /\ Target \in DOMAIN best' => Open(Target)'
    <3>. SUFFICES ASSUME Preference # "everywhere", Target \in DOMAIN best' PROVE Open(Target)'
      OBVIOUS
    <3>1. CASE Target \in reached
      <4>1. PICK e \in relaxed : Target = e.to
        BY <1>4, <3>1
      <4>2. [cost |-> best'[Target], node |-> Target] \in queue' /\ Target' = Target
        BY <1>1, <1>4, <4>1 DEF Target
      <4>. QED BY <4>2 DEF Open
    <3>2. CASE Target \in DOMAIN best \ reached
      <4>1. PICK e \in queue : e.node = Target /\ e.cost = best[Target]
        BY <3>2 DEF Settled, Open
      <4>2. e \in queue' /\ best'[Target] = best[Target] /\ Target' = Target
        BY <1>1, <1>4, <2>4, <3>2, <4>1 DEF Target
      <4>. QED BY <4>1, <4>2 DEF Open
    <3>. QED BY <1>4, <3>1, <3>2
  <2>6. Target' = Target
    BY <1>1 DEF Target
  <2>. QED BY <1>2, <1>8, <2>1, <2>3, <2>5, <2>6 DEF Settled
<1>10. PlansFit'
  BY <1>1, WaysStay DEF PlansFit, PlanIsRight
<1>. QED BY <1>1, <1>2, <1>6, <1>9, <1>10

LEMMA PlansAreRoutes == Plan # NoRoute
<1>1. "rides" \in DOMAIN Plan
  BY DEF Plan
<1>2. "rides" \notin DOMAIN NoRoute
  BY DEF NoRoute
<1>. QED BY <1>1, <1>2

\* The target comes out of the queue: there is a way to it.
LEMMA ArriveKeeps ==
  ASSUME PlannerFits, PlannerInv, searched < 4, NEW entry, Cheapest(entry), Arrive(entry)
  PROVE  PlannerInv'
<1>1. Preference # "everywhere" /\ entry.node = Target /\ entry \in queue /\ SearchEnds(Plan)
  BY DEF Arrive, Cheapest
<1>2. searched # 3
  BY <1>1, PreferenceIsOne DEF Preference, PlannerInv, SearchFits
<1>3. Target \in DOMAIN best
  BY <1>1 DEF PlannerInv, SearchFits
<1>4. Reaches(Target, Preference)
  <2>1. PICK w \in Ways(Preference) : End(w) = [node |-> Target, cost |-> best[Target]]
    BY <1>3 DEF PlannerInv, Settled
  <2>. QED BY <2>1 DEF Reaches
<1>. QED BY <1>1, <1>2, <1>4, PlansAreRoutes, SearchEndsRight

\* Nothing is left in the queue: what has no cost has no way to it.
LEMMA ExhaustKeeps ==
  ASSUME PlannerFits, PlannerInv, searched < 4, Exhaust
  PROVE  PlannerInv'
<1>1. Preference \in Weights /\ (Preference = "everywhere" <=> searched = 3)
  BY PreferenceIsOne DEF Preference, PlannerInv, SearchFits
<1>2. \A node : /\ node \in DOMAIN best <=> Reaches(node, Preference)
                /\ node \in DOMAIN best => IsLeast(best[node], node, Preference)
  BY <1>1, NothingIsLeftOut DEF Exhaust, PlannerInv
<1>3. CASE Preference = "everywhere"
  <2>1. SearchEnds(Costs)
    BY <1>3 DEF Exhaust
  <2>2. DOMAIN Costs = {node[2] : node \in {m \in DOMAIN best : m[1] = "at"}}
        /\ \A s \in DOMAIN Costs : Costs[s] = best[<<"at", s>>]
    BY DEF Costs
  <2>3. \A v \in DOMAIN best : v[1] = "at" => v[2] \in DOMAIN network.stops /\ v = <<"at", v[2]>>
    BY DEF PlannerInv, SearchFits, Nodes
  <2>4. \A s : s \in DOMAIN Costs <=> <<"at", s>> \in DOMAIN best
    BY <2>2, <2>3
  <2>5. CostsAreLeast(Costs)
    BY <1>2, <1>3, <2>2, <2>3, <2>4 DEF CostsAreLeast
  <2>. QED BY <1>1, <1>3, <2>1, <2>5, SearchEndsRight
<1>4. CASE Preference # "everywhere"
  <2>1. SearchEnds(NoRoute)
    BY <1>4 DEF Exhaust
  <2>2. Target \notin DOMAIN best
    BY <1>4 DEF PlannerInv, Settled, Open, Exhaust
  <2>. QED BY <1>1, <1>2, <1>4, <2>1, <2>2, SearchEndsRight
<1>. QED BY <1>3, <1>4

THEOREM PlannerInvariantHolds == PlannerFits => (Spec => []PlannerInv)
<1>. SUFFICES ASSUME PlannerFits PROVE Spec => []PlannerInv
  OBVIOUS
<1>1. Init => PlannerInv
  <2>. SUFFICES ASSUME Init PROVE PlannerInv
    OBVIOUS
  <2>1. SearchStarts
    BY DEF Init, Begins, SearchStarts, Start
  <2>2. Preference \in Weights
    BY PreferenceIsOne DEF Preference, Init
  <2>3. plans \in Seq({}) /\ Len(plans) = 0 /\ 1..0 = {}
    BY DEF Init
  <2>4. PlansFit
    BY <2>3 DEF PlansFit, Init
  <2>. QED BY <2>1, <2>2, <2>4, SearchBegins DEF PlannerInv
<1>2. ASSUME PlannerInv, [Next]_plannerVars
      PROVE  PlannerInv'
  <2>1. CASE UNCHANGED plannerVars
    BY <1>2, <2>1, SupersededEntries DEF plannerVars
  <2>2. ASSUME searched < 4, NEW entry \in queue, Cheapest(entry), Skip(entry) \/ Arrive(entry) \/ Expand(entry)
        PROVE  PlannerInv'
    <3>1. CASE Skip(entry)
      BY <1>2, <3>1, SupersededEntries DEF Skip
    <3>. QED BY <1>2, <2>2, <3>1, ArriveKeeps, ExpandKeeps
  <2>3. ASSUME searched < 4, Exhaust PROVE PlannerInv'
    BY <1>2, <2>3, ExhaustKeeps
  <2>4. Len(Preferences) = 4
    BY DEF Preferences
  <2>. QED BY <1>2, <2>1, <2>2, <2>3, <2>4 DEF Next
<1>. QED BY <1>1, <1>2, PTL DEF Spec

THEOREM PlannerKeepsTypes == PlannerFits => (Spec => []TypeOK)
<1>1. PlannerInv => TypeOK
  BY DEF PlannerInv, SearchFits, PlansFit, TypeOK, Preferences
<1>. QED BY <1>1, PlannerInvariantHolds, PTL

\* The node that a search takes out of its queue has no cheaper way to it: the
\* first path that arrives is a cheapest one, for every preference
\* (JourneyPlanner._dijkstra).
FirstOutIsLeast ==
  searched < Len(Preferences) =>
    \A entry : Cheapest(entry) /\ entry.cost <= best[entry.node] => IsLeast(entry.cost, entry.node, Preference)

THEOREM RoutesAreCheapest == PlannerFits => (Spec => []FirstOutIsLeast)
<1>. SUFFICES ASSUME PlannerFits PROVE Spec => []FirstOutIsLeast
  OBVIOUS
<1>1. PlannerInv => FirstOutIsLeast
  <2>. SUFFICES ASSUME PlannerInv, searched < 4 PROVE FirstOutIsLeast
    BY DEF FirstOutIsLeast, Preferences
  <2>1. Preference \in Weights
    BY PreferenceIsOne DEF Preference, PlannerInv, SearchFits
  <2>. QED BY <2>1, FirstIsLeast DEF FirstOutIsLeast, PlannerInv
<1>. QED BY <1>1, PlannerInvariantHolds, PTL

\* When all is searched, every stop that can be reached has the time of a
\* quickest way to it and no other stop has one (travel_seconds_from), and each
\* preference finds a route if and only if there is one.
AnswersAreExact ==
  searched = Len(Preferences) =>
    /\ CostsAreLeast(plans[4])
    /\ \A i \in 1..3 : plans[i] = NoRoute <=> destination \notin DOMAIN plans[4]

THEOREM TravelTimesAreExact == PlannerFits => (Spec => []AnswersAreExact)
<1>. SUFFICES ASSUME PlannerFits PROVE Spec => []AnswersAreExact
  OBVIOUS
<1>1. PlannerInv => AnswersAreExact
  <2>. SUFFICES ASSUME PlannerInv, searched = 4 PROVE AnswersAreExact
    BY DEF AnswersAreExact, Preferences
  <2>1. CostsAreLeast(plans[4])
    BY DEF PlannerInv, PlansFit, PlanIsRight
  <2>2. destination \in DOMAIN plans[4] <=> Reaches(Target, "everywhere")
    <3>1. destination \in DOMAIN network.stops
      BY DEF PlannerInv, SearchFits
    <3>2. destination \in DOMAIN plans[4] => Reaches(Target, "everywhere")
      <4>. SUFFICES ASSUME destination \in DOMAIN plans[4] PROVE Reaches(Target, "everywhere")
        OBVIOUS
      <4>1. PICK w \in Ways("everywhere") : End(w) = [node |-> Target, cost |-> plans[4][destination]]
        BY <2>1 DEF CostsAreLeast, IsLeast, Target
      <4>. QED BY <4>1 DEF Reaches
    <3>. QED BY <2>1, <3>1, <3>2 DEF CostsAreLeast, Target
  <2>3. ASSUME NEW i \in 1..3
        PROVE  plans[i] = NoRoute <=> destination \notin DOMAIN plans[4]
    <3>1. plans[i] = NoRoute <=> ~Reaches(Target, Preferences[i])
      BY DEF PlannerInv, PlansFit, PlanIsRight
    <3>2. Preferences[i] \in Weights /\ "everywhere" \in Weights
      BY PreferenceIsOne DEF Weights
    <3>3. Reaches(Target, Preferences[i]) <=> Reaches(Target, "everywhere")
      BY <3>2, PreferencesReachTheSame DEF PlannerInv, SearchFits
    <3>. QED BY <2>2, <3>1, <3>3
  <2>. QED BY <2>1, <2>3 DEF AnswersAreExact
<1>. QED BY <1>1, PlannerInvariantHolds, PTL

-----------------------------------------------------------------------------
(***************************************************************************)
(* What is computed at one call.  Days are of any length, and so are lists *)
(* of trains, rows of a file and rides.                                    *)
(***************************************************************************)

\* The day of a time of that day.
LEMMA DaysOf ==
  ASSUME NEW d \in Nat, d > 0, NEW n \in Int, NEW t \in 0..(d - 1)
  PROVE  (n * d + t) \div d = n
OBVIOUS

\* Whatever the length of a day, a train gets the delay it has on the service
\* day it belongs to, also beyond midnight; a train too early for a service day
\* that has not begun gets none.  A plausible delay is less than half a day and
\* no trip arrives two days after the service day began (eta_engine.py,
\* _arrival_delay).
THEOREM DelaysAreOfTheirDay ==
  ASSUME DayLength \in Nat, DelayLimit \in Nat, 2 * DelayLimit < DayLength,
         NEW day \in Int, NEW arrives \in Nat, NEW delay \in (-DelayLimit)..DelayLimit,
         arrives + delay < 2 * DayLength
  PROVE  Trains!DelayIsOfItsDay(day, arrives, delay)
<1>. DEFINE eta == day * DayLength + arrives + delay
            Of(back) == eta - (((eta \div DayLength) - back) * DayLength + arrives)
<1>1. DayLength > 0 /\ day * DayLength \in Int /\ eta \in Int
  OBVIOUS
<1>2. (day + 1) * DayLength = day * DayLength + DayLength
      /\ (day - 1) * DayLength = day * DayLength - DayLength
      /\ (day - 2) * DayLength = day * DayLength - 2 * DayLength
  OBVIOUS
<1>3. CASE arrives + delay < 0
  <2>1. eta = (day - 1) * DayLength + (DayLength + arrives + delay)
    BY <1>1, <1>2
  <2>2. eta \div DayLength = day - 1
    BY <1>1, <1>3, <2>1, DaysOf
  <2>3. Of(0) = delay + DayLength /\ Of(1) = delay + 2 * DayLength
    BY <1>1, <1>2, <2>2
  <2>. QED BY <1>1, <1>3, <2>3 DEF Trains!DelayIsOfItsDay, Trains!Delay, Trains!Abs
<1>4. CASE arrives + delay >= 0 /\ arrives + delay < DayLength
  <2>1. eta \div DayLength = day
    BY <1>1, <1>4, DaysOf
  <2>3. Of(0) = delay /\ Of(1) = delay + DayLength
    BY <1>1, <1>2, <2>1
  <2>. QED BY <1>1, <1>4, <2>3 DEF Trains!DelayIsOfItsDay, Trains!Delay, Trains!Abs
<1>5. CASE arrives + delay >= DayLength
  <2>1. eta \div DayLength = day + 1
    <3>1. eta = (day + 1) * DayLength + (arrives + delay - DayLength)
      BY <1>1, <1>2
    <3>. QED BY <1>1, <1>5, <3>1, DaysOf
  <2>3. Of(0) = delay - DayLength /\ Of(1) = delay
    BY <1>1, <1>2, <2>1
  <2>. QED BY <1>1, <1>5, <2>3 DEF Trains!DelayIsOfItsDay, Trains!Delay, Trains!Abs
<1>. QED BY <1>3, <1>4, <1>5

\* FirstOf of an optional value and a value to fall back on.
LEMMA FirstOfTwo ==
  ASSUME NEW A, NEW b
  PROVE  IF A = {} THEN Feed!FirstOf(<<A, {b}>>) = b ELSE Feed!FirstOf(<<A, {b}>>) \in A
<1>. DEFINE values == <<A, {b}>>
            First(v) == \E k \in DOMAIN values : v \in values[k] /\ \A j \in 1..(k - 1) : values[j] = {}
<1>1. DOMAIN values = {1, 2} /\ values[1] = A /\ values[2] = {b}
  OBVIOUS
<1>2. UNION Feed!ToSet(values) = A \cup {b}
  BY <1>1 DEF Feed!ToSet
<1>3. \A v : First(v) <=> IF A = {} THEN v = b ELSE v \in A
  <2>. SUFFICES ASSUME NEW v PROVE First(v) <=> IF A = {} THEN v = b ELSE v \in A
    OBVIOUS
  <2>1. 1..(1 - 1) = {} /\ 1..(2 - 1) = {1}
    OBVIOUS
  <2>2. First(v) <=> (v \in values[1] /\ \A j \in 1..(1 - 1) : values[j] = {})
                     \/ (v \in values[2] /\ \A j \in 1..(2 - 1) : values[j] = {})
    BY <1>1
  <2>. QED BY <1>1, <2>1, <2>2
<1>4. Feed!FirstOf(values) = CHOOSE v \in A \cup {b} : First(v)
  BY <1>2 DEF Feed!FirstOf
<1>. HIDE DEF values, First
<1>. QED BY <1>3, <1>4 DEF values

\* A row of the list of trains with its position and its mark renewed.
LEMMA RowChanges ==
  ASSUME NEW a, NEW b, NEW c, NEW d, NEW e, NEW f
  PROVE  [[position |-> a, stale |-> b, resolved |-> c, context |-> d] EXCEPT !.position = e, !.stale = f]
           = [position |-> e, stale |-> f, resolved |-> c, context |-> d]
<1>. DEFINE r == [position |-> a, stale |-> b, resolved |-> c, context |-> d]
            new == [r EXCEPT !.position = e, !.stale = f]
            due == [position |-> e, stale |-> f, resolved |-> c, context |-> d]
<1>1. DOMAIN r = {"position", "stale", "resolved", "context"}
  OBVIOUS
<1>2. DOMAIN new = DOMAIN r /\ DOMAIN due = DOMAIN r
  OBVIOUS
<1>3. r.resolved = c /\ r.context = d
  OBVIOUS
<1>4. new = [x \in DOMAIN r |-> IF x = "stale" THEN f ELSE IF x = "position" THEN e ELSE r[x]]
  BY <1>1
<1>5. due = [x \in DOMAIN r |-> IF x = "stale" THEN f ELSE IF x = "position" THEN e ELSE r[x]]
  BY <1>1, <1>3
<1>. QED BY <1>4, <1>5

\* Whatever the cache remembers and whatever time it is, every train is listed
\* where the snapshot has it and stale exactly if it is; and unless a cached
\* state is of another position of that very time, the list is the one without
\* a cache (train_service.py, list_trains, _cached_if_fresh).
THEOREM TrainsAreShownAsAssembled ==
  ASSUME NEW snapshot, NEW before, NEW contexts, NEW labels, NEW now \in Int, NEW staleAfter \in Int,
         \A v \in DOMAIN snapshot : snapshot[v].at \in Int
  PROVE  Feed!TrainsAreRight(snapshot, before, contexts, labels, now, staleAfter)
<1>. DEFINE cache == [v \in DOMAIN before |-> Feed!Assemble(before[v], contexts, labels, before[v].at, staleAfter)]
            shown(v) == Feed!ListTrains(snapshot, cache, contexts, labels, now, staleAfter)[v]
            fresh(v) == Feed!Assemble(snapshot[v], contexts, labels, now, staleAfter)
            cached(v) == Feed!CachedIfFresh({cache[w] : w \in {v} \cap DOMAIN cache}, snapshot[v], now, staleAfter)
            sameTime(v) == v \in DOMAIN before /\ before[v].at = snapshot[v].at
<1>. SUFFICES ASSUME NEW v \in DOMAIN snapshot
              PROVE  /\ shown(v).position = snapshot[v] /\ (shown(v).stale <=> snapshot[v].at + staleAfter < now)
                     /\ (~sameTime(v) \/ before[v] = snapshot[v]) => shown(v) = fresh(v)
  BY Zenon DEF Feed!TrainsAreRight
<1>. DEFINE late(at) == now - at > staleAfter
            context(p) == IF p.trip \in DOMAIN contexts THEN contexts[p.trip]
                          ELSE IF p.route \in DOMAIN labels THEN labels[p.route] ELSE "none"
            Row(p, stale) == [position |-> p, stale |-> stale, resolved |-> p.trip \in DOMAIN contexts,
                              context |-> context(p)]
<1>0. late(snapshot[v].at) <=> snapshot[v].at + staleAfter < now
  OBVIOUS
<1>1. shown(v) = Feed!FirstOf(<<cached(v), {fresh(v)}>>)
  BY DEF Feed!ListTrains
<1>2. fresh(v) = Row(snapshot[v], late(snapshot[v].at))
  BY Zenon DEF Feed!Assemble
<1>3. \A w \in DOMAIN before : \E stale : cache[w] = Row(before[w], stale)
  BY Zenon DEF Feed!Assemble
<1>4. DOMAIN cache = DOMAIN before
  OBVIOUS
<1>. HIDE DEF cache, late, context
<1>5. \A w \in DOMAIN before : cache[w].position = before[w]
  <2>. SUFFICES ASSUME NEW w \in DOMAIN before PROVE cache[w].position = before[w]
    OBVIOUS
  <2>1. PICK stale : cache[w] = Row(before[w], stale)
    BY <1>3
  <2>. QED BY <2>1
<1>6. CASE ~sameTime(v)
  <2>1. {s \in {cache[w] : w \in {v} \cap DOMAIN cache} : s.position.at = snapshot[v].at} = {}
    BY <1>4, <1>5, <1>6
  <2>2. cached(v) = {}
    BY <2>1, Zenon DEF Feed!CachedIfFresh
  <2>3. shown(v) = fresh(v)
    BY <1>1, <2>2, FirstOfTwo
  <2>. HIDE DEF shown, fresh
  <2>4. shown(v).position = snapshot[v] /\ shown(v).stale = late(snapshot[v].at)
    BY <1>2, <2>3
  <2>. QED BY <1>0, <1>6, <2>3, <2>4 DEF late
<1>7. CASE sameTime(v)
  <2>. DEFINE renewed == [cache[v] EXCEPT !.position = snapshot[v], !.stale = late(snapshot[v].at)]
  <2>1. {s \in {cache[w] : w \in {v} \cap DOMAIN cache} : s.position.at = snapshot[v].at} = {cache[v]}
    BY <1>4, <1>5, <1>7
  <2>2. cached(v) = {renewed}
    BY <2>1, Zenon DEF Feed!CachedIfFresh, late
  <2>3. shown(v) = renewed
    BY <1>1, <2>2, FirstOfTwo
  <2>4. PICK stale : cache[v] = Row(before[v], stale)
    BY <1>3, <1>7
  <2>5. renewed = [position |-> snapshot[v], stale |-> late(snapshot[v].at),
                   resolved |-> before[v].trip \in DOMAIN contexts, context |-> context(before[v])]
    <3>1. renewed = [Row(before[v], stale) EXCEPT !.position = snapshot[v], !.stale = late(snapshot[v].at)]
      BY <2>4
    <3>2. PICK resolved : resolved = (before[v].trip \in DOMAIN contexts)
      OBVIOUS
    <3>3. PICK lateNow : lateNow = late(snapshot[v].at)
      OBVIOUS
    <3>4. Row(before[v], stale) = [position |-> before[v], stale |-> stale, resolved |-> resolved,
                                   context |-> context(before[v])]
      BY Zenon, <3>2
    <3>5. renewed = [[position |-> before[v], stale |-> stale, resolved |-> resolved,
                      context |-> context(before[v])] EXCEPT !.position = snapshot[v], !.stale = lateNow]
      BY Zenon, <3>1, <3>3, <3>4
    <3>. HIDE DEF renewed
    <3>6. renewed = [position |-> snapshot[v], stale |-> lateNow, resolved |-> resolved,
                     context |-> context(before[v])]
      BY <3>5, RowChanges, Zenon
    <3>. QED BY Zenon, <3>2, <3>3, <3>6
  <2>. HIDE DEF shown, fresh, renewed
  <2>6. renewed.position = snapshot[v] /\ renewed.stale = late(snapshot[v].at)
    BY <2>5
  <2>7. before[v] = snapshot[v] => renewed = Row(snapshot[v], late(snapshot[v].at))
    BY <2>5, Zenon
  <2>. QED BY <1>0, <1>2, <1>7, <2>3, <2>6, <2>7 DEF late
<1>. QED BY <1>6, <1>7

\* The larger and the smaller of two integers.
LEMMA MaxOfTwo ==
  ASSUME NEW a \in Int, NEW b \in Int
  PROVE  Max({a, b}) = (IF a < b THEN b ELSE a) /\ Min({a, b}) = (IF a < b THEN a ELSE b)
BY DEF Max, Min

\* The greatest of one.
LEMMA MaxOfOne == ASSUME NEW a \in Int PROVE Max({a}) = a
BY DEF Max

\* A refined delay differs from the estimate by the floor, or by half of the
\* estimate, at most: it never makes a late train early or an early one late
\* when the estimate was worth mentioning, adds no observation, and refines
\* nothing that was not observed (llm_delay_refiner.py, estimate).
THEOREM RefinementsAreBounded ==
  ASSUME Floor \in Nat, NEW baseline \in [delay : Int, samples : Nat], NEW refined \in Int
  PROVE  LET told == Commutes!Enhanced(baseline, {refined})
             gap == Commutes!Gap(told.delay, baseline.delay)
         IN /\ told.samples = baseline.samples
            /\ gap <= Floor \/ 2 * gap <= Commutes!Gap(baseline.delay, 0)
            /\ baseline.samples = 0 => told = baseline
            /\ baseline.delay >= Floor => told.delay >= 0
            /\ baseline.delay <= -Floor => told.delay <= 0
<1>1. \A S : Commutes!Max(S) = Max(S) /\ Commutes!Min(S) = Min(S)
  BY DEF Commutes!Max, Commutes!Min, Max, Min
<1>. DEFINE half == Commutes!Gap(baseline.delay, 0) \div 2
            bound == Max({Floor, half})
            Bounded(d) == Max({-bound, Min({bound, d})})
            told == Commutes!Enhanced(baseline, {refined})
<1>2. half \in Nat /\ 2 * half <= Commutes!Gap(baseline.delay, 0)
  BY DEF Commutes!Gap
<1>3. bound \in Nat /\ bound >= Floor /\ bound >= half /\ (bound = Floor \/ bound = half)
  BY <1>2, MaxOfTwo
<1>6. told = IF baseline.samples = 0 THEN baseline
             ELSE [baseline EXCEPT !.delay = @ + Bounded(refined - @)]
  <2>1. Max({refined}) = refined
    BY MaxOfOne
  <2>. QED BY <1>1, <2>1 DEF Commutes!Enhanced
<1>. HIDE DEF half, bound
<1>4. \A d \in Int : Bounded(d) \in Int /\ -bound <= Bounded(d) /\ Bounded(d) <= bound
  <2>. SUFFICES ASSUME NEW d \in Int PROVE Bounded(d) \in Int /\ -bound <= Bounded(d) /\ Bounded(d) <= bound
    OBVIOUS
  <2>1. Min({bound, d}) = IF bound < d THEN bound ELSE d
    <3>1. bound \in Int
      BY <1>3
    <3>. QED BY <3>1, MaxOfTwo
  <2>2. Min({bound, d}) \in Int /\ Min({bound, d}) <= bound
    BY <1>3, <2>1
  <2>3. Bounded(d) = IF -bound < Min({bound, d}) THEN Min({bound, d}) ELSE -bound
    BY <1>3, <2>2, MaxOfTwo
  <2>. HIDE DEF Bounded
  <2>. QED BY <1>3, <2>2, <2>3
<1>. HIDE DEF half, Bounded, told
<1>7. baseline.delay \in Int /\ refined - baseline.delay \in Int
  OBVIOUS
<1>8. told.samples = baseline.samples /\ (baseline.samples = 0 => told = baseline)
  BY <1>6
<1>9. \E d \in Int : told.delay = baseline.delay + d /\ -bound <= d /\ d <= bound
  BY <1>3, <1>4, <1>6, <1>7
<1>10. bound = Floor \/ 2 * bound <= Commutes!Gap(baseline.delay, 0)
  BY <1>2, <1>3
<1>11. Commutes!Gap(told.delay, baseline.delay) <= bound
  BY <1>3, <1>7, <1>9 DEF Commutes!Gap
<1>12. /\ Commutes!Gap(told.delay, baseline.delay) <= Floor
          \/ 2 * Commutes!Gap(told.delay, baseline.delay) <= Commutes!Gap(baseline.delay, 0)
       /\ baseline.delay >= Floor => told.delay >= 0
       /\ baseline.delay <= -Floor => told.delay <= 0
  BY <1>3, <1>7, <1>9, <1>10, <1>11 DEF Commutes!Gap
<1>. QED BY <1>8, <1>12 DEF told

\* Of finitely many pairs of a place and a stop there is one and only one that
\* is closest and, of those, the first.
LEMMA ClosestIsOne ==
  ASSUME NEW places, DOMAIN places \in SUBSET Nat, \A k \in DOMAIN places : places[k] \in Int,
         NEW stops, DOMAIN stops \in SUBSET Nat, \A i \in DOMAIN stops : stops[i].at \in Int,
         DOMAIN places # {}, DOMAIN stops # {}
  PROVE  \E p \in (DOMAIN places) \X (DOMAIN stops) :
           /\ Matching!Nearest(places, stops) = {p}
           /\ \A q \in (DOMAIN places) \X (DOMAIN stops) :
                Matching!Far(places[p[1]], stops[p[2]].at) <= Matching!Far(places[q[1]], stops[q[2]].at)
<1>. DEFINE pairs == (DOMAIN places) \X (DOMAIN stops)
            Gap(p) == Matching!Far(places[p[1]], stops[p[2]].at)
            Before(p, q) == p[1] < q[1] \/ (p[1] = q[1] /\ p[2] <= q[2])
            gaps == {Gap(p) : p \in pairs}
            closest == Min(gaps)
            firsts == {p[1] : p \in {q \in pairs : Gap(q) = closest}}
            seconds == {p[2] : p \in {q \in pairs : Gap(q) = closest /\ q[1] = Min(firsts)}}
<1>1. pairs # {}
  <2>1. PICK k \in DOMAIN places, i \in DOMAIN stops : TRUE
    OBVIOUS
  <2>2. <<k, i>> \in pairs
    BY <2>1
  <2>. QED BY <2>2
<1>2. \A p \in pairs : p[1] \in Nat /\ p[2] \in Nat /\ Gap(p) \in Nat /\ p = <<p[1], p[2]>>
  BY DEF Matching!Far
<1>3. closest \in gaps /\ \A p \in pairs : closest <= Gap(p)
  <2>. HIDE DEF pairs, Gap
  <2>1. gaps \in SUBSET Nat /\ gaps # {}
    BY <1>1, <1>2
  <2>2. \A p \in pairs : Gap(p) \in gaps
    OBVIOUS
  <2>. HIDE DEF gaps
  <2>. QED BY <2>1, <2>2, LeastNatural
<1>. HIDE DEF pairs, Gap, closest
<1>4. Min(firsts) \in firsts /\ \A n \in firsts : Min(firsts) <= n
  <2>1. firsts \in SUBSET Nat /\ firsts # {}
    BY <1>2, <1>3
  <2>. QED BY <2>1, LeastNatural
<1>5. Min(seconds) \in seconds /\ \A n \in seconds : Min(seconds) <= n
  <2>1. seconds \in SUBSET Nat /\ seconds # {}
    <3>1. PICK q \in pairs : Gap(q) = closest /\ q[1] = Min(firsts)
      BY <1>4
    <3>2. q[2] \in seconds
      BY <3>1
    <3>. QED BY <1>2, <3>2
  <2>. QED BY <2>1, LeastNatural
<1>6. PICK p \in pairs : Gap(p) = closest /\ p[1] = Min(firsts) /\ p[2] = Min(seconds)
  BY <1>5
<1>7. \A q \in pairs : Gap(q) = closest => Before(p, q)
  <2>. SUFFICES ASSUME NEW q \in pairs, Gap(q) = closest PROVE Before(p, q)
    OBVIOUS
  <2>1. p[1] <= q[1]
    BY <1>4, <1>6
  <2>2. ASSUME p[1] = q[1] PROVE p[2] <= q[2]
    <3>1. q[2] \in seconds
      BY <1>6, <2>2
    <3>. QED BY <1>5, <1>6, <3>1
  <2>. QED BY <1>2, <2>1, <2>2
<1>8. \A q \in pairs : Before(p, q) /\ Before(q, p) => p = q
  <2>. SUFFICES ASSUME NEW q \in pairs, Before(p, q), Before(q, p) PROVE p = q
    OBVIOUS
  <2>1. p[1] = q[1] /\ p[2] = q[2]
    BY <1>2
  <2>2. p = <<p[1], p[2]>> /\ q = <<q[1], q[2]>>
    BY <1>2
  <2>. QED BY <2>1, <2>2
<1>. HIDE DEF firsts, seconds
<1>9. {q \in pairs : \A r \in pairs : Gap(q) < Gap(r) \/ (Gap(q) = Gap(r) /\ Before(q, r))} = {p}
  <2>1. \A r \in pairs : Gap(p) < Gap(r) \/ (Gap(p) = Gap(r) /\ Before(p, r))
    BY <1>2, <1>3, <1>6, <1>7
  <2>2. ASSUME NEW q \in pairs, \A r \in pairs : Gap(q) < Gap(r) \/ (Gap(q) = Gap(r) /\ Before(q, r))
        PROVE  q = p
    <3>1. Gap(q) = closest /\ Before(q, p)
      BY <1>2, <1>3, <1>6, <2>2
    <3>. QED BY <1>7, <1>8, <3>1
  <2>. HIDE DEF Before
  <2>. QED BY <2>1, <2>2
<1>10. Matching!Nearest(places, stops) = {p}
  BY <1>9 DEF Matching!Nearest, pairs, Gap
<1>. QED BY <1>3, <1>6, <1>10 DEF pairs, Gap

\* A row of an open-data file is matched by its name wherever its places are,
\* else with a stop that no stop is nearer than, measured from any of its places, unless
\* that is out of reach, and with one stop at most (station_exit_loader.py, match_gates).
THEOREM RowsFindTheirStop ==
  ASSUME Radius \in Int, NEW name,
         NEW places, DOMAIN places \in SUBSET Nat, \A k \in DOMAIN places : places[k] \in Int,
         NEW stops, DOMAIN stops \in SUBSET Nat, \A i \in DOMAIN stops : stops[i].at \in Int
  PROVE  /\ Matching!RightStop(name, places, stops, Matching!Match(name, places, stops))
         /\ \A a, b \in Matching!Match(name, places, stops) : a = b
<1>. DEFINE hits == {i \in DOMAIN stops : stops[i].name = name}
            found == Matching!Match(name, places, stops)
            near == Matching!NearestWithin(places, stops, Radius)
            bearing == Matching!Bearing(name, stops)
            reached == Matching!Reached(places, stops)
            closest == Matching!Closest(places, stops)
            Least(k) == \E p \in {places[n] : n \in DOMAIN places} :
                          \A q \in {places[n] : n \in DOMAIN places}, j \in DOMAIN stops :
                            Matching!Far(p, stops[k].at) <= Matching!Far(q, stops[j].at)
            Reach(k) == \E p \in {places[n] : n \in DOMAIN places} : Matching!Far(p, stops[k].at) <= Radius
<1>0. Matching!ToSet(places) = {places[k] : k \in DOMAIN places}
  BY DEF Matching!ToSet
<1>. HIDE DEF Least, Reach
<1>00. /\ bearing = {stops[i].id : i \in hits}
       /\ reached = {stops[i].id : i \in {k \in DOMAIN stops : Reach(k)}}
       /\ closest = {stops[i].id : i \in {k \in DOMAIN stops : Least(k)}}
  BY <1>0, Zenon DEF Matching!Bearing, Matching!Reached, Matching!Closest, Reach, Least
<1>1. CASE hits # {}
  <2>1. Matching!Min(hits) \in hits
    <3>1. hits \in SUBSET Nat
      OBVIOUS
    <3>2. Matching!Min(hits) = Min(hits)
      BY DEF Matching!Min, Min
    <3>. QED BY <1>1, <3>1, <3>2, LeastNatural
  <2>2. \E i \in hits : found = {stops[i].id}
    <3>1. Matching!Named(name, stops) = {stops[Matching!Min(hits)].id}
      BY <1>1 DEF Matching!Named
    <3>. QED BY <2>1, <3>1 DEF Matching!Match
  <2>3. found # {} /\ found \subseteq bearing /\ bearing # {}
    BY <1>00, <1>1, <2>2
  <2>4. Matching!RightStop(name, places, stops, found)
    BY <2>3 DEF Matching!RightStop
  <2>. QED BY <2>2, <2>4
<1>2. CASE hits = {}
  <2>1. found = near /\ bearing = {}
    BY <1>00, <1>2 DEF Matching!Match, Matching!Named
  <2>2. /\ (found = {} <=> reached = {}) /\ found \subseteq reached \cap closest
        /\ \A a, b \in found : a = b
    <3>1. CASE DOMAIN places = {} \/ DOMAIN stops = {}
      <4>1. (DOMAIN places) \X (DOMAIN stops) = {}
        BY <3>1
      <4>2. near = {}
        BY <4>1 DEF Matching!NearestWithin, Matching!Nearest
      <4>3. reached = {}
        BY <1>00, <3>1 DEF Reach
      <4>. QED BY <2>1, <4>2, <4>3
    <3>2. CASE DOMAIN places # {} /\ DOMAIN stops # {}
      <4>1. PICK p \in (DOMAIN places) \X (DOMAIN stops) :
              /\ Matching!Nearest(places, stops) = {p}
              /\ \A q \in (DOMAIN places) \X (DOMAIN stops) :
                   Matching!Far(places[p[1]], stops[p[2]].at) <= Matching!Far(places[q[1]], stops[q[2]].at)
        BY <3>2, ClosestIsOne
      <4>2. near = {stops[q[2]].id : q \in {r \in {p} : Matching!Far(places[r[1]], stops[r[2]].at) <= Radius}}
        BY <4>1 DEF Matching!NearestWithin
      <4>3. \A k \in DOMAIN places, i \in DOMAIN stops : Matching!Far(places[k], stops[i].at) \in Int
        BY DEF Matching!Far
      <4>4. CASE Matching!Far(places[p[1]], stops[p[2]].at) <= Radius
        <5>1. near = {stops[p[2]].id}
          BY <4>2, <4>4
        <5>2. Reach(p[2])
          BY <4>1, <4>4 DEF Reach
        <5>3. stops[p[2]].id \in reached
          BY <1>00, <4>1, <5>2
        <5>4. found = {stops[p[2]].id}
          BY <2>1, <5>1
        <5>5. stops[p[2]].id \in closest
          <6>1. p[1] \in DOMAIN places /\ p[2] \in DOMAIN stops
            OBVIOUS
          <6>2. ASSUME NEW k \in DOMAIN places, NEW j \in DOMAIN stops
                PROVE  Matching!Far(places[p[1]], stops[p[2]].at) <= Matching!Far(places[k], stops[j].at)
            <7>1. <<k, j>> \in (DOMAIN places) \X (DOMAIN stops)
              OBVIOUS
            <7>2. <<k, j>>[1] = k /\ <<k, j>>[2] = j
              OBVIOUS
            <7>. QED BY <4>1, <7>1, <7>2
          <6>3. Least(p[2])
            BY <6>1, <6>2 DEF Least
          <6>. QED BY <1>00, <6>1, <6>3
        <5>. QED BY <5>3, <5>4, <5>5
      <4>5. CASE ~(Matching!Far(places[p[1]], stops[p[2]].at) <= Radius)
        <5>1. near = {}
          BY <4>2, <4>5
        <5>2. \A k \in DOMAIN places, i \in DOMAIN stops : ~(Matching!Far(places[k], stops[i].at) <= Radius)
          <6>. TAKE k \in DOMAIN places, i \in DOMAIN stops
          <6>1. Matching!Far(places[p[1]], stops[p[2]].at) <= Matching!Far(places[k], stops[i].at)
            <7>1. <<k, i>> \in (DOMAIN places) \X (DOMAIN stops)
              OBVIOUS
            <7>2. <<k, i>>[1] = k /\ <<k, i>>[2] = i
              OBVIOUS
            <7>. QED BY <4>1, <7>1, <7>2
          <6>. QED BY <4>1, <4>3, <4>5, <6>1
        <5>3. reached = {}
          BY <1>00, <5>2 DEF Reach
        <5>. QED BY <2>1, <5>1, <5>3
      <4>. QED BY <4>4, <4>5
    <3>. QED BY <3>1, <3>2
  <2>3. Matching!RightStop(name, places, stops, found)
    BY <2>1, <2>2 DEF Matching!RightStop
  <2>. QED BY <2>2, <2>3
<1>. QED BY <1>1, <1>2

\* Of the stations of a ride there is one that is nearest to a place.
LEMMA NearestIsThere ==
  ASSUME NEW stations \in Seq(Int), stations # <<>>, NEW place \in Int
  PROVE  /\ Tracking!NearestStation(stations, place) \in DOMAIN stations
         /\ \A j \in DOMAIN stations :
              Tracking!Distance(stations[Tracking!NearestStation(stations, place)], place)
                <= Tracking!Distance(stations[j], place)
<1>. DEFINE far(i) == Tracking!Distance(stations[i], place)
            gaps == {far(i) : i \in DOMAIN stations}
            nearest == {i \in DOMAIN stations : far(i) = Min(gaps)}
<1>1. DOMAIN stations \in SUBSET Nat /\ DOMAIN stations # {} /\ \A i \in DOMAIN stations : far(i) \in Nat
  <2>1. DOMAIN stations = 1..Len(stations) /\ Len(stations) \in Nat
    OBVIOUS
  <2>2. Len(stations) # 0
    OBVIOUS
  <2>3. 1 \in DOMAIN stations
    BY <2>1, <2>2
  <2>4. \A i \in DOMAIN stations : stations[i] \in Int
    OBVIOUS
  <2>. QED BY <2>1, <2>3, <2>4 DEF Tracking!Distance
<1>. HIDE DEF far
<1>2. gaps \in SUBSET Nat /\ gaps # {} /\ \A i \in DOMAIN stations : far(i) \in gaps
  BY <1>1
<1>. HIDE DEF gaps
<1>3. Min(gaps) \in gaps /\ \A i \in DOMAIN stations : Min(gaps) <= far(i)
  BY <1>2, LeastNatural
<1>4. nearest \in SUBSET Nat /\ nearest # {}
  BY <1>1, <1>3 DEF gaps
<1>5. Min(nearest) \in nearest /\ \A j \in nearest : Min(nearest) <= j
  BY <1>4, LeastNatural
<1>6. \E i \in DOMAIN stations : \A j \in DOMAIN stations : far(i) < far(j) \/ (far(i) = far(j) /\ i <= j)
  <2>. SUFFICES ASSUME NEW j \in DOMAIN stations
                PROVE  LET i == Min(nearest) IN far(i) < far(j) \/ (far(i) = far(j) /\ i <= j)
    BY <1>5
  <2>1. far(Min(nearest)) = Min(gaps) /\ Min(gaps) \in Nat /\ far(j) \in Nat /\ Min(gaps) <= far(j)
    BY <1>1, <1>2, <1>3, <1>5
  <2>2. far(j) = Min(gaps) => Min(nearest) <= j
    BY <1>5
  <2>. QED BY <2>1, <2>2
<1>7. LET i == Tracking!NearestStation(stations, place) IN
      i \in DOMAIN stations /\ \A j \in DOMAIN stations : far(i) < far(j) \/ (far(i) = far(j) /\ i <= j)
  BY <1>6 DEF Tracking!NearestStation, far
<1>8. \A j \in DOMAIN stations : far(Tracking!NearestStation(stations, place)) <= far(j)
  BY <1>1, <1>7
<1>. QED BY <1>7, <1>8 DEF far

\* What progress becomes of a set of claims.
LEMMA FurtherIs ==
  ASSUME NEW stations \in Seq(Int), NEW reached \in 0..Len(stations),
         NEW claims \in SUBSET Nat, IsFiniteSet(claims)
  PROVE  LET after == Tracking!Further(stations, reached, claims) IN
         /\ after \in reached..Len(stations)
         /\ after > reached => after \in claims \/ (after = Len(stations) /\ \E c \in claims : c > Len(stations))
         /\ \A c \in claims : c <= Len(stations) => c <= after
<1>. DEFINE most == Max({reached} \cup claims)
            len == Len(stations)
<1>1. IsFiniteSet({reached} \cup claims) /\ {reached} \cup claims # {} /\ {reached} \cup claims \in SUBSET Int
  <2>1. IsFiniteSet({reached})
    BY FS_Singleton
  <2>2. IsFiniteSet({reached} \cup claims)
    BY <2>1, FS_Union
  <2>3. reached \in Int
    OBVIOUS
  <2>. QED BY <2>2, <2>3
<1>2. most \in {reached} \cup claims /\ \A c \in {reached} \cup claims : c <= most
  BY <1>1, FiniteHasMax
<1>. HIDE DEF most
<1>3. len \in Nat /\ most \in Nat /\ reached \in Nat
  <2>1. len \in Nat /\ reached \in Nat
    OBVIOUS
  <2>. HIDE DEF len
  <2>. QED BY <1>2, <2>1
<1>. HIDE DEF len
<1>4. Min({len, most}) = IF len < most THEN len ELSE most
  <2>1. len \in Int /\ most \in Int
    BY <1>3
  <2>. QED BY <2>1, MaxOfTwo
<1>5. Tracking!Further(stations, reached, claims) = Min({len, most})
  BY DEF Tracking!Further, Tracking!Min, Tracking!Max, Min, Max, len, most
<1>6. reached <= len
  BY DEF len
<1>. DEFINE after == Min({len, most})
<1>. HIDE DEF after
<1>7. /\ after \in reached..len
      /\ after > reached => after \in claims \/ (after = len /\ \E c \in claims : c > len)
      /\ \A c \in claims : c <= len => c <= after
  <2>1. reached <= most /\ (most = reached \/ most \in claims) /\ \A c \in claims : c \in Nat /\ c <= most
    BY <1>2
  <2>2. after = IF len < most THEN len ELSE most
    BY <1>4 DEF after
  <2>. QED BY <1>3, <1>6, <2>1, <2>2
<1>. QED BY <1>5, <1>7 DEF len, after

\* However many stations a ride has, wherever they lie and whatever the fix, an
\* update never takes progress back, and moves it on only to a station that a
\* fresh and decisive fix is at, or by a count or the timetable; at the last
\* station no stop remains, and only a fix near the next one says that it is
\* near (journey_tracking.dart, JourneyTracker.update, _build).
THEOREM UpdatesAreHonest ==
  ASSUME ArrivalRadius \in Nat, ApproachRadius \in Nat, MaxAccuracy \in Nat, MaxFixAge \in Nat,
         NEW stations \in Seq(Int), \A i, j \in DOMAIN stations : stations[i] = stations[j] => i = j,
         NEW reached \in 0..Len(stations),
         NEW ask \in [fix : SUBSET [place : Int, accuracy : Nat, at : Int], counted : SUBSET Nat,
                      scheduled : SUBSET Nat, now : Int],
         \A f, g \in ask.fix : f = g, IsFiniteSet(ask.counted), IsFiniteSet(ask.scheduled)
  PROVE  Tracking!UpdateIsHonest(stations, reached, Tracking!Update(stations, reached, ask), ask)
<1>. DEFINE update == Tracking!Update(stations, reached, ask)
            fresh == {f \in ask.fix : f.at \in (ask.now - MaxFixAge)..ask.now}
            quality == Tracking!FixQuality(stations, ask.fix, ask.now)
            shown == Tracking!Shown(stations, update)
            len == Len(stations)
<1>1. CASE stations = <<>>
  <2>1. update = [reached |-> reached, source |-> "schedule", metres |-> {}] /\ len = 0 /\ DOMAIN stations = {}
    BY <1>1 DEF Tracking!Update
  <2>2. shown.next = {} /\ ~shown.approaching
    BY <2>1 DEF Tracking!Shown
  <2>3. update.reached = reached /\ reached = 0
    BY <2>1
  <2>. HIDE DEF update, shown
  <2>. QED BY <2>2, <2>3 DEF Tracking!UpdateIsHonest, update, shown
<1>. DEFINE Fits(f) == f.accuracy <= MaxAccuracy
            near == Tracking!NearestStation(stations, (CHOOSE f \in ask.fix : TRUE).place)
<1>2. ASSUME NEW f \in ask.fix
      PROVE  /\ ask.fix # {} /\ (CHOOSE g \in ask.fix : TRUE) = f
             /\ f.place \in Int /\ f.accuracy \in Nat /\ f.at \in Int /\ ask.now \in Int
             /\ f \in fresh <=> ~(ask.now < f.at \/ ask.now - f.at > MaxFixAge)
             /\ quality = IF f \notin fresh THEN "none" ELSE IF Fits(f) THEN "gps"
                          ELSE IF Tracking!Decisive(stations, f) THEN "approximate" ELSE "none"
  <2>1. ask.fix # {} /\ (CHOOSE g \in ask.fix : TRUE) = f
    OBVIOUS
  <2>2. f.place \in Int /\ f.accuracy \in Nat /\ f.at \in Int /\ ask.now \in Int
    OBVIOUS
  <2>3. f \in fresh <=> ~(ask.now < f.at \/ ask.now - f.at > MaxFixAge)
    BY <2>2
  <2>. HIDE DEF fresh
  <2>4. quality = IF f \notin fresh THEN "none" ELSE IF Fits(f) THEN "gps"
                  ELSE IF Tracking!Decisive(stations, f) THEN "approximate" ELSE "none"
    BY <2>1, <2>3 DEF Tracking!FixQuality
  <2>. QED BY <2>1, <2>2, <2>3, <2>4
<1>3. \A f \in ask.fix : f \in fresh /\ Fits(f) => quality = "gps"
  BY <1>2
<1>4. ask.fix = {} => quality = "none"
  BY DEF Tracking!FixQuality
<1>. HIDE DEF quality
<1>5. CASE stations # <<>> /\ quality = "none"
  <2>. DEFINE byCount == {n + 1 : n \in ask.counted}
              claims == IF \E n \in byCount : n > reached THEN byCount ELSE {n + 1 : n \in ask.scheduled}
  <2>1. claims \in SUBSET Nat /\ IsFiniteSet(claims)
    <3>1. \A S \in SUBSET Nat : IsFiniteSet(S) => IsFiniteSet({n + 1 : n \in S})
      <4>. SUFFICES ASSUME NEW S \in SUBSET Nat, IsFiniteSet(S) PROVE IsFiniteSet({n + 1 : n \in S})
        OBVIOUS
      <4>. DEFINE next == [n \in S |-> n + 1]
                  T == {n + 1 : n \in S}
      <4>1. next \in Surjection(S, T)
        BY DEF Surjection
      <4>. HIDE DEF next, T
      <4>2. IsFiniteSet(T)
        BY <4>1, FS_Surjection
      <4>. QED BY <4>2 DEF T
    <3>2. byCount \in SUBSET Nat /\ {n + 1 : n \in ask.scheduled} \in SUBSET Nat
      OBVIOUS
    <3>. QED BY <3>1, <3>2
  <2>2. /\ update.reached = Tracking!Further(stations, reached, claims)
        /\ update.source \in {"stopCount", "schedule"} /\ update.metres = {}
    BY <1>5 DEF Tracking!Update, Tracking!WithoutFix, quality
  <2>3. \A c \in claims : \E n \in ask.counted \cup ask.scheduled : c = n + 1
    OBVIOUS
  <2>. HIDE DEF claims, update
  <2>4. /\ update.reached \in reached..len
        /\ update.reached > reached => update.reached \in claims \/ (update.reached = len /\ \E c \in claims : c > len)
    <3>. DEFINE after == Tracking!Further(stations, reached, claims)
    <3>1. /\ after \in reached..Len(stations)
          /\ after > reached => after \in claims \/ (after = Len(stations) /\ \E c \in claims : c > Len(stations))
      BY <2>1, FurtherIs
    <3>. HIDE DEF after
    <3>2. update.reached = after
      BY <2>2 DEF after
    <3>. QED BY <3>1, <3>2
  <2>5. reached <= update.reached
    BY <2>4
  <2>8. update.reached > reached => \E n \in ask.counted \cup ask.scheduled : update.reached \in {n + 1, len}
    BY <2>3, <2>4
  <2>9. ~shown.approaching
    BY <2>2 DEF Tracking!Shown
  <2>10. \A f \in fresh : ~Fits(f)
    BY <1>3, <1>5
  <2>. HIDE DEF shown
  <2>. QED BY <2>5, <2>8, <2>9, <2>10 DEF Tracking!UpdateIsHonest, update, shown
<1>6. CASE stations # <<>> /\ quality # "none"
  <2>1. PICK f \in ask.fix : TRUE
    BY <1>4, <1>6
  <2>. DEFINE i == Tracking!NearestStation(stations, f.place)
              at == Tracking!Distance(stations[i], f.place)
              claims == IF at <= ArrivalRadius THEN {i} ELSE {}
              metres == {Tracking!Distance(f.place, stations[n]) : n \in {update.reached + 1} \cap DOMAIN stations}
  <2>2. f \in fresh /\ (Fits(f) \/ Tracking!Decisive(stations, f)) /\ \A g \in fresh : g = f
    BY <1>2, <1>6, <2>1
  <2>3. update = Tracking!WithFix(stations, reached, f.place, quality)
    BY <1>2, <1>6, <2>1 DEF Tracking!Update, quality
  <2>4. update.reached = Tracking!Further(stations, reached, claims)
    BY <2>3 DEF Tracking!WithFix
  <2>5. update.metres = metres
    BY <2>3, <2>4 DEF Tracking!WithFix
  <2>6. update.source = quality /\ quality \in {"gps", "approximate"}
    BY <1>2, <1>6, <2>1, <2>3 DEF Tracking!WithFix
  <2>. HIDE DEF update, fresh
  <2>7. i \in DOMAIN stations /\ \A j \in DOMAIN stations : at <= Tracking!Distance(stations[j], f.place)
    BY <1>2, <1>6, <2>1, NearestIsThere
  <2>8. claims \in SUBSET Nat /\ IsFiniteSet(claims)
    <3>1. i \in Nat
      BY <2>7
    <3>. QED BY <3>1, FS_Singleton, FS_EmptySet
  <2>. HIDE DEF i, metres, Fits
  <2>. DEFINE after == update.reached
  <2>9. /\ after \in reached..len
        /\ after > reached => after \in claims \/ (after = len /\ \E c \in claims : c > len)
        /\ \A c \in claims : c <= len => c <= after
    <3>. HIDE DEF claims
    <3>. QED BY <2>4, <2>8, FurtherIs
  <2>10. i \in 1..len /\ len \in Nat
    BY <2>7
  <2>11. after > reached => after = i /\ at <= ArrivalRadius
    BY <2>9, <2>10
  <2>12. reached <= after
    BY <2>9
  <2>13. after > reached =>
           /\ Tracking!Distance(stations[after], f.place) <= ArrivalRadius
           /\ f.accuracy <= MaxAccuracy \/ \A gap \in Tracking!Gaps(stations, after) : 2 * f.accuracy <= gap
    <3>1. Tracking!Decisive(stations, f) => \A gap \in Tracking!Gaps(stations, i) : 2 * f.accuracy <= gap
      <4>. SUFFICES ASSUME Tracking!Decisive(stations, f), NEW gap \in Tracking!Gaps(stations, i)
                    PROVE  2 * f.accuracy <= gap
        OBVIOUS
      <4>. DEFINE gaps == Tracking!Gaps(stations, i)
      <4>1. gaps \in SUBSET Nat
        BY <2>10 DEF Tracking!Gaps, Tracking!Distance
      <4>2. gaps # {} /\ 2 * f.accuracy <= Min(gaps)
        BY DEF Tracking!Decisive, Tracking!Min, Min, i
      <4>. HIDE DEF gaps
      <4>3. Min(gaps) \in Nat /\ \A g \in gaps : Min(gaps) <= g
        BY <4>1, <4>2, LeastNatural
      <4>4. gap \in gaps
        BY DEF gaps
      <4>. QED BY <1>2, <4>1, <4>2, <4>3, <4>4
    <3>. QED BY <2>2, <2>11, <3>1 DEF Fits, i
  <2>14. ASSUME len \in DOMAIN stations, f.place = stations[len]
         PROVE  after = len
    <3>1. stations[len] \in Int /\ Tracking!Distance(stations[len], f.place) = 0
      BY <2>14 DEF Tracking!Distance
    <3>2. stations[i] \in Int /\ at <= 0
      BY <2>7, <2>14, <3>1
    <3>3. stations[i] = stations[len]
      BY <2>14, <3>1, <3>2 DEF Tracking!Distance
    <3>4. i = len
      BY <2>7, <2>14, <3>3
    <3>5. len \in claims
      BY <3>2, <3>4, <2>7 DEF Tracking!Distance
    <3>. QED BY <2>9, <2>10, <3>5
  <2>15. shown.approaching =>
           \E n \in {after + 1} \cap DOMAIN stations : Tracking!Distance(stations[n], f.place) <= ApproachRadius
    <3>1. \A n \in DOMAIN stations : Tracking!Distance(stations[n], f.place) = Tracking!Distance(f.place, stations[n])
      BY <1>2, <2>1 DEF Tracking!Distance
    <3>. QED BY <2>5, <3>1 DEF Tracking!Shown, metres
  <2>16. shown.next = {after + 1} \cap DOMAIN stations
    BY DEF Tracking!Shown
  <2>17. after = len => shown.next = {}
    BY <2>10, <2>16
  <2>18. update.source \notin {"stopCount", "schedule"}
    BY <2>6
  <2>. HIDE DEF shown
  <2>. QED BY <2>2, <2>12, <2>13, <2>14, <2>15, <2>16, <2>17, <2>18
           DEF Tracking!UpdateIsHonest, update, shown, fresh, Fits
<1>. QED BY <1>1, <1>5, <1>6
=============================================================================
