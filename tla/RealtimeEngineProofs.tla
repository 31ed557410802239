------------------------ MODULE RealtimeEngineProofs ------------------------
(***************************************************************************)
(* Proofs about RealtimeEngine for any vehicles, positions and bounds,     *)
(* under the hypothesis that poll cycles do not overlap.                   *)
(***************************************************************************)
EXTENDS RealtimeEngine, TLAPS

SinglePoller == \A p, q \in Pollers : p = q

(***************************************************************************)
(* The strengthening: what the running cycle knows at each of its awaits.  *)
(***************************************************************************)

\* Nothing else writes mp:vehicles between this cycle's read and its apply.
ReadIsCurrent(p) == pc[p] = "diffed" => previous[p] = vehicles

\* From apply on, the store holds what the cycle decoded for its diff.
DiffIsApplied(p) ==
  pc[p] \in Unannounced => \A v \in Diff(p) : vehicles[v] = current[p][v]

DiffIsCached(p) ==
  pc[p] = "cached" => \A v \in Diff(p) : trains[v] = current[p][v]

DiffIsRecorded(p) ==
  pc[p] \in {"recorded", "numbered", "cached"}
    => \A v \in Changed(p) : recorded[v] = current[p][v]

NumberIsNew(p) ==
  pc[p] \in {"numbered", "cached"} => tail < number[p] /\ number[p] <= sequence

IInv ==
  /\ TypeOK
  /\ DriftIsConfined
  /\ CacheHasNoOrphans
  /\ tail <= sequence
  /\ \A p \in Pollers :
       /\ ReadIsCurrent(p)
       /\ DiffIsApplied(p)
       /\ DiffIsCached(p)
       /\ DiffIsRecorded(p)
       /\ NumberIsNew(p)

-----------------------------------------------------------------------------
(***************************************************************************)
(* Type correctness needs no hypothesis: it holds of overlapping cycles.   *)
(***************************************************************************)
LEMMA SnapshotPatch ==
  ASSUME NEW p \in Pollers, NEW table \in Snapshots,
         current \in [Pollers -> Snapshots]
  PROVE  Patch(table, p) \in Snapshots /\ Delete(table, p) \in Snapshots
BY DEF Patch, Delete, Snapshots

LEMMA TypeStep == TypeOK /\ [Next]_vars => TypeOK'
<1> SUFFICES ASSUME TypeOK, [Next]_vars PROVE TypeOK'
  OBVIOUS
<1> USE DEF TypeOK, Steps
<1>0. ASSUME NEW p \in Pollers, NEW s \in Steps
      PROVE  [pc EXCEPT ![p] = s] \in [Pollers -> Steps]
  OBVIOUS
<1>1. ASSUME NEW p \in Pollers, Poll(p) PROVE TypeOK'
  <2>1. CASE Fetch(p)
    BY <2>1 DEF Fetch, Goto, store, faults
  <2>2. CASE ReadStore(p)
    BY <2>2 DEF ReadStore, Goto, store, faults
  <2>3. CASE Apply(p)
    BY <2>3, SnapshotPatch DEF Apply, Goto, faults
  <2>4. CASE Record(p)
    <3>1. recorded' \in Snapshots
      BY <2>4 DEF Record, Snapshots
    <3> QED BY <3>1, <2>4 DEF Record, Goto, faults
  <2>5. CASE NextSequence(p)
    BY <2>5 DEF NextSequence, Goto, faults
  <2>6. CASE CacheTrainStates(p)
    BY <2>6, SnapshotPatch DEF CacheTrainStates, Goto, faults
  <2>7. CASE PublishDiff(p)
    BY <2>7, SnapshotPatch DEF PublishDiff, Goto
  <2>8. CASE Succeed(p)
    <3>1. Nowhere \in Snapshots
      BY DEF Nowhere, Snapshots
    <3> QED BY <2>8, <3>1 DEF Succeed, Goto, store, faults
  <2> QED BY <1>1, <2>1, <2>2, <2>3, <2>4, <2>5, <2>6, <2>7, <2>8 DEF Poll
<1>2. ASSUME NEW p \in Pollers, Fail(p) PROVE TypeOK'
  <2>1. Nowhere \in Snapshots
    BY DEF Nowhere, Snapshots
  <2>2. Diff(p) \subseteq Vehicles
    BY DEF Diff, Changed, Removed
  <2> QED BY <1>2, <2>1, <2>2 DEF Fail, store
<1>3. CASE Crash
  <2>1. Nowhere \in Snapshots
    BY DEF Nowhere, Snapshots
  <2>2. InFlight \subseteq Vehicles
    BY DEF InFlight, Diff, Changed, Removed
  <2> QED BY <1>3, <2>1, <2>2 DEF Crash, store
<1>4. CASE UNCHANGED vars
  BY <1>4 DEF vars, store, cycle, faults
<1> QED BY <1>1, <1>2, <1>3, <1>4 DEF Next

LEMMA TypeInit == Init => TypeOK
<1>1. Nowhere \in Snapshots
  BY DEF Nowhere, Snapshots
<1> QED BY <1>1 DEF Init, TypeOK, Steps

\* Every variable keeps its type, also when the priming poll overlaps the job.
THEOREM TypeCorrect == Spec => []TypeOK
BY TypeInit, TypeStep, PTL DEF Spec

-----------------------------------------------------------------------------
(***************************************************************************)
(* The safety invariants, for a worker whose cycles do not overlap.        *)
(***************************************************************************)
LEMMA SafetyInit == Init => IInv
<1> SUFFICES ASSUME Init PROVE IInv
  OBVIOUS
<1>1. DriftIsConfined /\ CacheHasNoOrphans
  BY DEF Init, DriftIsConfined, CacheHasNoOrphans
<1> QED BY <1>1, TypeInit DEF Init, IInv, ReadIsCurrent, DiffIsApplied, DiffIsCached,
             DiffIsRecorded, NumberIsNew, Unannounced

\* With one poller, the diff in flight is that of its own cycle.
LEMMA OneInFlight ==
  ASSUME SinglePoller, NEW p \in Pollers
  PROVE  InFlight = IF pc[p] \in Unannounced THEN Diff(p) ELSE {}
BY DEF SinglePoller, InFlight

LEMMA OneInFlightNext ==
  ASSUME SinglePoller, NEW p \in Pollers
  PROVE  InFlight' = IF pc'[p] \in Unannounced THEN Diff(p)' ELSE {}
BY DEF SinglePoller, InFlight

LEMMA SafetyStep == SinglePoller /\ IInv /\ [Next]_vars => IInv'
<1> SUFFICES ASSUME SinglePoller, IInv, [Next]_vars PROVE IInv'
  OBVIOUS
<1>t. TypeOK /\ TypeOK'
  BY TypeStep DEF IInv
<1> DEFINE Locals(p) == /\ ReadIsCurrent(p) /\ DiffIsApplied(p) /\ DiffIsCached(p)
                        /\ DiffIsRecorded(p) /\ NumberIsNew(p)
<1>1. ASSUME NEW p \in Pollers, Poll(p) \/ Fail(p) PROVE IInv'
  <2>o. \A q \in Pollers : q = p
    BY DEF SinglePoller
  <2>f. /\ InFlight = IF pc[p] \in Unannounced THEN Diff(p) ELSE {}
        /\ InFlight' = IF pc'[p] \in Unannounced THEN Diff(p)' ELSE {}
    BY OneInFlight, OneInFlightNext
  <2>g. /\ tail \in Nat /\ sequence \in Nat /\ pc \in [Pollers -> Steps]
        /\ number \in [Pollers -> Nat]
        /\ vehicles \in Snapshots /\ trains \in Snapshots /\ announced \in Snapshots
        /\ current \in [Pollers -> Snapshots] /\ previous \in [Pollers -> Snapshots]
    BY <1>t DEF TypeOK
  <2>s. SUFFICES /\ DriftIsConfined' /\ CacheHasNoOrphans' /\ (tail <= sequence)'
                 /\ Locals(p)'
    BY <1>t, <2>o DEF IInv
  <2> USE <2>f, <2>g DEF Goto, Unannounced, DriftIsConfined, CacheHasNoOrphans,
        ReadIsCurrent, DiffIsApplied, DiffIsCached, DiffIsRecorded, NumberIsNew, IInv
  <2>1. CASE Fetch(p)
    BY <2>1 DEF Fetch, store, faults
  <2>2. CASE ReadStore(p)
    BY <2>2 DEF ReadStore, store, faults
  <2>3. CASE Apply(p)
    <3>1. Diff(p)' = Diff(p) /\ Changed(p)' = Changed(p) /\ Removed(p)' = Removed(p)
      BY <2>3 DEF Apply, Diff, Changed, Removed
    <3>2. \A v \in Vehicles \ Diff(p) : vehicles'[v] = vehicles[v] /\ trains'[v] = trains[v]
      BY <2>3 DEF Apply, Patch, Delete, Diff
    <3>3. \A v \in Diff(p) : vehicles'[v] = current[p][v]
      BY <2>3 DEF Apply, Patch, Diff, Changed, Removed
    <3>4. \A v \in Removed(p) : trains'[v] = Absent
      BY <2>3 DEF Apply, Delete, Removed
    <3>5. \A v \in Changed(p) : current[p][v] # Absent
      BY DEF Changed
    <3>6. DriftIsConfined'
      BY <2>3, <3>1, <3>2 DEF Apply, faults
    <3>7. CacheHasNoOrphans'
      BY <2>3, <3>2, <3>3, <3>4, <3>5 DEF Diff
    <3>8. Locals(p)'
      BY <2>3, <3>1, <3>3 DEF Apply
    <3> QED BY <2>3, <3>6, <3>7, <3>8 DEF Apply
  <2>4. CASE Record(p)
    <3>1. Diff(p)' = Diff(p) /\ Changed(p)' = Changed(p)
      BY <2>4 DEF Record, Diff, Changed, Removed
    <3>2. \A v \in Changed(p) : recorded'[v] = current[p][v]
      BY <2>4 DEF Record, Changed
    <3> QED BY <2>4, <3>1, <3>2 DEF Record, faults
  <2>5. CASE NextSequence(p)
    <3>1. Diff(p)' = Diff(p) /\ Changed(p)' = Changed(p)
      BY <2>5 DEF NextSequence, Diff, Changed, Removed
    <3> QED BY <2>5, <3>1 DEF NextSequence, faults
  <2>6. CASE CacheTrainStates(p)
    <3>1. Diff(p)' = Diff(p) /\ Changed(p)' = Changed(p)
      BY <2>6 DEF CacheTrainStates, Diff, Changed, Removed
    <3>2. \A v \in Vehicles \ Diff(p) : trains'[v] = trains[v]
      BY <2>6 DEF CacheTrainStates, Patch, Diff
    <3>3. \A v \in Diff(p) : trains'[v] = current[p][v]
      BY <2>6 DEF CacheTrainStates, Patch, Diff, Changed, Removed
    <3>4. Diff(p) \subseteq Vehicles
      BY DEF Diff, Changed, Removed
    <3> QED BY <2>6, <3>1, <3>2, <3>3, <3>4 DEF CacheTrainStates, faults
  <2>7. CASE PublishDiff(p)
    <3>1. \A v \in Vehicles \ Diff(p) : announced'[v] = announced[v]
      BY <2>7 DEF PublishDiff, Patch, Diff
    <3>2. \A v \in Diff(p) : announced'[v] = current[p][v]
      BY <2>7 DEF PublishDiff, Patch, Diff, Changed, Removed
    <3>3. DriftIsConfined'
      BY <2>7, <3>1, <3>2 DEF PublishDiff
    <3> QED BY <2>7, <3>3 DEF PublishDiff
  <2>8. CASE Succeed(p)
    BY <2>8 DEF Succeed, store, faults
  <2>9. CASE Fail(p)
    BY <2>9 DEF Fail, store
  <2> QED BY <1>1, <2>1, <2>2, <2>3, <2>4, <2>5, <2>6, <2>7, <2>8, <2>9 DEF Poll
<1>2. CASE Crash
  <2>1. InFlight' = {}
    BY <1>2 DEF Crash, InFlight, Unannounced
  <2>2. DriftIsConfined'
    BY <1>2, <2>1 DEF Crash, store, IInv, DriftIsConfined
  <2>3. \A p \in Pollers : Locals(p)'
    BY <1>2 DEF Crash, Unannounced, ReadIsCurrent, DiffIsApplied, DiffIsCached,
                DiffIsRecorded, NumberIsNew
  <2> QED BY <1>2, <1>t, <2>2, <2>3 DEF Crash, store, IInv, CacheHasNoOrphans
<1>3. CASE UNCHANGED vars
  BY <1>3 DEF vars, store, cycle, faults, IInv, TypeOK, DriftIsConfined, InFlight, Diff,
     Changed, Removed, CacheHasNoOrphans, ReadIsCurrent, DiffIsApplied, DiffIsCached,
     DiffIsRecorded, NumberIsNew
<1> QED BY <1>1, <1>2, <1>3 DEF Next

THEOREM SafetyCorrect == ASSUME SinglePoller PROVE Spec => []IInv
BY SafetyInit, SafetyStep, PTL DEF Spec

\* Stored, cached and announced positions disagree only where a cycle is running or
\* failed between apply and publish, whatever fails and whenever the worker restarts.
THEOREM DriftTheorem == ASSUME SinglePoller PROVE Spec => []DriftIsConfined
<1>1. IInv => DriftIsConfined
  BY DEF IInv
<1> QED BY <1>1, SafetyCorrect, PTL

\* No train state stays cached for a vehicle that is no longer tracked.
THEOREM OrphanTheorem == ASSUME SinglePoller PROVE Spec => []CacheHasNoOrphans
<1>1. IInv => CacheHasNoOrphans
  BY DEF IInv
<1> QED BY <1>1, SafetyCorrect, PTL

-----------------------------------------------------------------------------
(***************************************************************************)
(* The action properties.                                                  *)
(***************************************************************************)

\* Only PublishDiff touches the stream and what its readers know.
LEMMA OnlyPublishAnnounces ==
  ASSUME Next, announced' # announced \/ tail' # tail
  PROVE  \E p \in Pollers : PublishDiff(p)
<1>1. ~Crash
  BY DEF Crash, store
<1>2. PICK p \in Pollers : Poll(p) \/ Fail(p)
  BY <1>1 DEF Next
<1> QED BY <1>2 DEF Poll, Fetch, ReadStore, Apply, Record, NextSequence, CacheTrainStates,
                    Succeed, Fail, store

\* The stream carries strictly growing sequence numbers.
THEOREM StreamOrderTheorem == ASSUME SinglePoller PROVE Spec => StreamIsOrdered
<1>1. IInv /\ [Next]_vars => [tail' # tail => tail' > tail]_vars
  <2> SUFFICES ASSUME IInv, Next, tail' # tail PROVE tail' > tail
    BY DEF vars
  <2>1. PICK p \in Pollers : PublishDiff(p)
    BY OnlyPublishAnnounces
  <2>2. tail < number[p] /\ tail' = number[p]
    BY <2>1 DEF IInv, NumberIsNew, PublishDiff, Goto
  <2> QED BY <2>2 DEF IInv, TypeOK
<1> QED BY <1>1, SafetyCorrect, PTL DEF Spec, StreamIsOrdered

\* Whatever clients are told of is already in the history table.
THEOREM RecordTheorem == ASSUME SinglePoller PROVE Spec => AnnouncedIsRecorded
<1>1. IInv /\ [Next]_vars =>
        [\A v \in Vehicles : (announced'[v] # announced[v] /\ announced'[v] # Absent)
                               => recorded[v] = announced'[v]]_vars
  <2> SUFFICES ASSUME IInv, Next, NEW v \in Vehicles, announced'[v] # announced[v],
                      announced'[v] # Absent
               PROVE  recorded[v] = announced'[v]
    BY DEF vars
  <2>1. PICK p \in Pollers : PublishDiff(p)
    BY OnlyPublishAnnounces
  <2>2. v \in Changed(p) /\ announced'[v] = current[p][v]
    BY <2>1 DEF PublishDiff, Patch
  <2> QED BY <2>1, <2>2 DEF IInv, DiffIsRecorded, PublishDiff, Goto
<1> QED BY <1>1, SafetyCorrect, PTL DEF Spec, AnnouncedIsRecorded

==============================================================================
