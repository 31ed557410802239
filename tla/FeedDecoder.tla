----------------------------- MODULE FeedDecoder -----------------------------
(***************************************************************************)
(* From a realtime feed to the trains that are shown, and what the two     *)
(* consumers of the updates make of them.  Nothing here keeps state; the   *)
(* engine in between is module RealtimeEngine.                             *)
(*                                                                         *)
(* An entity of a feed has its id, the id of its vehicle, a time (each of  *)
(* them may be empty), a trip, and a place: "none" without a position, or  *)
(* "nowhere" for the coordinates a producer without a fix sends.           *)
(***************************************************************************)
EXTENDS Integers, Sequences, FiniteSets, SequencesExt, FiniteSetsExt

\* The first value there is.
FirstOf(values) == CHOOSE v \in UNION ToSet(values) :
                     \E k \in DOMAIN values : v \in values[k] /\ \A j \in 1..(k - 1) : values[j] = {}

VehicleId(entity) == IF entity.vehicle # {} THEN entity.vehicle ELSE entity.entity
HasFix(entity) == entity.place \notin {"none", "nowhere"}

\* Slip: whoever bears an id first claims it, with a fix or without.
ClaimedByAny(feed, k) == \E j \in 1..(k - 1) : VehicleId(feed[j]) = VehicleId(feed[k])

Claimed(feed, k) == \E j \in 1..(k - 1) : HasFix(feed[j]) /\ VehicleId(feed[j]) = VehicleId(feed[k])

\* decode_vehicle_positions
Decode(feed, header, fallback) ==
  LET kept == SelectSeq([k \in DOMAIN feed |-> k],
                LAMBDA k : VehicleId(feed[k]) # {} /\ HasFix(feed[k]) /\ ~Claimed(feed, k))
  IN [n \in DOMAIN kept |->
        [vehicle |-> VehicleId(feed[kept[n]]), place |-> feed[kept[n]].place, trip |-> feed[kept[n]].trip,
         at |-> FirstOf(<<feed[kept[n]].at, header, fallback>>)]]

(***************************************************************************)
(* A vehicle is decoded if and only if some entity has its id and a fix,   *)
(* and once; its position is the first such entity's, whatever entities    *)
(* without a fix come before; and the vehicles come in the feed's order.   *)
(***************************************************************************)
DecodedAreRight(feed, header, fallback) ==
  \E decoded \in {Decode(feed, header, fallback)} :
    LET Usable(id) == {k \in DOMAIN feed : VehicleId(feed[k]) = id /\ HasFix(feed[k])}
        First(n) == Min(Usable(decoded[n].vehicle))
    IN /\ {d.vehicle : d \in ToSet(decoded)} = {id \in {VehicleId(e) : e \in ToSet(feed)} \ {{}} : Usable(id) # {}}
       /\ \A n \in DOMAIN decoded :
            /\ decoded[n].place = feed[First(n)].place
            /\ decoded[n].at \in feed[First(n)].at \cup header \cup fallback
            /\ n > 1 => First(n - 1) < First(n)

-----------------------------------------------------------------------------
(* TrainService.  A position is [at, trip, route]; contexts and labels map *)
(* known trips and routes to what they resolve to.                         *)

\* assemble
Assemble(position, contexts, labels, now, staleAfter) ==
  [position |-> position, stale |-> now - position.at > staleAfter,
   resolved |-> position.trip \in DOMAIN contexts,
   context |-> IF position.trip \in DOMAIN contexts THEN contexts[position.trip]
               ELSE IF position.route \in DOMAIN labels THEN labels[position.route] ELSE "none"]

\* _cached_if_fresh: what was built from this position, judged by today's clock.
CachedIfFresh(states, position, now, staleAfter) ==
  {[s EXCEPT !.position = position, !.stale = now - position.at > staleAfter] :
     s \in {c \in states : c.position.at = position.at}}

\* list_trains, get_train: every vehicle of the snapshot.
ListTrains(snapshot, cache, contexts, labels, now, staleAfter) ==
  [v \in DOMAIN snapshot |->
     FirstOf(<<CachedIfFresh({cache[w] : w \in {v} \cap DOMAIN cache}, snapshot[v], now, staleAfter),
               {Assemble(snapshot[v], contexts, labels, now, staleAfter)}>>)]

(***************************************************************************)
(* Cached or not, a train is shown where the snapshot has it and stale if  *)
(* it is; if cached states were assembled from what they say they were,    *)
(* the list is what assembling all would give.                             *)
(***************************************************************************)
TrainsAreRight(snapshot, before, contexts, labels, now, staleAfter) ==
  \E cache \in {[v \in DOMAIN before |-> Assemble(before[v], contexts, labels, before[v].at, staleAfter)]} :
    \A v \in DOMAIN snapshot :
      LET shown == ListTrains(snapshot, cache, contexts, labels, now, staleAfter)[v]
          sameTime == v \in DOMAIN before /\ before[v].at = snapshot[v].at
      IN /\ shown.position = snapshot[v] /\ (shown.stale <=> snapshot[v].at + staleAfter < now)
         /\ (~sameTime \/ before[v] = snapshot[v]) =>
              shown = Assemble(snapshot[v], contexts, labels, now, staleAfter)

-----------------------------------------------------------------------------
(* The consumers of an update, [type, added, moved, removed, stale].       *)

\* EtaWarmer.handle: the changed trains whose trip resolves, in order.
Warmed(event, contexts) ==
  IF event.type # "update" THEN <<>>
  ELSE SelectSeq(event.added \o event.moved, LAMBDA position : position.trip \in DOMAIN contexts)

\* RedisEtaCache.get: only for the very position it was computed from.
CachedEta(cache, vehicle, at) == {e.eta : e \in {x \in cache : x.vehicle = vehicle /\ x.at = at}}

\* Slip: whatever is cached for the vehicle.
AnyEta(cache, vehicle, at) == {e.eta : e \in {x \in cache : x.vehicle = vehicle}}

EtaHit(cache, vehicle, at) == CachedEta(cache, vehicle, at)

\* CachedEtaService.compute: a miss computes and replaces the vehicle's entry.
WithEta(cache, position) ==
  IF EtaHit(cache, position.vehicle, position.at) # {} THEN cache
  ELSE {e \in cache : e.vehicle # position.vehicle}
         \cup {[vehicle |-> position.vehicle, at |-> position.at, eta |-> position]}

\* The cache after a run of events.
EtasAfter(events, contexts) ==
  FoldLeft(LAMBDA cache, event : FoldLeft(WithEta, cache, Warmed(event, contexts)), {}, events)

\* FeedAnalyticsRecorder.handle
Recorded(event) ==
  IF event.type # "update" THEN {}
  ELSE {[added |-> Len(event.added), moved |-> Len(event.moved),
         removed |-> Cardinality(event.removed), stale |-> Cardinality(event.stale)]}

(***************************************************************************)
(* Whatever updates the warmer has handled, of whatever order or twice,    *)
(* an ETA in the cache is of the position it is asked for; the trains of   *)
(* the last update that are on a known trip are found there; and no more   *)
(* were computed than the recorder has counted.                            *)
(***************************************************************************)
UpdatesAreUsed(events, contexts) ==
  \E cache \in {EtasAfter(events, contexts)} :
    LET last == Warmed(events[Len(events)], contexts) IN
    /\ \A v \in {e.vehicle : e \in cache}, at \in {e.at : e \in cache} :
         \A eta \in EtaHit(cache, v, at) : eta.vehicle = v /\ eta.at = at
    /\ \A k \in DOMAIN last :
         (\A j \in (k + 1)..Len(last) : last[j].vehicle # last[k].vehicle) => EtaHit(cache, last[k].vehicle, last[k].at) # {}
    /\ Cardinality(cache) <= FoldLeft(LAMBDA n, event : n + SumSet({row.added + row.moved : row \in Recorded(event)}), 0, events)
=============================================================================
