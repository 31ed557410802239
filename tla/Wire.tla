--------------------------------- MODULE Wire ---------------------------------
(***************************************************************************)
(* What the processes leave for each other in Redis: the entities of       *)
(* domain/entities.py as they are stored and read back, and the facts of   *)
(* domain/events.py.  A reader may be of another version of the code than  *)
(* the writer: a worker and an API are restarted one after the other, and  *)
(* what an earlier worker stored stays.                                    *)
(*                                                                         *)
(* An object is a function from the names of its fields to values: atoms,  *)
(* objects, or sequences of objects; a payload is one with any names.      *)
(***************************************************************************)
EXTENDS Naturals, Sequences, FiniteSets, SequencesExt, TLC

CONSTANTS Null, Unreadable, Foreign, \* None; what cannot be read; a status the reader does not know
          Off, Zero                  \* False, 0.0

\* A kind of object: the fields it cannot be read without, those that are
\* parsed and so may not be null, the default of the others, and the kind of
\* objects that are one or several of its fields.
Plain(required) == [required |-> required, parsed |-> {}, others |-> <<>>, one |-> <<>>, many |-> <<>>]
Nulls(names) == [f \in names |-> Null]

StationRef == Plain({"stop_id", "name", "sequence"})

VehiclePosition ==
  [required |-> {"vehicle_id", "latitude", "longitude", "timestamp"},
   parsed |-> {"latitude", "longitude", "timestamp"},
   others |-> Nulls({"trip_id", "route_id", "bearing", "speed_mps", "label", "current_status", "current_stop_id"})
                @@ [source |-> "unknown"],
   one |-> <<>>, many |-> <<>>]

TrainState ==
  [required |-> {"vehicle", "resolved", "is_stale"}, parsed |-> {"vehicle"},
   others |-> Nulls({"route_id", "route_short_name", "route_long_name", "route_color", "headsign", "direction_id",
                     "current_station", "next_station", "destination", "distance_along_m", "shape_offset_m"})
                @@ [at_station |-> Off, remaining_stations |-> <<>>],
   one |-> [vehicle |-> "position"] @@ [f \in {"current_station", "next_station", "destination"} |-> "ref"],
   many |-> [remaining_stations |-> "ref"]]

StationEta ==
  [Plain({"stop_id", "stop_name", "sequence", "distance_remaining_m", "eta_seconds", "eta_time"})
     EXCEPT !.parsed = {"eta_time"}]

VehicleEta ==
  [required |-> {"vehicle_id", "trip_id", "computed_at", "speed_mps_used", "speed_source", "confidence", "stations"},
   parsed |-> {"computed_at", "stations"},
   others |-> Nulls({"next_station", "delay_seconds"}) @@ [dwell_seconds_used |-> Zero],
   one |-> [next_station |-> "station eta"], many |-> [stations |-> "station eta"]]

Kinds == [ref |-> StationRef, position |-> VehiclePosition, state |-> TrainState, eta |-> VehicleEta]
           @@ ("station eta" :> StationEta)

FieldsOf(kind) == kind.required \cup DOMAIN kind.others

\* Slip: no field may be missing.
NoneLacking(kind, payload) == FieldsOf(kind) \subseteq DOMAIN payload

Complete(kind, payload) == kind.required \subseteq DOMAIN payload

\* from_dict
RECURSIVE FromDict(_, _)
FromDict(name, payload) ==
  LET kind == Kinds[name]
      Given(f) == IF f \in DOMAIN payload THEN payload[f] ELSE kind.others[f]
      Field(f) ==
        CASE f \in DOMAIN kind.one /\ Given(f) # Null -> FromDict(kind.one[f], Given(f))
          [] f \in DOMAIN kind.many /\ Given(f) # Null ->
               LET all == [k \in DOMAIN Given(f) |-> FromDict(kind.many[f], Given(f)[k])]
               IN IF \E k \in DOMAIN all : all[k] = Unreadable THEN Unreadable ELSE all
          [] f = "current_status" /\ Given(f) = Foreign -> Unreadable
          [] OTHER -> Given(f)
      object == [f \in FieldsOf(kind) |-> Field(f)]
  IN IF /\ Complete(kind, payload)
        /\ \A f \in FieldsOf(kind) : object[f] # Unreadable
        /\ \A f \in kind.parsed \cup DOMAIN kind.many : object[f] # Null
     THEN object ELSE Unreadable

\* get_all, get_all_train_states: one entry that cannot be read fails the call.
GetAll(name, entries) ==
  IF \E v \in DOMAIN entries : FromDict(name, entries[v]) = Unreadable THEN Unreadable
  ELSE [v \in DOMAIN entries |-> FromDict(name, entries[v])]

-----------------------------------------------------------------------------
(* RealtimeEngine.poll_once as far as the stored fleet goes: a poll reads  *)
(* all entries before it changes any, and writes those that have changed.  *)

Poll(entries, current) ==
  LET previous == GetAll("position", entries)
  IN IF previous = Unreadable THEN entries
     ELSE [v \in DOMAIN current |->
             IF v \in DOMAIN entries /\ previous[v] = current[v] THEN entries[v] ELSE current[v]]

\* An object with a value in every field: as to_dict stores it.
RECURSIVE Full(_)
Full(name) ==
  LET kind == Kinds[name]
  IN [f \in FieldsOf(kind) |->
        CASE f \in DOMAIN kind.one -> Full(kind.one[f])
          [] f \in DOMAIN kind.many -> <<Full(kind.many[f]), Full(kind.many[f])>>
          [] OTHER -> f]

\* As a writer stores it whose version lacks fields, has one more, has no
\* value for some, or a status of its own.
Stored(name, change) ==
  LET object == Full(name)
  IN [f \in (DOMAIN object \ change.lacks) \cup (IF change.adds THEN {"added"} ELSE {}) |->
        IF f \in change.nulls \cup {"added"} THEN Null
        ELSE IF f = "current_status" /\ change.foreign THEN Foreign ELSE object[f]]

(***************************************************************************)
(* What is stored is read back as it was; a field more costs nothing; and  *)
(* what another version's object is read as agrees with it in every field  *)
(* it has, and takes no origin from one that names none ("never silently   *)
(* mislabeled as live GPS").  It can be read unless it lacks a field that  *)
(* this version cannot do without, or has a value it cannot parse.         *)
(***************************************************************************)
ObjectsAreRead(name, change) ==
  \E read \in {FromDict(name, Stored(name, change))} :
    LET kind == Kinds[name]
        parsed == kind.parsed \cup DOMAIN kind.many \cup (IF change.foreign THEN {"current_status"} ELSE {})
    IN /\ FromDict(name, Full(name)) = Full(name)
       /\ read = FromDict(name, Stored(name, [change EXCEPT !.adds = ~@]))
       /\ read # Unreadable =>
            /\ DOMAIN read = DOMAIN Full(name)
            /\ \A f \in DOMAIN read \ change.lacks : read[f] = Stored(name, change)[f]
            /\ name = "position" /\ "source" \in change.lacks => read.source = "unknown"
       /\ change.lacks \cap kind.required = {} /\ change.nulls \cap parsed = {} /\ ~change.foreign => read # Unreadable

(***************************************************************************)
(* After a poll the fleet in Redis reads as the feed's, whatever versions  *)
(* wrote it, if every entry of it could be read before.  If one could not, *)
(* every poll leaves it as it is: an entry the engine cannot read stops    *)
(* the feed for good, the healthy vehicles' too.                           *)
(***************************************************************************)
FleetIsRefreshed(changes, current) ==
  \E entries \in {[v \in DOMAIN changes |-> Stored("position", changes[v])]} :
    LET ok == \A v \in DOMAIN entries : FromDict("position", entries[v]) # Unreadable
        once == Poll(entries, current)
    IN /\ ok => GetAll("position", once) = current
       /\ ~ok => Poll(once, current) = entries

-----------------------------------------------------------------------------
(* Facts                                                                   *)

EventFields ==
  [VehicleUpdated |-> {"vehicle_id", "trip_id", "route_id", "latitude", "longitude", "timestamp", "change"},
   VehicleRemoved |-> {"vehicle_id", "timestamp"},
   EtaUpdated |-> {"vehicle_id", "trip_id", "next_stop_id", "eta_seconds", "delay_seconds", "timestamp"},
   JourneyStarted |-> {"journey_id", "user_id", "origin_stop_id", "destination_stop_id", "vehicle_id", "timestamp"},
   JourneyCompleted |-> {"journey_id", "user_id", "destination_stop_id", "auto", "missed", "timestamp"},
   ServiceAlertCreated |-> {"alert_id", "severity", "route_id", "stop_id", "title", "timestamp"},
   DestinationReached |-> {"user_id", "vehicle_id", "stop_id", "alert_id", "timestamp"}]

\* parse_event: the event, or nothing of an unknown name or of other fields.
Parse(payload) ==
  IF /\ "event" \in DOMAIN payload /\ payload.event \in DOMAIN EventFields
     /\ "data" \in DOMAIN payload /\ DOMAIN payload.data = EventFields[payload.event]
  THEN {payload} ELSE {}

\* _publish_domain_events; of each change in the order of the ids.
Facts(previous, current) ==
  LET changed == {v \in DOMAIN current : v \notin DOMAIN previous \/ previous[v] # current[v]}
      Updated(v, change) ==
        [event |-> "VehicleUpdated",
         data |-> [f \in EventFields.VehicleUpdated |-> IF f = "change" THEN change ELSE current[v][f]]]
      Removed(v) == [event |-> "VehicleRemoved",
                     data |-> [vehicle_id |-> previous[v].vehicle_id, timestamp |-> "now"]]
      added == SetToSeq(changed \ DOMAIN previous)
      moved == SetToSeq(changed \cap DOMAIN previous)
      removed == SetToSeq(DOMAIN previous \ DOMAIN current)
  IN [k \in DOMAIN added |-> Updated(added[k], "added")]
       \o [k \in DOMAIN moved |-> Updated(moved[k], "moved")]
       \o [k \in DOMAIN removed |-> Removed(removed[k])]

\* What one learns of the fleet who reads the facts and understands them.
Heard(known, fact) ==
  CASE Parse(fact) = {} -> known
    [] fact.event = "VehicleUpdated" -> (fact.data.vehicle_id :> fact.data.latitude) @@ known
    [] fact.event = "VehicleRemoved" -> [v \in DOMAIN known \ {fact.data.vehicle_id} |-> known[v]]

(***************************************************************************)
(* One who knows where the vehicles were and reads the facts of a poll     *)
(* knows where they are; of a fact that was not published, only its        *)
(* vehicle is wrong.  A field more or less, and the fact is passed over,   *)
(* by a newer reader as well as by an older one.                           *)
(***************************************************************************)
FactsRebuildTheFleet(previous, current, lost) ==
  \E facts \in {Facts(previous, current)} :
    LET Where(fleet) == [v \in DOMAIN fleet |-> fleet[v].latitude]
        heard == FoldLeft(Heard, Where(previous), SelectSeq(facts, LAMBDA fact : fact.data.vehicle_id \notin lost))
        Other(fact, names) == [fact EXCEPT !.data = [f \in names |-> Null]]
    IN /\ \A v \in (DOMAIN heard \cup DOMAIN current) \ lost :
            v \in DOMAIN heard /\ v \in DOMAIN current /\ heard[v] = current[v].latitude
       /\ \A fact \in ToSet(facts), f \in UNION Range(EventFields) \cup {"added"} :
            LET names == DOMAIN fact.data
            IN /\ Parse(fact) = {fact}
               /\ Parse(Other(fact, IF f \in names THEN names \ {f} ELSE names \cup {f})) = {}
=============================================================================
