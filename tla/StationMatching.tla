---------------------------- MODULE StationMatching ----------------------------
(***************************************************************************)
(* What the open-data loaders make of their files: each matches the rows   *)
(* of a file to the stops of the timetable and replaces its table in one   *)
(* transaction.                                                            *)
(*                                                                         *)
(* Stops come in the order of list_all, each [id, name, at].  Names are    *)
(* those that normalize_station_name gives, ids are numbers, and places    *)
(* are points of a line, whose distance stands for haversine_meters.  A    *)
(* field that a row may lack is the set of its value, or empty.  Times are *)
(* written with two digits, so they sort as numbers do.                    *)
(***************************************************************************)
EXTENDS Integers, Sequences, FiniteSetsExt, SequencesExt

CONSTANTS Radius,       \* _COORDINATE_MATCH_RADIUS_M
          SanityRadius, \* _GATE_SANITY_RADIUS_M
          WalkRadius,   \* MAX_WALK_M
          Minute,       \* headways are given in whole minutes
          TopCount      \* destinations kept for an origin

-----------------------------------------------------------------------------
(* Matching                                                                *)

Only(value) == CHOOSE x \in value : TRUE

Far(p, q) == IF p < q THEN q - p ELSE p - q

\* The closest pair of a place and a stop, the first one of equally close ones.
Nearest(places, stops) ==
  LET pairs == (DOMAIN places) \X (DOMAIN stops)
      Gap(p) == Far(places[p[1]], stops[p[2]].at)
      Before(p, q) == p[1] < q[1] \/ (p[1] = q[1] /\ p[2] <= q[2])
  IN {p \in pairs : \A q \in pairs : Gap(p) < Gap(q) \/ (Gap(p) = Gap(q) /\ Before(p, q))}

Named(name, stops) ==
  LET hits == {i \in DOMAIN stops : stops[i].name = name}
  IN {stops[Min(hits)].id : i \in hits}

\* Slip: the first pair within the radius is taken.
FirstWithin(places, stops, radius) ==
  LET near == {p \in (DOMAIN places) \X (DOMAIN stops) : Far(places[p[1]], stops[p[2]].at) <= radius}
  IN {stops[p[2]].id : p \in {q \in near : \A r \in near : q[1] < r[1] \/ (q[1] = r[1] /\ q[2] <= r[2])}}

NearestWithin(places, stops, radius) ==
  {stops[p[2]].id : p \in {q \in Nearest(places, stops) : Far(places[q[1]], stops[q[2]].at) <= radius}}

\* Slip: the place is asked before the name.
MatchPlaceFirst(name, places, stops) ==
  IF NearestWithin(places, stops, Radius) # {} THEN NearestWithin(places, stops, Radius)
  ELSE Named(name, stops)

\* The stop of that name, else the nearest one within the radius; or none.
Match(name, places, stops) ==
  IF Named(name, stops) # {} THEN Named(name, stops) ELSE NearestWithin(places, stops, Radius)

\* resolve_codes: a code keeps the first stop that one of its rows matches.
ResolveCodes(stations, stops) ==
  LET Add(codes, row) ==
        IF \E k \in DOMAIN codes : codes[k].code = row.code THEN codes
        ELSE codes \o SetToSeq({[code |-> row.code, stop |-> s] : s \in Match(row.name, row.places, stops)})
  IN FoldLeft(Add, <<>>, stations)

StopOf(code, codes) == {codes[k].stop : k \in {i \in DOMAIN codes : codes[i].code = code}}

\* set_stop_codes: of the codes of a stop the last one is stored.
StopCode(stop, codes) ==
  LET of == {k \in DOMAIN codes : codes[k].stop = stop}
  IN {codes[Max(of)].code : k \in of}

\* replace_all: the table is emptied, then the rows go in one by one; stop_id is unique,
\* so a second row for a stop fails, and nothing is inserted after a failure.
Insert(session, row) ==
  IF session.failed \/ row.stop \in {r.stop : r \in ToSet(session.table)}
  THEN [session EXCEPT !.failed = TRUE]
  ELSE [session EXCEPT !.table = Append(@, row)]
Replaced(rows) == FoldLeft(Insert, [table |-> <<>>, failed |-> FALSE], rows)

\* Slip: each statement commits on its own, and a failure leaves what was done.
LoadedInPart(old, rows) == Replaced(rows).table

\* All of it is one transaction, which a failure rolls back.
Loaded(old, rows) == IF Replaced(rows).failed THEN old ELSE Replaced(rows).table

-----------------------------------------------------------------------------
(* Exits                                                                   *)

\* Of landmarks with the same name the first one is kept.
Distinct(landmarks) ==
  FoldLeft(LAMBDA kept, l : IF l \in ToSet(kept) THEN kept ELSE Append(kept, l), <<>>, landmarks)

MatchGates(gates, stops) ==
  LET Matched(gate) == Match(gate.name, gate.places, stops)
      Exit(gate) == [stop |-> Only(Matched(gate)), landmarks |-> Distinct(gate.landmarks)]
      hits == SelectSeq(gates, LAMBDA gate : Matched(gate) # {})
  IN [exits |-> [k \in DOMAIN hits |-> Exit(hits[k])],
      unmatched |-> SelectSeq(gates, LAMBDA gate : Matched(gate) = {})]

\* Gates of the registry at stops that no other source covers; a place too
\* far from its stop is not kept.
OfficialExits(gates, codes, stops, covered) ==
  LET Kept(gate) == StopOf(gate.code, codes) \ covered # {}
      StopAt(stop) == stops[Min({i \in DOMAIN stops : stops[i].id = stop})].at
      Exit(gate) == [stop |-> Only(StopOf(gate.code, codes)),
                     places |-> SelectSeq(gate.places, LAMBDA p : \A s \in StopOf(gate.code, codes) :
                                            Far(p, StopAt(s)) <= SanityRadius)]
      kept == SelectSeq(gates, Kept)
  IN [k \in DOMAIN kept |-> Exit(kept[k])]

-----------------------------------------------------------------------------
(* Accessibility, hourly loads and top destinations                        *)

\* By the code, else by the name, else the stop that the file claims.
AccessibleStop(row, codes, stops) ==
  LET known == {stops[i].id : i \in DOMAIN stops}
  IN IF StopOf(row.code, codes) # {} THEN StopOf(row.code, codes)
     ELSE IF Named(row.name, stops) # {} THEN Named(row.name, stops)
     ELSE row.claimed \cap known

Complete(row) ==
  /\ row.gates # {} /\ row.lifts # {} /\ row.platforms # {}
  /\ \E edge \in row.edges : edge \cap row.lifts # {}

LoadAccessibility(old, data, codes, stops) ==
  LET hits == SelectSeq(data, LAMBDA row : AccessibleStop(row, codes, stops) # {})
  IN Loaded(old, [k \in DOMAIN hits |-> [stop |-> Only(AccessibleStop(hits[k], codes, stops)),
                                         complete |-> Complete(hits[k])]])

\* Lists of one length are added; else the one already there is kept.
Merge(had, comes) ==
  IF had # {} /\ comes # {} /\ Len(Only(had)) = Len(Only(comes))
    THEN {[h \in DOMAIN Only(had) |-> Only(had)[h] + Only(comes)[h]]}
  ELSE IF had # {} THEN had ELSE comes

\* What one stop gets on one kind of day, from the profiles in file order.
HourlyOf(stop, kind, profiles, codes) ==
  LET here == SelectSeq(profiles, LAMBDA p : p.kind = kind /\ stop \in StopOf(p.code, codes))
      Add(sum, p) == [entries |-> Merge(sum.entries, p.entries), exits |-> Merge(sum.exits, p.exits)]
  IN FoldLeft(Add, [entries |-> {}, exits |-> {}], here)

LoadHourly(profiles, codes) ==
  LET At(p) == StopOf(p.code, codes)
  IN [s \in UNION {At(p) : p \in ToSet(profiles)} |->
        [kind \in {p.kind : p \in {q \in ToSet(profiles) : s \in At(q)}} |->
           HourlyOf(s, kind, profiles, codes)]]

CountsFrom(stop, origins, codes) ==
  LET Add(counts, d) ==
        LET to == StopOf(d.code, codes) \ {stop}
        IN [s \in DOMAIN counts \cup to |->
              (IF s \in DOMAIN counts THEN counts[s] ELSE 0) + (IF s \in to THEN d.count ELSE 0)]
      here == SelectSeq(origins, LAMBDA o : stop \in StopOf(o.code, codes))
  IN FoldLeft(LAMBDA counts, o : FoldLeft(Add, counts, o.top), <<>>, here)

TopOf(counts) ==
  LET ranked == SetToSortSeq(DOMAIN counts, LAMBDA a, b : counts[a] > counts[b] \/ (counts[a] = counts[b] /\ a < b))
      top == SubSeq(ranked, 1, Min({TopCount, Len(ranked)}))
  IN [k \in DOMAIN top |-> [stop |-> top[k], count |-> counts[top[k]]]]

LoadTopDestinations(origins, codes) ==
  LET Total(stop) == FoldLeft(LAMBDA sum, o : sum + (IF stop \in StopOf(o.code, codes) THEN o.total ELSE 0), 0, origins)
      rows == [s \in UNION {StopOf(o.code, codes) : o \in ToSet(origins)} |->
                 [total |-> Total(s), top |-> TopOf(CountsFrom(s, origins, codes))]]
  IN [s \in {t \in DOMAIN rows : rows[t].top # <<>>} |-> rows[s]]

-----------------------------------------------------------------------------
(* Facilities                                                              *)

\* A capacity of 0 means no parking, like a blank.
HasParking(row) == row.available /\ ((\E n \in row.capacity : n # 0) \/ row.lot # {})

FirstGiven(rows, Field(_)) ==
  LET given == {k \in DOMAIN rows : Field(rows[k]) # {}}
  IN IF given = {} THEN {} ELSE Field(rows[Min(given)])

PlacesOf(rows) == FoldLeft(LAMBDA s, row : s \o row.places, <<>>, rows)

\* Rows are grouped by name; a group is matched as one, and one that is not is
\* reported row by row.
LoadFacilities(old, rows, stops) ==
  LET names == Distinct([k \in DOMAIN rows |-> rows[k].name])
      Group(name) == SelectSeq(rows, LAMBDA row : row.name = name)
      Matched(name) == Match(name, PlacesOf(Group(name)), stops)
      Facility(name) == [stop |-> Only(Matched(name)),
                         toilet |-> FirstGiven(Group(name), LAMBDA row : row.toilet),
                         lots |-> Len(SelectSeq(Group(name), HasParking))]
      hits == SelectSeq(names, LAMBDA name : Matched(name) # {})
  IN [table |-> Loaded(old, [k \in DOMAIN hits |-> Facility(hits[k])]),
      unmatched |-> SelectSeq(rows, LAMBDA row : Matched(row.name) = {})]

-----------------------------------------------------------------------------
(* Last-mile routes and regional rail                                      *)

\* The first trip of a route, and its calls by sequence.
TripOf(route, feed) ==
  LET of == {k \in DOMAIN feed.trips : feed.trips[k].route = route}
  IN {feed.trips[Min(of)].trip : k \in of}
CallsOf(trip, feed) ==
  SortSeq(SelectSeq(feed.calls, LAMBDA c : c.trip = trip), LAMBDA c, d : c.sequence < d.sequence)
Calls(route, feed) == IF TripOf(route, feed) = {} THEN <<>> ELSE CallsOf(Only(TripOf(route, feed)), feed)

\* The hub is the first call; the feed may lack its stop, its name or its place.
HubOf(route, feed) ==
  {row \in feed.stops : Calls(route, feed) # <<>> /\ row.id = Calls(route, feed)[1].stop}
HubStop(hub, stops) == UNION {Match(row.name, row.places, stops) : row \in hub}

LoadLastMile(feed, stops) ==
  LET At(route) == HubStop(HubOf(route, feed), stops)
      hits == SelectSeq(feed.routes, LAMBDA route : At(route) # {})
  IN [routes |-> [k \in DOMAIN hits |-> [route |-> hits[k], stop |-> Only(At(hits[k])), calls |-> Calls(hits[k], feed)]],
      unmatched |-> SelectSeq(feed.routes, LAMBDA route : At(route) = {})]

Sorted(times) == SortSeq(times, LAMBDA a, b : a < b)
UpperMiddle(s) == IF s = <<>> THEN {} ELSE {Sorted(s)[Len(s) \div 2 + 1]}
Headway(times) ==
  UpperMiddle([k \in 1..(Len(times) - 1) |-> (Sorted(times)[k + 1] - Sorted(times)[k]) \div Minute])

\* A station of the regional rail: its place and, per direction, its departures.
Connection(station, stops) ==
  LET all == Sorted(FoldLeft(LAMBDA s, times : s \o times, <<>>, station.directions))
      headways == SelectSeq([k \in DOMAIN station.directions |-> Headway(station.directions[k])],
                            LAMBDA h : h # {})
  IN {[stop |-> s,
       headway |-> UpperMiddle([k \in DOMAIN headways |-> Only(headways[k])]),
       first |-> {all[k] : k \in (DOMAIN all) \cap {1}}, last |-> {all[k] : k \in (DOMAIN all) \cap {Len(all)}}] :
      s \in NearestWithin(<<station.at>>, stops, WalkRadius)}

-----------------------------------------------------------------------------
(***************************************************************************)
(* A row whose name a stop bears is at such a stop however near another    *)
(* one is; a row without is at the nearest stop or is reported, never at   *)
(* a stop out of reach; and no row is lost.                                *)
(***************************************************************************)
Bearing(name, stops) == {stops[i].id : i \in {k \in DOMAIN stops : stops[k].name = name}}
Reached(places, stops) ==
  {stops[i].id : i \in {k \in DOMAIN stops : \E p \in ToSet(places) : Far(p, stops[k].at) <= Radius}}
\* One place of the row is as near to the stop as any place is to any stop.
Closest(places, stops) ==
  {stops[i].id : i \in {k \in DOMAIN stops :
     \E p \in ToSet(places) : \A q \in ToSet(places), j \in DOMAIN stops :
       Far(p, stops[k].at) <= Far(q, stops[j].at)}}

RightStop(name, places, stops, found) ==
  IF Bearing(name, stops) # {} THEN found # {} /\ found \subseteq Bearing(name, stops)
  ELSE /\ (found = {}) = (Reached(places, stops) = {})
       /\ found \subseteq Reached(places, stops) \cap Closest(places, stops)

GatesAreRight(gates, stops) ==
  LET result == MatchGates(gates, stops)
  IN /\ Len(result.exits) + Len(result.unmatched) = Len(gates)
     /\ \A gate \in ToSet(gates) : RightStop(gate.name, gate.places, stops, Match(gate.name, gate.places, stops))

OfficialAreRight(gates, codes, stops, covered) ==
  LET exits == OfficialExits(gates, codes, stops, covered)
      due == {k \in DOMAIN gates : StopOf(gates[k].code, codes) \ covered # {}}
  IN /\ Len(exits) = Cardinality(due)
     /\ \A exit \in ToSet(exits) :
          /\ exit.stop \notin covered
          /\ \A p \in ToSet(exit.places), i \in DOMAIN stops :
               stops[i].id = exit.stop => Far(p, stops[i].at) <= SanityRadius

LastMileIsRight(feed, stops) ==
  LET result == LoadLastMile(feed, stops)
  IN /\ Len(result.routes) + Len(result.unmatched) = Len(feed.routes)
     /\ \A row \in ToSet(result.routes) :
          \E hub \in feed.stops :
            /\ \E c \in ToSet(row.calls) : c.stop = hub.id /\ \A d \in ToSet(row.calls) : c.sequence <= d.sequence
            /\ RightStop(hub.name, hub.places, stops, {row.stop})

(***************************************************************************)
(* An interchange has a code per line.  A code is resolved if any row of   *)
(* the registry resolves it; what the lines of an interchange report adds  *)
(* up, no journey is from a stop to itself, and the counts of a stop's     *)
(* destinations never exceed its total if no line's did.                   *)
(***************************************************************************)
CodesAreRight(stations, stops) ==
  LET codes == ResolveCodes(stations, stops)
  IN \A code \in {row.code : row \in ToSet(stations)} :
       LET found == StopOf(code, codes)
           any == UNION {Match(row.name, row.places, stops) : row \in {r \in ToSet(stations) : r.code = code}}
       IN found \subseteq any /\ (found = {}) = (any = {}) /\ Cardinality(found) <= 1

Total(f(_), S) == FoldSet(LAMBDA x, sum : sum + f(x), 0, S)
HourlyIsRight(profiles, codes) ==
  \A s \in DOMAIN LoadHourly(profiles, codes) : \A kind \in DOMAIN LoadHourly(profiles, codes)[s] :
    LET here == {k \in DOMAIN profiles : s \in StopOf(profiles[k].code, codes) /\ profiles[k].kind = kind}
        given == {k \in here : profiles[k].entries # {}}
    IN \A h \in 1..2 : given # {} =>
         Only(LoadHourly(profiles, codes)[s][kind].entries)[h] = Total(LAMBDA k : Only(profiles[k].entries)[h], given)

TopIsRight(origins, codes) ==
  \A s \in DOMAIN LoadTopDestinations(origins, codes) :
    LET row == LoadTopDestinations(origins, codes)[s]
        shown == {row.top[k].stop : k \in DOMAIN row.top}
        Flow(d) == Total(LAMBDA p : origins[p[1]].top[p[2]].count,
                         {p \in (DOMAIN origins) \X (1..2) :
                            /\ s \in StopOf(origins[p[1]].code, codes) /\ p[2] <= Len(origins[p[1]].top)
                            /\ d \in StopOf(origins[p[1]].top[p[2]].code, codes)})
    IN /\ s \notin shown /\ Cardinality(shown) = Len(row.top) /\ row.top # <<>>
       /\ \A k \in DOMAIN row.top : row.top[k].count = Flow(row.top[k].stop)
       /\ Total(Flow, shown) <= row.total
       /\ \A d \in ({c.stop : c \in ToSet(codes)} \ shown) \ {s} : Len(row.top) = TopCount \/ Flow(d) = 0

(***************************************************************************)
(* A table is replaced whole or not at all.  Either it holds one row for   *)
(* each row of the file that belongs to a stop - the stop its code stands  *)
(* for, else one that bears its name, else the one it claims if the        *)
(* timetable has that - or it is as before, and then two rows of the file  *)
(* belong to one stop.  No lot of capacity 0 is counted and no row of a    *)
(* group is lost.                                                          *)
(***************************************************************************)
Belongs(row, stop, codes, stops) ==
  LET coded == {c.stop : c \in {d \in ToSet(codes) : d.code = row.code}}
      bearing == {s.id : s \in {t \in ToSet(stops) : t.name = row.name}}
  IN /\ stop \in {s.id : s \in ToSet(stops)}
     /\ \/ stop \in coded
        \/ coded = {} /\ stop \in bearing
        \/ coded = {} /\ bearing = {} /\ stop \in row.claimed

AccessibilityIsRight(old, data, codes, stops) ==
  LET table == LoadAccessibility(old, data, codes, stops)
      ids == {s.id : s \in ToSet(stops)}
      due == {k \in DOMAIN data : \E s \in ids : Belongs(data[k], s, codes, stops)}
      IsOf(entry, k) == Belongs(data[k], entry.stop, codes, stops) /\ entry.complete = Complete(data[k])
  IN \/ /\ Len(table) = Cardinality(due)
        /\ Cardinality({entry.stop : entry \in ToSet(table)}) = Len(table)
        /\ \A entry \in ToSet(table) : \E k \in due : IsOf(entry, k)
        /\ \A k \in due : \E entry \in ToSet(table) : IsOf(entry, k)
     \/ /\ table = old
        /\ \E k, m \in due, s \in ids :
             k # m /\ Belongs(data[k], s, codes, stops) /\ Belongs(data[m], s, codes, stops)

FacilitiesAreRight(old, rows, stops) ==
  LET result == LoadFacilities(old, rows, stops)
      At(stop) == {k \in DOMAIN rows : stop \in Match(rows[k].name, PlacesOf(SelectSeq(rows, LAMBDA r : r.name = rows[k].name)), stops)}
  IN \/ /\ Cardinality({f.stop : f \in ToSet(result.table)}) = Len(result.table)
        /\ \A f \in ToSet(result.table) : f.lots = Cardinality({k \in At(f.stop) : HasParking(rows[k])})
        /\ Len(result.unmatched) + Cardinality(UNION {At(f.stop) : f \in ToSet(result.table)}) = Len(rows)
     \/ /\ result.table = old
        /\ \E s \in {stops[i].id : i \in DOMAIN stops} : Cardinality({rows[k].name : k \in At(s)}) > 1

(***************************************************************************)
(* The headway is that of a direction, and in at least half of them a      *)
(* train comes no later than it says; the span holds all departures.       *)
(***************************************************************************)
ConnectionIsRight(station, stops) ==
  \A c \in Connection(station, stops) :
    LET ways == DOMAIN station.directions
        regular == {k \in ways : Headway(station.directions[k]) # {}}
    IN /\ \A k \in ways : \A t \in ToSet(station.directions[k]) : Min(c.first) <= t /\ t <= Max(c.last)
       /\ (c.headway = {}) = (regular = {})
       /\ \A h \in c.headway : 2 * Cardinality({k \in regular : Only(Headway(station.directions[k])) <= h}) > Cardinality(regular)
=============================================================================
