------------------------------ MODULE MCQuestions ------------------------------
(***************************************************************************)
(* Small instances of the static data (timetables of a stop, networks for  *)
(* the journey planner, trips on which a train is placed, archives), and   *)
(* small inputs of the pure functions, as questions: the name of the       *)
(* function and what it is asked.                                          *)
(***************************************************************************)
EXTENDS Integers, Sequences, FiniteSets, SequencesExt, TLC

(***************************************************************************)
(* Timetables of one stop: days of four time units, weeks of two days.     *)
(***************************************************************************)
LOCAL Calendar(service, weekdays) == [service |-> service, from |-> 0, to |-> 2, weekdays |-> weekdays]
LOCAL Exception(service, date, type) == [service |-> service, date |-> date, type |-> type]
LOCAL Departure(service, departs, terminates) ==
  [service |-> service, departs |-> departs, terminates |-> terminates,
   starts |-> IF terminates THEN departs - 2 ELSE departs,
   ends |-> IF terminates THEN departs ELSE departs + 2]

\* Service a runs past midnight.
Daily == [calendar |-> {Calendar("a", {0, 1})}, exceptions |-> {},
          trips |-> {Departure("a", 1, FALSE), Departure("a", 5, FALSE)}]

\* The last train of day 0 and the only one of day 1 leave together.
Meeting == [calendar |-> {Calendar("a", {0}), Calendar("b", {1})}, exceptions |-> {},
            trips |-> {Departure("a", 5, FALSE), Departure("b", 1, FALSE)}]

\* A service added on one day and one withdrawn, a train that ends here.
Holiday == [calendar |-> {Calendar("a", {0, 1})},
            exceptions |-> {Exception("a", 1, 2), Exception("b", 1, 1)},
            trips |-> {Departure("a", 3, FALSE), Departure("b", 2, FALSE), Departure("b", 6, TRUE)}]

\* Another number of trains, on another kind of day.
Seldom == [calendar |-> {Calendar("b", {1})}, exceptions |-> {Exception("b", 2, 1)},
           trips |-> {Departure("b", 0, FALSE), Departure("b", 4, FALSE)}]

SampleTimetables == {Daily, Meeting, Holiday, Seldom}

(***************************************************************************)
(* The networks on which JourneyPlanner is checked.                        *)
(***************************************************************************)
LOCAL Hops(stops, hops) ==
  LET time[i \in DOMAIN stops] == IF i = 1 THEN 0 ELSE time[i - 1] + hops[i - 1]
  IN [i \in DOMAIN stops |-> [stop |-> stops[i], arrives |-> time[i], departs |-> time[i]]]

LOCAL Line(route, direction, stops, hops) ==
  [route |-> route, direction |-> direction, calls |-> Hops(stops, hops)]

LOCAL Place(place, parent) == [place |-> place, parent |-> parent]

\* Two lines that meet at one complex (c and d), a slow one that needs no
\* change, and a short-turn trip that comes before the whole one.
Crossing ==
  [stops |-> ("a" :> Place(0, "") @@ "b" :> Place(40, "") @@ "c" :> Place(80, "x")
              @@ "d" :> Place(90, "x") @@ "e" :> Place(130, "")),
   trips |-> <<Line("red", 0, <<"a", "b">>, <<4>>), Line("red", 0, <<"a", "b", "c">>, <<4, 4>>),
               Line("blue", 0, <<"d", "e">>, <<3>>), Line("blue", 1, <<"e", "d">>, <<3>>),
               Line("slow", 0, <<"a", "c", "e">>, <<15, 15>>)>>]

\* Walking competes with riding, and one station cannot be reached.
Walking ==
  [stops |-> ("a" :> Place(0, "") @@ "b" :> Place(3, "") @@ "c" :> Place(6, "") @@ "d" :> Place(30, "")),
   trips |-> <<Line("loop", 0, <<"a", "c", "b", "a">>, <<1, 3, 2>>), Line("depot", 0, <<"d">>, <<>>)>>]

\* A line served twice, in both directions, with a hop of no time at all.
Parallel ==
  [stops |-> ("a" :> Place(0, "") @@ "b" :> Place(20, "") @@ "c" :> Place(40, "")),
   trips |-> <<Line("east", 0, <<"a", "b", "c">>, <<0, 9>>), Line("east", 1, <<"c", "b", "a">>, <<5, 5>>),
               Line("express", 0, <<"a", "c">>, <<8>>)>>]

SampleNetworks == {Crossing, Walking, Parallel}

(***************************************************************************)
(* The trips, places and histories on which TrainOnTrip is checked.        *)
(***************************************************************************)
P(x, y) == [x |-> x, y |-> y]
LOCAL Stop(place, arrives, departs) == [place |-> place, arrives |-> arrives, departs |-> departs]
LOCAL Shaped(shape, stops) == [shape |-> shape, stops |-> stops]

\* Round a corner, with a dwell; the second station lies beside the shape.
Corner ==
  Shaped(<<P(0, 0), P(6, 0), P(6, 6)>>,
       <<Stop(P(0, 0), 0, 0), Stop(P(4, 1), 4, 6), Stop(P(6, 4), 12, 12), Stop(P(6, 6), 14, 14)>>)

\* Out and back over the same track.
OutAndBack ==
  Shaped(<<P(0, 0), P(8, 0), P(0, 0)>>,
       <<Stop(P(0, 0), 0, 0), Stop(P(4, 0), 4, 4), Stop(P(8, 0), 8, 8), Stop(P(4, 0), 12, 12),
         Stop(P(0, 0), 16, 16)>>)

\* No shape: the straight lines between the stations.
Shapeless ==
  Shaped(<<>>, <<Stop(P(0, 0), 0, 0), Stop(P(5, 0), 5, 6), Stop(P(5, 4), 10, 10)>>)

Trips == {Corner, OutAndBack, Shapeless}
Places == {P(x, y) : x \in {0, 3, 4, 5, 6, 8}, y \in {0, 1, 4}}

\* A sample every two seconds, at rest or not.
Histories ==
  UNION {{[i \in 1..n |-> [time |-> 2 * i, still |-> still[i]]] : still \in [1..n -> BOOLEAN]} :
         n \in 1..6}
Halted == [i \in 1..4 |-> [time |-> 2 * i, still |-> i \in {2, 3}]]

\* Recorded positions on a line: repeated times, old ones, a bad fix.
Tracks == UNION {[1..n -> [time : {1, 3, 5, 6}, place : {0, 4}]] : n \in 0..3}
            \cup {[k \in 1..5 |-> [time |-> k + 1, place |-> places[k]]] : places \in [1..5 -> {0, 2, 5}]}

\* What is known of a train when its arrivals are computed.
Sight == [reported |-> {}, samples |-> <<>>, history |-> <<>>, latest |-> 6, predictions |-> {}]
Sights == {Sight, [Sight EXCEPT !.reported = {9}, !.samples = Halted],
           [Sight EXCEPT !.samples = Halted, !.history = <<[time |-> 4, place |-> 0], [time |-> 6, place |-> 5]>>],
           [Sight EXCEPT !.predictions = {<<7, 2>>}], [Sight EXCEPT !.predictions = {<<3, -1>>}]}

(***************************************************************************)
(* The archives on which GtfsValidation is checked: a sound one, and every *)
(* archive that differs from it in at most two files, each replaced by a   *)
(* file with something odd in it, or left out.                             *)
(***************************************************************************)
LOCAL Agency(id) == [id |-> id, bad |-> {}]
LOCAL Service(id) == [id |-> id, bad |-> {}]
LOCAL Date(id, date) == [id |-> id, date |-> date, bad |-> {}]
LOCAL Point(id, sequence) == [id |-> id, sequence |-> sequence, bad |-> {}]
LOCAL Route(id, agency) == [id |-> id, agency |-> agency, bad |-> {}]
LOCAL Trip(id, route, service) == [id |-> id, route |-> route, service |-> service, bad |-> {}]
LOCAL Call(trip, stop, number, text) ==
  [trip |-> trip, stop |-> stop, number |-> number, text |-> text, bad |-> {}]
Spoiled(rows, kind) == [rows EXCEPT ![1].bad = {kind}]

File(rows) == [rows |-> rows, complete |-> TRUE]

Sound ==
  [agency |-> File(<<Agency("a1")>>),
   routes |-> File(<<Route("r1", "a1"), Route("r2", "")>>),
   stops |-> File(<<Service("s1"), Service("s2")>>),
   calendar |-> File(<<Service("wk")>>),
   calendar_dates |-> File(<<Date("wk", 1), Date("hol", 1)>>),
   shapes |-> File(<<Point("sh", 1), Point("sh", 2)>>),
   trips |-> File(<<Trip("t1", "r1", "wk"), Trip("t2", "r2", "hol")>>),
   stop_times |-> File(<<Call("t1", "s1", 1, "1"), Call("t1", "s2", 2, "2")>>)]

OddRows ==
  [agency |-> {<<Agency("")>>, <<Agency("a1"), Agency("a2")>>, <<Agency("a1"), Agency("a1")>>,
               <<Agency(""), Agency("a1")>>},
   routes |-> {<<Route("r1", "a2"), Route("r2", "")>>, <<Route("r1", "a1"), Route("r1", "")>>,
               <<Route("r1", "a1"), Route("", "a1")>>,
               Spoiled(Sound.routes.rows, "required"), Spoiled(Sound.routes.rows, "optional")},
   stops |-> {<<Service("s1"), Service("s1"), Service("s2")>>, <<Service("s1")>>,
              Spoiled(Sound.stops.rows, "required"), Spoiled(Sound.stops.rows, "optional")},
   calendar |-> {<<Service("wk"), Service("wk")>>, <<Service("hol")>>, <<Service("")>>,
                 Spoiled(Sound.calendar.rows, "required")},
   calendar_dates |-> {<<Date("hol", 1), Date("hol", 1)>>, <<Date("wk", 1)>>,
                       Spoiled(Sound.calendar_dates.rows, "required")},
   shapes |-> {<<Point("sh", 1), Point("sh", 1)>>, Spoiled(Sound.shapes.rows, "required"),
               Spoiled(Sound.shapes.rows, "optional")},
   trips |-> {<<Trip("t1", "r9", "wk")>>, <<Trip("t1", "r1", "none")>>,
              <<Trip("t1", "r1", "wk"), Trip("t1", "r2", "wk")>>, <<Trip("t2", "r2", "hol")>>,
              Spoiled(Sound.trips.rows, "optional")},
   stop_times |-> {<<Call("t9", "s1", 1, "1")>>, <<Call("t1", "s9", 1, "1")>>,
                   <<Call("t1", "s1", 1, "1"), Call("t1", "s2", 1, "1")>>,
                   <<Call("t1", "s1", 1, "1"), Call("t1", "s2", 1, "01")>>,
                   <<Call("t1", "s2", 2, "2"), Call("t1", "s1", 1, "1")>>,
                   Spoiled(Sound.stop_times.rows, "required"),
                   Spoiled(Sound.stop_times.rows, "optional")}]

NoFile == [rows |-> <<>>, complete |-> FALSE]
Odd(f) == {File(rows) : rows \in OddRows[f]}
            \cup {File(<<>>), [Sound[f] EXCEPT !.complete = FALSE], NoFile}

WithFile(ds, f, file) ==
  [g \in (IF file = NoFile THEN DOMAIN ds \ {f} ELSE DOMAIN ds) |->
     IF g = f THEN file ELSE ds[g]]

OneOdd == UNION {{WithFile(Sound, f, file) : file \in Odd(f)} : f \in DOMAIN Sound}
TwoOdd == UNION {UNION {{WithFile(ds, f, file) : file \in Odd(f)} : f \in DOMAIN ds} : ds \in OneOdd}

Archives == {Sound} \cup OneOdd \cup TwoOdd

-----------------------------------------------------------------------------
(***************************************************************************)
(* Files for the open-data loaders.  Stops 1 and 3 bear one name, stop 2   *)
(* another; codes 1 and 2 are the lines of an interchange.                 *)
(***************************************************************************)
FileStops == <<[id |-> 1, name |-> "a", at |-> 0], [id |-> 2, name |-> "b", at |-> 3], [id |-> 3, name |-> "a", at |-> 20]>>
FileCodes == <<[code |-> 1, stop |-> 1], [code |-> 2, stop |-> 1], [code |-> 3, stop |-> 2], [code |-> 4, stop |-> 3]>>

\* Of the stops 1 and 2, both within reach, the second, the first or neither is nearer;
\* one is at the limit of its reach; none is within reach.
Spots == {<<>>, <<2>>, <<1>>, <<4, 1>>, <<5>>, <<8>>}
UpTo(rows, n) == UNION {[1..k -> rows] : k \in 1..n}

GateFiles == UpTo([name : {"a", "b", "z"}, places : Spots, landmarks : {<<"x", "y", "x">>}], 2)
Registries == UpTo([code : {1, 2}, name : {"a", "z"}, places : Spots], 2)
OfficialGateFiles == UpTo([code : {1, 3, 9}, places : Spots], 2)
Profiles == UpTo([code : {1, 2, 9}, kind : {"weekday"}, entries : {{}, {<<1, 2>>}, {<<3, 0>>}}, exits : {{}}], 3)
Flows == {<<>>, <<[code |-> 3, count |-> 1]>>, <<[code |-> 2, count |-> 4], [code |-> 3, count |-> 2]>>,
          <<[code |-> 4, count |-> 2], [code |-> 9, count |-> 5]>>}
Matrices == UpTo([code : {1, 2}, total : {9}, top : Flows], 2)
PathFiles == UpTo([code : {1, 3, 9}, name : {"a", "z"}, claimed : {{}, {2}, {77}}, gates : {{"g"}}, lifts : {{"l"}},
                   platforms : {{"p"}}, edges : {{}, {{"g", "l"}}}], 2)
ParkingSheets == UpTo([name : {"a", "y", "z"}, places : Spots \ {<<>>}, available : {TRUE}, capacity : {{0}, {0, 2}},
                       lot : {{}}, toilet : {{}}], 2)
Feeds == {[routes |-> <<"r", "q">>, trips |-> <<[trip |-> "t", route |-> "r"], [trip |-> "u", route |-> "r"]>>, calls |-> calls,
           stops |-> {[id |-> "h", name |-> "a", places |-> <<>>], [id |-> "k", name |-> "z", places |-> <<5>>]}] :
          calls \in UpTo([trip : {"t", "u"}, sequence : {1, 2}, stop : {"h", "k", "m"}], 2)}
Stations == [at : {5, 30}, directions : UpTo({<<>>, <<10>>, <<30, 10, 14>>, <<13, 20, 11, 12>>}, 3)]

LoaderNames == {"gates", "registry", "official", "hourly", "destinations", "paths", "parking", "lastmile", "rail"}

\* A row of the table as it was.
OldTable == <<[stop |-> 99, complete |-> TRUE, lots |-> 0]>>

LoadQuestions ==
  ({"gates"} \X GateFiles) \cup ({"registry"} \X Registries) \cup ({"official"} \X OfficialGateFiles)
    \cup ({"hourly"} \X Profiles) \cup ({"destinations"} \X Matrices) \cup ({"paths"} \X PathFiles)
    \cup ({"parking"} \X ParkingSheets) \cup ({"lastmile"} \X Feeds) \cup ({"rail"} \X Stations)

(***************************************************************************)
(* Feeds, the trains made of them, and other riders' reports.  The time of *)
(* an entity and its ids may be empty.                                     *)
(***************************************************************************)
LOCAL FeedRows(entities, vehicles, places, times) ==
  [entity : entities, vehicle : vehicles, place : places, at : times, trip : {1}]
FeedMessages == UpTo(FeedRows({{}, {"e"}}, {{}, {"v"}}, {"none", "nowhere", "p"}, {{}}), 2)
                  \cup {f \in [1..3 -> FeedRows({{"e"}, {"f"}}, {{}, {"e"}}, {"nowhere", "p", "q"}, {{4}})] :
                          Cardinality({f[k].entity : k \in 1..3}) = 2}
Positions == [at : {1, 5}, trip : {1, 2, 9}, route : {7, 8}]
Fleets == {f \in [{"v"} -> Positions] \cup [{"v", "w"} -> Positions] : "w" \notin DOMAIN f \/ f["w"].route = 7}
Known == <<"one", "two">>
Updates ==
  {[type |-> type, added |-> a, moved |-> m, removed |-> {}, stale |-> {}] :
     type \in {"update", "alert"}, a \in {<<>>, <<[vehicle |-> "v", at |-> 1, trip |-> 1]>>},
     m \in UpTo([vehicle : {"v", "w"}, at : {2}, trip : {1, 9}], 2) \cup {<<[vehicle |-> "v", at |-> 3, trip |-> 2]>>}}
Reports == UpTo([rider : {1, 2}, stop : {{}, {1}}, category : {"delay"}, at : {1, 2}], 3)

WireFleets == UNION {[vs -> {"p", "q"}] : vs \in SUBSET {"t", "v", "w"}}

\* What uploads, polls and jobs of the server follow each other.
LOCAL InOrder(entries, lengths) ==
  {log \in UNION {[1..n -> entries] : n \in lengths} : \A k \in 2..Len(log) : log[k - 1].at <= log[k].at}
EventLogs ==
  InOrder([op : {"upload"}, at : {2, 4}, batch : UpTo([type : {"a", ""}, claimed : {{}}], 3)], {1})
    \cup InOrder([op : {"upload"}, at : {2, 4, 6},
                  batch : {<<[type |-> "a", claimed |-> {0}]>>,
                           <<[type |-> "b", claimed |-> {5}], [type |-> "a", claimed |-> {}]>>}]
                   \cup [op : {"purge"}, at : {4, 5, 7}], 1..3)
PositionLogs ==
  InOrder([op : {"poll"}, at : {1, 2, 4, 5},
           fleet : {<<>>, "v" :> [time |-> 0, place |-> "p"], "v" :> [time |-> 1, place |-> "q"],
                    [v |-> [time |-> 1, place |-> "p"], w |-> [time |-> 1, place |-> "q"]]}]
            \cup [op : {"cleanup"}, at : {4, 5}], 1..3)

FeedNames == {"feed", "trains", "updates", "reports", "objects", "fleet", "facts", "events", "history"}

FeedQuestions ==
  ({"feed"} \X FeedMessages \X {{}, {3}}) \cup ({"trains"} \X Fleets \X Fleets)
    \cup ({"updates"} \X UpTo(Updates, 2)) \cup ({"events"} \X EventLogs \X {0, 1, 5})
    \cup ({"history"} \X PositionLogs) \cup ({"reports"} \X Reports \X {1, 2})

(***************************************************************************)
(* Tables and histories for the advice given to riders.  Hours are two     *)
(* ticks long where trips are timed, so that a day has 48 ticks; the first *)
(* day is a Monday.                                                        *)
(***************************************************************************)
LOCAL Seqs(rows, lengths) == UNION {[1..k -> rows] : k \in lengths}

\* Coaches and exits: four coaches, an observation of the third at midnight.
CoachAsks == [route : {{}, {"red"}}, direction : {{0}}, hour : {0}]
CrowdRows ==
  Seqs([route : {{"red"}}, direction : {{}}, coach : {{3}}, hour : {12, 23}, occupancy : {1000, 9000}]
         \cup {[route |-> {}, direction |-> {}, coach |-> {3}, hour |-> 0, occupancy |-> 9000]}, {0, 2})
HintRows(exitsOf, coaches) ==
  {[route |-> of[1], direction |-> of[2], exit |-> e, coach |-> c] :
     of \in {<<{}, {}>>, <<{"red"}, {0}>>, <<{"blue"}, {}>>}, e \in exitsOf, c \in coaches}
CoachHints == Seqs(HintRows({1, 2}, {2}), {0, 1}) \cup {h \in Seqs(HintRows({1}, {0, 5}), {2}) : h[1].route = {}}
ExitHints == Seqs(HintRows({1, 2}, {1, 2}), {0, 2})
StationGates == <<[name |-> 7, landmarks |-> {"mall"}], [name |-> 4, landmarks |-> {}], [name |-> 5, landmarks |-> {"mall"}]>>
Confirmed == {<<>>, 2 :> 9}

\* Two stations with a profile each, or one with a gap.
Profile(entries) == [weekday |-> entries]
LOCAL Entries == {<<1, 5, 9, 9>>, <<9, 5, 9, 0>>, <<0, 0, 0, 0>>, <<6, 8, 2, 4>>}
UsualProfiles == [{"a", "b"} -> {Profile(e) : e \in Entries}] \cup {"a" :> Profile(e) : e \in Entries}
              \cup {"a" :> [saturday |-> <<1, 2, 3, 4>>, weekday |-> <<4, 3, 2, 1>>], "b" :> [sunday |-> <<1, 1, 1, 1>>]}

Edges == {{"g", "l"}, {"l", "p"}, {"g", "n"}, {"n", "l"}, {"p", "h"}, {"g"}}

Lots == {<<>>, <<[car |-> {0}, motorcycle |-> {}]>>, <<[car |-> {}, motorcycle |-> {2}], [car |-> {0}, motorcycle |-> {1}]>>}
Facilities == {f \in Seqs([stop : {"a", "b", "c"}, lots : Lots], {2, 3}) : \A j, k \in DOMAIN f : f[j].stop = f[k].stop => j = k}
Metros == {<<>>, "a" :> 9, [a |-> 1, b |-> 9], [b |-> 0, c |-> 2]}

Plans == {{}} \cup {{a} : a \in Seqs([legs : {<<>>, <<"walk">>}, id : {1}], 0..3)}

\* Weekday and weekend trips, also around midnight.
LOCAL Rides(starts, statuses, pairs) ==
  {[status |-> s, start |-> t, end |-> IF s = "completed" THEN {t + 2} ELSE {}, from |-> p[1], to |-> p[2]] :
     s \in statuses, t \in starts, p \in pairs}
NewestFirst(trips, lengths) == {h \in Seqs(trips, lengths) : \A k \in 2..Len(h) : h[k].start <= h[k - 1].start}
RiderHistories ==
  NewestFirst(Rides({47, 49, 250}, {"completed"}, {<<"a", "b">>, <<"a", "c">>})
                \cup Rides({49}, {"missed", "cancelled"}, {<<"b", "a">>}), {1, 3, 4})
DelayHistories == NewestFirst({[status |-> "completed", start |-> t, end |-> {t + d}, from |-> "a", to |-> b] :
                                 t \in {94, 96, 110}, d \in {1, 3, 6}, b \in {"b", "z"}}, 0..2)
Planned == <<"a", "b">> :> 3
FareHistories == NewestFirst({[status |-> s, start |-> t, end |-> IF s = "completed" THEN {e} ELSE {}, from |-> "a", to |-> b] :
                                s \in {"completed", "missed"}, t \in {20, 30}, e \in {31, 40}, b \in {"b", "c", "z"}}, 0..2)
FarePlaces == [a |-> 0, b |-> 6, c |-> 40]

OptionLists == Seqs([travel : {8, 9, 10}, rides : BOOLEAN, delay : {-2, 1, 3}], 1..2)

Favourites == {f \in Seqs([stop : 1..3, label : {"", "home", "work", "office"}], 0..3) :
                 \A j, k \in DOMAIN f : f[j].stop = f[k].stop => j = k}
Ridden == <<[kind |-> "walk", seconds |-> 3, wait |-> 0], [kind |-> "ride", seconds |-> 7, wait |-> 4],
            [kind |-> "ride", seconds |-> 5, wait |-> 2]>>

\* Walks and rides over two lines, and the trips of a day.
LOCAL Walk(n) == [kind |-> "walk", seconds |-> n]
LOCAL Ride(route, from, to) == [kind |-> "ride", route |-> route, direction |-> {0}, board |-> from, alight |-> to]
LegPlans == {<<Walk(1)>>, <<Ride("red", "a", "b")>>, <<Walk(2), Ride("red", "a", "b"), Ride("blue", "b", "c")>>,
             <<Ride("red", "a", "b"), Walk(1), Walk(2), Ride("blue", "b", "c"), Walk(1)>>}
LOCAL Train(route, stops, from, to) ==
  [service |-> "all", route |-> route, direction |-> 0,
   calls |-> <<[stop |-> stops[1], arrives |-> from, departs |-> from], [stop |-> stops[2], arrives |-> to, departs |-> to]>>]
TrainSets == {{Train("red", <<"a", "b">>, d, d + 4) : d \in reds} \cup {Train("blue", <<"b", "c">>, d, d + 5) : d \in blues} :
                reds \in SUBSET {0, 3, 8}, blues \in SUBSET {7, 8, 9, 11}}

Costs == [1..3 -> {0, 1, 5}]
ReachSets == Costs \cup {2 :> 1}

\* Fixes and their absence on the way, an accelerometer and a plan's legs.
Ways == {<<>>, <<0>>, <<0, 4, 8, 14>>}
LOCAL Fixed(place, accuracy, at) ==
  [fix |-> {[place |-> place, accuracy |-> accuracy, at |-> at]}, now |-> 4, counted |-> {}, scheduled |-> {}]
LOCAL Unfixed(counted, scheduled) == [fix |-> {}, now |-> 4, counted |-> counted, scheduled |-> scheduled]
RideAsks == {Fixed(p, a, 3) : p \in {0, 1, 4, 6, 9, 14}, a \in 1..3} \cup {Fixed(4, 1, at) : at \in {2, 5}}
         \cup {Unfixed(c, s) : c \in {{}, {0}, {2}, {9}}, s \in {{}, {1}}}
Shakings == {[k \in 1..10 |-> [at |-> k + (IF k > late THEN 2 ELSE 0), magnitude |-> m[k]]] :
               m \in [1..10 -> {0, 10}], late \in {5, 10}}
LOCAL OnFoot == [ride |-> FALSE, wait |-> 0, seconds |-> 3, stations |-> <<>>]
LOCAL Aboard(wait, seconds, stations) == [ride |-> TRUE, wait |-> wait, seconds |-> seconds, stations |-> stations]
Outings == {<<>>, <<OnFoot>>, <<Aboard(1, 6, <<"a", "b", "c">>)>>, <<OnFoot, Aboard(1, 3, <<"a", "b", "c">>), OnFoot>>,
         <<Aboard(0, 5, <<"a", "b">>), Aboard(2, 4, <<"b", "c", "d">>)>>,
         <<Aboard(2, 1, <<"a">>), OnFoot, Aboard(0, 2, <<"b", "c">>)>>}

-----------------------------------------------------------------------------
AdviceNames == {"coach", "exit", "crowd", "stepfree", "parkride", "options", "places", "delay due", "recommend",
                "card", "fares", "latest", "meet", "ride", "stops", "progress"}

AdviceQuestions ==
  ({"coach"} \X CrowdRows \X CoachHints \X Confirmed \X CoachAsks)
    \cup ({"exit"} \X ExitHints \X {{}, {"mall"}, {"zoo"}} \X CoachAsks)
    \cup ({"crowd"} \X {<<"a">>, <<"b", "a", "b">>, <<"c", "a", "b">>} \X UsualProfiles \X {0, 1, 3, 19, 23, 27})
    \cup ({"stepfree"} \X SUBSET Edges)
    \cup ({"parkride"} \X Facilities \X Metros)
    \cup ({"options"} \X BOOLEAN \X Plans)
    \cup ({"places"} \X RiderHistories \X {98, 253})
    \cup ({"delay due"} \X DelayHistories \X {96, 97, 110} \X {{}, {-9}, {0}, {2}})
    \cup ({"recommend"} \X OptionLists)
    \cup ({"card"} \X Favourites \X {10, 30} \X {{}, {31}, {35}})
    \cup ({"fares"} \X FareHistories)
    \cup ({"latest"} \X LegPlans \X TrainSets \X {{}, {"all"}})
    \cup ({"meet"} \X Costs \X ReachSets)
    \cup ({"ride"} \X Ways \X Seqs(RideAsks, 1..2))
    \cup ({"stops"} \X Shakings)
    \cup ({"progress"} \X Outings \X (0..13) \X {<<>>, <<"z">>})
================================================================================
