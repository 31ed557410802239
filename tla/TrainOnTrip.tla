----------------------------- MODULE TrainOnTrip -----------------------------
(***************************************************************************)
(* Where a train is on its trip and when it arrives: the pure functions of *)
(* ShapeGeometry, RouteResolver, EtaEngine and the schedule-based position *)
(* source.                                                                 *)
(*                                                                         *)
(* Points are [x, y] on a grid and a shape is a sequence of points of      *)
(* which neighbours share an axis, so that lengths are whole numbers;      *)
(* offsets from a shape are compared by their squares.  A trip has a shape *)
(* (<<>>: none, or less than two points) and its calls in order, each with *)
(* a place and the seconds of its arrival and departure.  Stops are their  *)
(* positions in the trip; 0 is none.  A value that may be missing is the   *)
(* set of it, or the empty set.                                            *)
(***************************************************************************)
EXTENDS Integers, Sequences, FiniteSetsExt, SequencesExt

CONSTANTS Radius,              \* station_radius_m
          DayLength, DelayLimit, \* a service day; the largest plausible delay
          DwellMin, DwellMax,
          DefaultDwell, \* twice dwell_time_seconds
          MinSpeed, MaxSpeed, DefaultSpeed,
          HistoryLimit, HistoryWindow, \* records a speed is taken from, and their age at most
          SpeedUnit                   \* fractions of a measured speed

-----------------------------------------------------------------------------
(* ShapeGeometry                                                           *)

Abs(v) == IF v < 0 THEN -v ELSE v
Length(p, q) == Abs(p.x - q.x) + Abs(p.y - q.y)
Gap(p, q) == (p.x - q.x) * (p.x - q.x) + (p.y - q.y) * (p.y - q.y)

Between(v, a, b) == Max({Min({a, b}), Min({v, Max({a, b})})})
Foot(p, a, b) == [x |-> Between(p.x, a.x, b.x), y |-> Between(p.y, a.y, b.y)]

Towards(a, b, d) ==
  LET Move(u, v) == u + (IF v > u THEN d ELSE IF v < u THEN -d ELSE 0)
  IN [x |-> Move(a.x, b.x), y |-> Move(a.y, b.y)]

Cumulative(shape) ==
  LET sum[i \in 1..Len(shape)] == IF i = 1 THEN 0 ELSE sum[i - 1] + Length(shape[i - 1], shape[i])
  IN sum

\* The closest point at or beyond floor; of equally close ones the first.
Project(shape, p, floor) ==
  LET from == Cumulative(shape)
      On(i) == LET foot == Foot(p, shape[i], shape[i + 1])
                   along == from[i] + Length(shape[i], foot)
                   held == Towards(shape[i], shape[i + 1], floor - from[i])
               IN IF along < floor THEN [distance |-> floor, offset |-> Gap(p, held)]
                                   ELSE [distance |-> along, offset |-> Gap(p, foot)]
      found == [i \in {k \in 1..(Len(shape) - 1) : from[k + 1] >= floor} |-> On(i)]
      closest == Min({on.offset : on \in Range(found)})
  IN found[Min({i \in DOMAIN found : found[i].offset = closest})]

PointAt(shape, distance) ==
  LET from == Cumulative(shape)
      target == Between(distance, 0, from[Len(shape)])
      i == Min({k \in 1..(Len(shape) - 1) : from[k + 1] >= target})
  IN Towards(shape[i], shape[i + 1], target - from[i])

-----------------------------------------------------------------------------
(* RouteResolver                                                           *)

HasShape(trip) == Len(trip.shape) >= 2

\* Slip: each stop is looked for along the whole shape.
DistancesUnordered(trip) ==
  [i \in DOMAIN trip.stops |->
     IF HasShape(trip) THEN Project(trip.shape, trip.stops[i].place, 0).distance
                       ELSE Length(trip.stops[1].place, trip.stops[i].place)]

\* Distances along the trip; each stop is looked for from the one before on.
Distances(trip) ==
  LET stops == trip.stops
      at[i \in DOMAIN stops] ==
        IF HasShape(trip)
          THEN Project(trip.shape, stops[i].place, IF i = 1 THEN 0 ELSE at[i - 1]).distance
          ELSE IF i = 1 THEN 0 ELSE at[i - 1] + Length(stops[i - 1].place, stops[i].place)
  IN at

Nearest(trip, p) ==
  LET gaps == {Gap(p, trip.stops[i].place) : i \in DOMAIN trip.stops}
  IN Min({i \in DOMAIN trip.stops : Gap(p, trip.stops[i].place) = Min(gaps)})

Following(trip, i) == IF i < Len(trip.stops) THEN i + 1 ELSE 0

Near(at, distance) == {i \in DOMAIN at : Abs(at[i] - distance) <= Radius}

\* current, next and whether the train is at current.
LocateByDistance(trip, distance) ==
  LET at == Distances(trip)
      here == Near(at, distance)
      ahead == {i \in DOMAIN at : at[i] > distance}
      next == IF ahead = {} THEN 0 ELSE Min(ahead)
      current == IF ahead = {} THEN Len(at) ELSE next - 1
  IN IF here # {} THEN [current |-> Min(here), next |-> Following(trip, Min(here)), at |-> TRUE]
                  ELSE [current |-> current, next |-> next, at |-> FALSE]

Locate(trip, p) ==
  LET i == Nearest(trip, p)
  IN IF HasShape(trip) THEN LocateByDistance(trip, Project(trip.shape, p, 0).distance)
     ELSE [current |-> i, next |-> Following(trip, i),
           at |-> Gap(p, trip.stops[i].place) <= Radius * Radius]

OnwardFrom(trip, next) == IF next = 0 THEN <<>> ELSE [k \in 1..(Len(trip.stops) - next + 1) |-> next + k - 1]
RemainingStations(trip, p) == OnwardFrom(trip, Locate(trip, p).next)

-----------------------------------------------------------------------------
(* EtaEngine                                                               *)

VehicleDistance(trip, p) ==
  IF HasShape(trip) THEN Project(trip.shape, p, 0).distance ELSE Distances(trip)[Nearest(trip, p)]

Beyond(at, distance) == SelectSeq([i \in DOMAIN at |-> i], LAMBDA i : at[i] > distance + Radius)
Remaining(trip, p) == Beyond(Distances(trip), VehicleDistance(trip, p))

\* Predicted minus scheduled, for today's service or yesterday's, whichever
\* is closer; the first on a tie.
Delay(eta, arrives) ==
  LET Of(back) == eta - (((eta \div DayLength) - back) * DayLength + arrives)
      delay == IF Abs(Of(1)) < Abs(Of(0)) THEN Of(1) ELSE Of(0)
  IN IF Abs(delay) <= DelayLimit THEN {delay} ELSE {}

\* Stationary runs of the history (oldest first; still: moved less than the
\* threshold since the sample before), as the loop collects them.
Bouts(samples) ==
  LET Plausible(d) == IF DwellMin <= d /\ d <= DwellMax THEN <<d>> ELSE <<>>
      Close(run, at) == IF run.since = {} THEN <<>> ELSE Plausible(at - Min(run.since))
      Step(run, i) ==
        IF samples[i].still
          THEN [run EXCEPT !.since = IF @ = {} THEN {samples[i - 1].time} ELSE @]
          ELSE [since |-> {}, bouts |-> run.bouts \o Close(run, samples[i - 1].time)]
      last == FoldLeftDomain(LAMBDA run, i : IF i = 1 THEN run ELSE Step(run, i),
                             [since |-> {}, bouts |-> <<>>], samples)
  IN last.bouts \o Close(last, samples[Len(samples)].time)

\* Twice the median.
TwiceMedian(s) ==
  LET sorted == SortSeq(s, LAMBDA a, b : a < b)
      n == Len(s)
  IN sorted[(n + 1) \div 2] + sorted[(n \div 2) + 1]

Typical(bouts) == IF bouts = <<>> THEN {} ELSE {TwiceMedian(bouts)}
Dwell(samples) == IF Len(samples) < 3 THEN {} ELSE Typical(Bouts(samples))

\* The newest records there are, newest first.
RecentForVehicle(history) ==
  LET sorted == SortSeq(history, LAMBDA a, b : a.time > b.time)
  IN SubSeq(sorted, 1, Min({HistoryLimit, Len(sorted)}))

\* The pairs of records, the newest first, that measure a speed.
Measured(records, latest) ==
  SelectSeq([k \in 1..(Len(records) - 1) |-> k],
            LAMBDA k : records[k].time > records[k + 1].time /\ latest - records[k].time <= HistoryWindow)

SpeedAt(records, k) ==
  (SpeedUnit * Abs(records[k].place - records[k + 1].place)) \div (records[k].time - records[k + 1].time)

\* Twice the median speed.
EstimateFromHistory(history, latest) ==
  LET records == RecentForVehicle(history)
      pairs == Measured(records, latest)
  IN IF pairs = <<>> THEN {} ELSE {TwiceMedian([n \in DOMAIN pairs |-> SpeedAt(records, pairs[n])])}

\* The reported speed unless it is missing or too slow, then the history's.
SelectSpeed(reported, history) ==
  IF \E v \in reported : v >= MinSpeed THEN Min(reported \cup {MaxSpeed})
  ELSE IF history # {} THEN Between(Min(history), MinSpeed, MaxSpeed)
  ELSE DefaultSpeed

\* Seconds times twice the speed: the way left, and a dwell at each station
\* before; the dwell is given as the double of it.
EtasAlong(at, distance, remaining, speed, dwell) ==
  [k \in DOMAIN remaining |->
     [stop |-> remaining[k], scaled |-> 2 * (at[remaining[k]] - distance) + dwell * (k - 1) * speed]]
Etas(trip, p, speed, dwell) ==
  EtasAlong(Distances(trip), VehicleDistance(trip, p), Remaining(trip, p), speed, dwell)

\* A predictor's seconds, unless they are malformed.
Predict(predictions, remaining) ==
  {s \in predictions : remaining # <<>> /\ Len(s) = Len(remaining) /\ \A k \in DOMAIN s : s[k] >= 0}
PredictedEtas(seconds, remaining) == [k \in DOMAIN remaining |-> [stop |-> remaining[k], scaled |-> seconds[k]]]

-----------------------------------------------------------------------------
(* ScheduleEstimatedPositionSource                                         *)

InterpolateAlong(trip, at, elapsed) ==
  LET stops == trip.stops
      n == Len(stops)
      dwelling == {i \in 2..(n - 1) : stops[i].arrives <= elapsed /\ elapsed <= stops[i].departs}
      riding == {i \in 1..(n - 1) : stops[i].departs <= elapsed /\ elapsed <= stops[i + 1].arrives}
      Way(i) == LET span == stops[i + 1].arrives - stops[i].departs
                IN IF span <= 0 THEN 0
                   ELSE ((elapsed - stops[i].departs) * (at[i + 1] - at[i])) \div span
  IN CASE elapsed <= stops[1].departs -> stops[1].place
       [] elapsed >= stops[n].arrives -> stops[n].place
       [] dwelling # {} -> stops[Min(dwelling)].place
       [] OTHER -> LET i == Min(riding) IN PointAt(trip.shape, at[i] + Way(i))
Interpolate(trip, elapsed) == InterpolateAlong(trip, Distances(trip), elapsed)

-----------------------------------------------------------------------------
(***************************************************************************)
(* The stop sequence never folds back, and the two views of a train agree: *)
(* no station it has passed, by locate, has an ETA, and every station from *)
(* the one locate calls next has one unless the train is within its        *)
(* radius; ETAs are never negative and come in the order of the stops,     *)
(* which only a predictor's may lack.                                      *)
(***************************************************************************)
StopsInOrder(trip) ==
  \A i, j \in DOMAIN trip.stops : i <= j => Distances(trip)[i] <= Distances(trip)[j]

Agree(due, shown, near) == due \subseteq shown /\ shown \ due \subseteq near
ViewsAgree(trip, p) ==
  Agree(ToSet(Remaining(trip, p)), ToSet(RemainingStations(trip, p)),
        Near(Distances(trip), VehicleDistance(trip, p)))

Ordered(etas) ==
  \A k, m \in DOMAIN etas : k <= m => 0 < etas[k].scaled /\ etas[k].scaled <= etas[m].scaled
OrDefault(dwell) == IF dwell = {} THEN DefaultDwell ELSE Min(dwell)
EtasInOrder(trip, p, seen) ==
  LET measured == {v \div (2 * SpeedUnit) : v \in EstimateFromHistory(seen.history, seen.latest)}
      predicted == Predict(seen.predictions, Remaining(trip, p))
  IN IF predicted = {}
     THEN Ordered(Etas(trip, p, SelectSpeed(seen.reported, measured), OrDefault(Dwell(seen.samples))))
     ELSE \A eta \in ToSet(PredictedEtas(CHOOSE s \in predicted : TRUE, Remaining(trip, p))) : eta.scaled >= 0

(***************************************************************************)
(* A train that keeps to the schedule is shown where the timetable has it: *)
(* between the stations it is between, or at one whose radius it is in.    *)
(***************************************************************************)
RightAt(shown, last) == shown.current = last \/ (shown.at /\ shown.current = last + 1)
ScheduleIsShown(trip, elapsed) ==
  RightAt(Locate(trip, Interpolate(trip, elapsed)),
          Max({i \in DOMAIN trip.stops : trip.stops[i].arrives <= elapsed \/ i = 1}))

(***************************************************************************)
(* The delay is the delay of the service day that the train belongs to.    *)
(* An early train of a service day that has not begun is given none.       *)
(***************************************************************************)
DelayIsOfItsDay(day, arrives, delay) ==
  LET eta == day * DayLength + arrives + delay
  IN Delay(eta, arrives) = IF arrives + delay < 0 THEN {} ELSE {delay}

(***************************************************************************)
(* The speed taken from the history lies between speeds that were measured *)
(* in the window, between records in the order of time; and what most of   *)
(* these say is what is taken, whatever a bad fix or a repeated time says. *)
(***************************************************************************)
SpeedIsMeasured(history, latest) ==
  LET records == RecentForVehicle(history)
      pairs == {k \in 2..Len(records) :
                  records[k].time < records[k - 1].time /\ records[k - 1].time >= latest - HistoryWindow}
      speeds == [k \in pairs |-> SpeedAt(records, k - 1)]
      estimate == EstimateFromHistory(history, latest)
  IN /\ estimate = {} <=> pairs = {}
     /\ \A v \in estimate :
          /\ 2 * Min(Range(speeds)) <= v /\ v <= 2 * Max(Range(speeds))
          /\ \A s \in Range(speeds) :
               2 * Cardinality({k \in pairs : speeds[k] = s}) > Cardinality(pairs) => v = 2 * s

(***************************************************************************)
(* The dwell estimate is the median of the maximal stationary runs.        *)
(***************************************************************************)
Runs(samples) ==
  LET n == Len(samples)
  IN {r \in (1..n) \X (1..n) :
        /\ r[1] < r[2] /\ \A k \in (r[1] + 1)..r[2] : samples[k].still
        /\ r[1] > 1 => ~samples[r[1]].still
        /\ r[2] < n => ~samples[r[2] + 1].still}
SameBag(bouts, lasts) ==
  /\ Len(bouts) = Cardinality(DOMAIN lasts)
  /\ \A d \in Range(lasts) :
       Cardinality({r \in DOMAIN lasts : lasts[r] = d}) = Cardinality({k \in DOMAIN bouts : bouts[k] = d})
BoutsAreRuns(samples) ==
  LET Lasts(r) == samples[r[2]].time - samples[r[1]].time
  IN SameBag(Bouts(samples),
             [r \in {q \in Runs(samples) : DwellMin <= Lasts(q) /\ Lasts(q) <= DwellMax} |-> Lasts(r)])
=============================================================================
