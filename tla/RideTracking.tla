----------------------------- MODULE RideTracking -----------------------------
(***************************************************************************)
(* How far a ride has got, as the phone sees it: from the rider's own fix  *)
(* (JourneyTracker), from the stops its accelerometer counts               *)
(* (MotionStopCounter), from the plan's timetable and from a live train    *)
(* (journey_timetable.dart, journey_progress.dart).                        *)
(*                                                                         *)
(* Stations lie on a line, in the order of the ride; the tracker's index   *)
(* n is n + 1 here, and 0 before the first.  A fix is [place, accuracy,    *)
(* at].  The tracking service passes a counter that nothing feeds, so its  *)
(* count stays 0; the tracker is asked about any count.                    *)
(***************************************************************************)
EXTENDS Integers, Sequences, FiniteSets, SequencesExt, FiniteSetsExt

CONSTANTS ArrivalRadius, ApproachRadius, MaxAccuracy, MaxFixAge,
          Window, Threshold, MinimumDwell, MinimumRun

Distance(a, b) == IF a < b THEN b - a ELSE a - b

\* The station nearest to a place, the first of several.
NearestStation(stations, place) ==
  CHOOSE i \in DOMAIN stations : \A j \in DOMAIN stations :
    \/ Distance(stations[i], place) < Distance(stations[j], place)
    \/ Distance(stations[i], place) = Distance(stations[j], place) /\ i <= j

Gaps(stations, i) ==
  {Distance(stations[i], stations[j]) : j \in {i - 1, i + 1} \cap DOMAIN stations}

\* Slip: a coarse fix counts although it is as wide as a gap.
Coarse(stations, fix) == \E gap \in Gaps(stations, NearestStation(stations, fix.place)) : fix.accuracy <= gap

\* Within half of the tightest gap next to the nearest station.
Decisive(stations, fix) ==
  LET gaps == Gaps(stations, NearestStation(stations, fix.place)) IN
  gaps # {} /\ Min(gaps) > 0 /\ 2 * fix.accuracy <= Min(gaps)

\* fixQuality: of a fix, if there is one.
FixQuality(stations, fix, now) ==
  IF fix = {} THEN "none" ELSE
  LET f == CHOOSE f \in fix : TRUE IN
  CASE now < f.at \/ now - f.at > MaxFixAge -> "none"
    [] OTHER -> IF f.accuracy <= MaxAccuracy THEN "gps"
                ELSE IF Decisive(stations, f) THEN "approximate" ELSE "none"

\* Progress never goes back, nor beyond the last station.
Further(stations, reached, claims) == Min({Len(stations), Max({reached} \cup claims)})

\* update without a usable fix: stops counted, or else the timetable's index.
WithoutFix(stations, reached, counted, scheduled) ==
  LET byCount == {n + 1 : n \in counted}
      ahead == \E n \in byCount : n > reached IN
  [reached |-> Further(stations, reached, IF ahead THEN byCount ELSE {n + 1 : n \in scheduled}),
   source |-> IF counted # {} THEN "stopCount" ELSE "schedule",
   metres |-> {}]

\* update with one: a station counts only when the rider is at it.
WithFix(stations, reached, place, quality) ==
  LET i == NearestStation(stations, place)
      now == Further(stations, reached, IF Distance(stations[i], place) <= ArrivalRadius THEN {i} ELSE {})
  IN [reached |-> now, source |-> quality,
      metres |-> {Distance(place, stations[n]) : n \in {now + 1} \cap DOMAIN stations}]

\* update
Update(stations, reached, ask) ==
  LET quality == FixQuality(stations, ask.fix, ask.now) IN
  IF stations = <<>> THEN [reached |-> reached, source |-> "schedule", metres |-> {}]
  ELSE IF quality = "none" THEN WithoutFix(stations, reached, ask.counted, ask.scheduled)
  ELSE WithFix(stations, reached, (CHOOSE f \in ask.fix : TRUE).place, quality)

\* _build: what the notification says.
Shown(stations, update) ==
  [next |-> {update.reached + 1} \cap DOMAIN stations,
   remaining |-> Len(stations) - update.reached,
   approaching |-> \E m \in update.metres : m <= ApproachRadius,
   final |-> update.reached + 1 = Len(stations)]

Follow(stations, asks) ==
  FoldLeft(LAMBDA done, ask : Append(done, Update(stations, Last(done).reached, ask)),
           <<[reached |-> 0, source |-> "schedule", metres |-> {}]>>, asks)

(***************************************************************************)
(* A rider who is told that a station is behind has been near it, as far   *)
(* as an honest fix can tell, or has counted so many stops.  No fix, stray *)
(* or stale, takes progress back or counts when it is not from now; "get   *)
(* ready" is only said of a station a usable fix has measured.             *)
(***************************************************************************)
UpdateIsHonest(stations, before, update, ask) ==
  LET after == update.reached
      fresh == {f \in ask.fix : f.at \in (ask.now - MaxFixAge)..ask.now}
      shown == Shown(stations, update) IN
  /\ before <= after
  /\ after > before =>
       \/ \E f \in fresh : /\ Distance(stations[after], f.place) <= ArrivalRadius
                           /\ \/ f.accuracy <= MaxAccuracy
                              \/ \A gap \in Gaps(stations, after) : 2 * f.accuracy <= gap
       \/ \E n \in ask.counted \cup ask.scheduled : after \in {n + 1, Len(stations)}
  /\ (\E f \in fresh, n \in {Len(stations)} \cap DOMAIN stations :
         f.accuracy <= MaxAccuracy /\ f.place = stations[n]) => shown.next = {}
  /\ shown.approaching => \E f \in fresh, n \in shown.next : Distance(stations[n], f.place) <= ApproachRadius
  /\ update.source \in {"stopCount", "schedule"} => ~shown.approaching

RideIsTracked(stations, asks) ==
  LET told == Follow(stations, asks)
  IN \A k \in DOMAIN asks : UpdateIsHonest(stations, told[k].reached, told[k + 1], asks[k])

-----------------------------------------------------------------------------
(* MotionStopCounter: samples of the magnitude of the acceleration.        *)

\* _standardDeviation below the threshold, of three samples at least.
IsStill(recent) ==
  LET n == Len(recent)
      sum == FoldLeft(LAMBDA t, s : t + s.magnitude, 0, recent)
      squares == FoldLeft(LAMBDA t, s : t + s.magnitude * s.magnitude, 0, recent)
  IN n >= 3 /\ n * squares - sum * sum < n * n * Threshold * Threshold

NoStops == [recent |-> <<>>, stops |-> 0, since |-> {}, departed |-> {}, counted |-> FALSE]

\* Slip: how long the train ran before it stopped is not looked at.
CountsAnyway(departed, since) == TRUE
RanLongEnough(departed, since) == \A d \in departed : since - d >= MinimumRun

\* add
AddSample(c, sample) ==
  LET recent == Append(SelectSeq(c.recent, LAMBDA s : s.at >= sample.at - Window), sample)
      still == IsStill(recent)
      since == IF ~still THEN {} ELSE IF c.since = {} THEN {sample.at} ELSE c.since
      departed == IF ~still /\ c.since # {} THEN {sample.at} ELSE c.departed
      counted == c.counted /\ c.since # {}
      counts == /\ ~counted
                /\ \E t \in since : sample.at - t >= MinimumDwell /\ RanLongEnough(departed, t)
  IN [recent |-> recent, stops |-> c.stops + (IF counts THEN 1 ELSE 0), since |-> since,
      departed |-> departed, counted |-> counted \/ counts]

CountStops(samples) == FoldLeft(AddSample, NoStops, samples).stops

(***************************************************************************)
(* Of every stretch of stillness at most one stop is counted: of those     *)
(* that last as long as a stop at a platform does, and before which the    *)
(* train ran for as long as it takes from one station to the next.         *)
(***************************************************************************)
StopsAreCounted(samples) ==
  LET still == {k \in DOMAIN samples :
                  IsStill(SelectSeq(SubSeq(samples, 1, k), LAMBDA s : s.at >= samples[k].at - Window))}
      begins == {i \in still : i - 1 \notin still}
      last(i) == CHOOSE j \in still : j >= i /\ i..j \subseteq still /\ j + 1 \notin still
      ran(i) == LET before == {k \in still : k < i} IN
                before = {} \/ samples[i].at - samples[Max(before) + 1].at >= MinimumRun
  IN CountStops(samples) =
       Cardinality({i \in begins : samples[last(i)].at - samples[i].at >= MinimumDwell /\ ran(i)})

-----------------------------------------------------------------------------
(* The plan's timetable and the two sources of progress.  A leg is [ride,  *)
(* wait, seconds, stations]; a walk has no stations.                       *)

Hops(leg) == Len(leg.stations) - 1
Calls(leg, from) ==
  [i \in 1..Hops(leg) |-> [stop |-> leg.stations[i + 1], at |-> from + (i * leg.seconds) \div Hops(leg)]]

\* fromPlan: a ride of no hop takes its waiting time only.
AddLeg(table, leg) ==
  LET boarded == table.arrives + leg.wait IN
  CASE ~leg.ride -> [table EXCEPT !.arrives = @ + leg.seconds]
    [] leg.ride /\ Hops(leg) <= 0 -> [table EXCEPT !.arrives = boarded]
    [] OTHER -> [stops |-> table.stops \o Calls(leg, boarded), arrives |-> boarded + leg.seconds]

FromPlan(plan, start) == FoldLeft(AddLeg, [stops |-> <<>>, arrives |-> start], plan)

\* at
At(table, now) ==
  LET ahead == {k \in DOMAIN table.stops : table.stops[k].at > now}
      passed == IF ahead = {} THEN Len(table.stops) ELSE Min(ahead) - 1 IN
  [next |-> {table.stops[passed + 1].stop : k \in ahead}, remaining |-> Len(table.stops) - passed,
   arrived |-> IF table.stops = <<>> THEN now >= table.arrives ELSE ahead = {},
   eta |-> IF ahead = {} THEN 0 ELSE Max({0, table.arrives - now})]

\* fromTimetable
FromTimetable(table, now) ==
  LET here == At(table, now) IN
  [next |-> here.next, remaining |-> {here.remaining}, arrived |-> here.arrived,
   soon |-> here.remaining = 1, boarded |-> here.remaining = Len(table.stops)]

\* remainingToDestination: what is unknown is empty.
RemainingTo(ids, destination) ==
  IF ids = <<>> THEN {0}
  ELSE {k \in DOMAIN ids : ids[k] = destination /\ \A j \in 1..(k - 1) : ids[j] # destination}

\* fromLiveTrain: of the stations the train has before it.
FromLiveTrain(ids, destination, total) ==
  LET remaining == RemainingTo(ids, destination) IN
  [next |-> {ids[k] : k \in DOMAIN ids \cap {1}}, remaining |-> remaining, arrived |-> remaining = {0},
   soon |-> remaining = {1}, boarded |-> \E n \in remaining : n >= total]

(***************************************************************************)
(* The stops are in the order of their times; waits and walks are not      *)
(* lost.  The timetable and a train that is on time tell the rider the     *)
(* same until the destination; of a train that goes on beyond it, the live *)
(* source then tells nothing, not even that the rider has arrived.         *)
(***************************************************************************)
ProgressAgrees(plan, now, beyond) ==
  LET table == FromPlan(plan, 0)
      total == Len(table.stops)
      passed == Cardinality({k \in 1..total : table.stops[k].at <= now})
      ids == [k \in 1..(total - passed) |-> table.stops[passed + k].stop]
      rides == SelectSeq(plan, LAMBDA leg : ~leg.ride \/ Hops(leg) > 0)
      took == FoldLeft(LAMBDA t, leg : t + leg.wait, 0, plan)
                + FoldLeft(LAMBDA t, leg : t + leg.seconds, 0, rides)
      shown == FromTimetable(table, now) IN
  /\ \A j, k \in 1..total : j <= k => table.stops[j].at <= table.stops[k].at
  /\ table.arrives = took
  /\ shown.remaining = {total - passed} /\ (total > 0 => (shown.arrived <=> passed = total))
  /\ total > 0 =>
       LET destination == table.stops[total].stop IN
       IF passed < total \/ beyond = <<>> THEN
         LET live == FromLiveTrain(ids \o beyond, destination, total) IN
         IF passed < total THEN live = shown ELSE live.arrived /\ live.remaining = {0}
       ELSE FromLiveTrain(beyond, destination, total).remaining = {}
=============================================================================
