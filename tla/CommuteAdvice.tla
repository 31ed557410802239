----------------------------- MODULE CommuteAdvice -----------------------------
(***************************************************************************)
(* What is learnt from the journeys of riders: their places, their next    *)
(* commute, the usual delay of a line, what their trips cost and save; and *)
(* the recommendation and the commute card built on such answers.          *)
(*                                                                         *)
(* Moments count from a Monday's midnight, UTC.  A journey has its ends,   *)
(* its status, when it started and the set of when it ended, and histories *)
(* are newest first, as the database yields them.                          *)
(***************************************************************************)
EXTENDS Integers, Sequences, FiniteSetsExt, SequencesExt, Functions

CONSTANTS HourLength, Minute,
          Lookback,     \* how far back a history is read
          HistoryLimit, \* and how many journeys
          LocalOffset,  \* local time less UTC
          Floor,        \* the least bound of a refinement, and a delay worth mentioning
          Slabs, Beyond \* upper bounds and fares, ascending; the fare beyond

WholeDay == 24 * HourLength
TimeOfDay(t) == t % WholeDay
Hour(t) == TimeOfDay(t) \div HourLength
Weekend(t) == (t \div WholeDay) % 7 >= 5

Gap(a, b) == IF a < b THEN b - a ELSE a - b
AtLeastZero(n) == IF n < 0 THEN 0 ELSE n
First(s, n) == SubSeq(s, 1, Min({n, Len(s)}))

\* The first of the smallest, and the most frequent value, the first of those.
Least(s, Key(_)) == {s[k] : k \in {j \in DOMAIN s : \A i \in DOMAIN s : Key(s[j]) < Key(s[i]) \/ (Key(s[j]) = Key(s[i]) /\ j <= i)}}
Count(x, s) == Len(SelectSeq(s, LAMBDA y : y = x))
MostCommon(s) == Least(s, LAMBDA x : -Count(x, s))

Median(s) ==
  LET sorted == SortSeq(s, LAMBDA a, b : a < b) n == Len(s)
  IN IF n % 2 = 1 THEN sorted[n \div 2 + 1] ELSE (sorted[n \div 2] + sorted[n \div 2 + 1]) \div 2

-----------------------------------------------------------------------------
(* Places                                                                  *)

Counted(history, now) ==
  SelectSeq(First(history, HistoryLimit), LAMBDA j : j.status \in {"completed", "missed"} /\ j.start >= now - Lookback)

Place(s, role, stops) == {[stop |-> x, role |-> role, count |-> Count(x, s)] : x \in MostCommon(s) \cap stops}

\* PlaceRoleInferenceService.infer
InferPlaces(history, now, stops) ==
  LET matching == Counted(history, now)
      home == Place([k \in DOMAIN matching |-> matching[k].from], "home", stops)
      From(h) == SelectSeq(matching, LAMBDA j : j.from = h.stop /\ j.to # h.stop /\ ~Weekend(j.start))
      anchor == UNION {Place([k \in DOMAIN From(h) |-> From(h)[k].to], "anchor", stops) : h \in home}
  IN SetToSeq(home) \o SetToSeq(anchor)

-----------------------------------------------------------------------------
(* The next commute                                                        *)

CircularDistance(a, b) == Min({Gap(a, b), WholeDay - Gap(a, b)})

\* A time that has passed by over an hour is tomorrow's.
AtTimeOfDay(now, time) ==
  LET today == (now - TimeOfDay(now)) + time
  IN IF today < now - HourLength THEN today + WholeDay ELSE today

\* Slip: the nearest pair wins, however seldom it was travelled.
ClosestToNow(pairs, times, now) ==
  Least(pairs, LAMBDA p : CircularDistance(Median(times[p]), TimeOfDay(now)))

\* The pair travelled most; of those, the one whose time is closest to now.
LikeliestPair(pairs, times, now) ==
  LET most == Max({Len(times[p]) : p \in Range(pairs)})
  IN Least(SelectSeq(pairs, LAMBDA p : Len(times[p]) = most),
           LAMBDA p : CircularDistance(Median(times[p]), TimeOfDay(now)))

\* CommutePredictionService.predict; none without a history or its stations.
Predict(history, now, stops) ==
  LET matching == SelectSeq(Counted(history, now), LAMBDA j : Weekend(j.start) = Weekend(now))
      pairs == [k \in DOMAIN matching |-> <<matching[k].from, matching[k].to>>]
      times == [p \in Range(pairs) |->
                  LET of == SelectSeq(matching, LAMBDA j : <<j.from, j.to>> = p)
                  IN [k \in DOMAIN of |-> TimeOfDay(of[k].start)]]
  IN IF matching = <<>> THEN {}
     ELSE {[pair |-> p, departs |-> AtTimeOfDay(now, Median(times[p])), samples |-> Len(times[p])] :
             p \in {q \in LikeliestPair(pairs, times, now) : {q[1], q[2]} \subseteq stops}}

-----------------------------------------------------------------------------
(* The usual delay                                                         *)

\* completed_by_route: journeys of a route, newest first.
CompletedSince(journeys, since, limit) ==
  First(SelectSeq(journeys, LAMBDA j : j.status = "completed" /\ j.end # {} /\ j.start >= since), limit)

HourDistance(a, b) == Min({Gap(a, b), 24 - Gap(a, b)})

\* DelayPredictionService.estimate, with what the planner would have said of each trip.
EstimateDelay(journeys, planned, now) ==
  LET took(j) == Max(j.end) - j.start
      plausible == SelectSeq(CompletedSince(journeys, now - Lookback, HistoryLimit), LAMBDA j :
                     /\ HourDistance(Hour(j.start), Hour(now)) <= 1
                     /\ Minute <= took(j) /\ took(j) <= 3 * HourLength
                     /\ <<j.from, j.to>> \in DOMAIN planned)
      deltas == [k \in DOMAIN plausible |-> took(plausible[k]) - planned[<<plausible[k].from, plausible[k].to>>]]
  IN [delay |-> IF deltas = <<>> THEN 0 ELSE Median(deltas), samples |-> Len(deltas)]

\* LlmEnhancedDelayEstimator.estimate; the refinement may move the estimate by half.
Enhanced(baseline, cached) ==
  LET bound == Max({Floor, Gap(baseline.delay, 0) \div 2})
      Bounded(d) == Max({-bound, Min({bound, d})})
  IN IF baseline.samples = 0 \/ cached = {} THEN baseline
     ELSE [baseline EXCEPT !.delay = @ + Bounded(Max(cached) - @)]

-----------------------------------------------------------------------------
(* The recommendation and the card                                         *)

\* Options in the order of the preferences; one that only walks has no delay.
Adjusted(o) == o.travel + (IF o.rides THEN AtLeastZero(o.delay) ELSE 0)
Recommend(options, at) ==
  LET best == Least(options, Adjusted)
      Buffer(o) == Adjusted(o) - o.travel
  IN {[option |-> o, departs |-> IF Buffer(o) >= Floor THEN at - Buffer(o) ELSE at] : o \in best}

\* The last favourite with a label counts; without both labels the first two do.
Endpoints(favourites, now) ==
  LET At(labels) == {favourites[Max(S)].stop : S \in {{k \in DOMAIN favourites : favourites[k].label = l} : l \in labels} \ {{}}}
      office == IF At({"work"}) # {} THEN At({"work"}) ELSE At({"office"})
      pair == IF At({"home"}) # {} /\ office # {} THEN <<Max(At({"home"})), Max(office)>>
              ELSE IF Len(favourites) >= 2 THEN <<favourites[1].stop, favourites[2].stop>> ELSE <<>>
  IN IF pair = <<>> \/ Hour(now + LocalOffset) < 12 THEN pair ELSE Reverse(pair)

\* The wait for the first train is known, the others are the planner's.
InVehicle(legs) ==
  LET Add(sum, leg) ==
        IF leg.kind = "walk" THEN [sum EXCEPT !.total = @ + leg.seconds]
        ELSE [total |-> sum.total + leg.seconds + (IF sum.boarded THEN leg.wait ELSE 0), boarded |-> TRUE]
  IN FoldLeft(Add, [total |-> 0, boarded |-> FALSE], legs).total

\* The times of CommuteCardService.build; no departure, no times.
Card(now, walk, departure, legs) ==
  {[departs |-> d, leaveBy |-> d - walk, leaveIn |-> AtLeastZero((d - walk) - now), arrives |-> d + InVehicle(legs)] :
     d \in departure}

-----------------------------------------------------------------------------
(* Fares and savings                                                       *)

SlabFare(km) ==
  LET within == {k \in DOMAIN Slabs : km <= Slabs[k].upTo}
  IN IF within = {} THEN Beyond ELSE Slabs[Min(within)].fare

\* The hour is that of the stored time, in UTC.
OffPeak(t) == Hour(t) < 8 \/ (12 <= Hour(t) /\ Hour(t) < 17) \/ Hour(t) >= 21

Known(j, places) == {j.from, j.to} \subseteq DOMAIN places
Km(j, places) == Gap(places[j.from], places[j.to])

\* FareAdvisorService.summary, savings in hundredths.
FareSummary(journeys, places, now) ==
  LET counted == SelectSeq(CompletedSince(journeys, now - Lookback, HistoryLimit), LAMBDA j : Known(j, places))
      Sum(Weight(_)) == FoldLeft(LAMBDA sum, j : sum + Weight(j) * SlabFare(Km(j, places)), 0, counted)
  IN [trips |-> Len(counted), spend |-> Sum(LAMBDA j : 1), card |-> Sum(LAMBDA j : 10),
      offPeak |-> Sum(LAMBDA j : IF OffPeak(j.start) THEN 9 ELSE 0)]

\* _build_replay: the road at 18 km/h, the cab at 40 and 16 for each kilometre.
Replay(j, places) ==
  {[money |-> AtLeastZero(40 + 16 * Km(j, places) - SlabFare(Km(j, places))),
    time |-> AtLeastZero((Km(j, places) * HourLength) \div 18 - AtLeastZero(end - j.start))] :
     end \in {e \in j.end : Known(j, places)}}

\* CommuteImpactService.monthly_summary and latest_trip.
MonthlyReplay(journeys, places, now) ==
  LET counted == SelectSeq(CompletedSince(journeys, now - Lookback, HistoryLimit), LAMBDA j : Replay(j, places) # {})
      Of(j) == CHOOSE r \in Replay(j, places) : TRUE
  IN [trips |-> Len(counted), money |-> FoldLeft(LAMBDA sum, j : sum + Of(j).money, 0, counted),
      time |-> FoldLeft(LAMBDA sum, j : sum + Of(j).time, 0, counted)]
LatestTrip(journeys, places) ==
  LET ended == SelectSeq(journeys, LAMBDA j : j.status = "completed" /\ j.end # {})
  IN UNION {Replay(j, places) : j \in Least(ended, LAMBDA j : -Max(j.end))}

-----------------------------------------------------------------------------
(***************************************************************************)
(* The home is a station of the timetable at which no other has as many    *)
(* trips begin; the anchor is another one, and never more certain than the *)
(* home, so the places come "most confident first".                        *)
(***************************************************************************)
PlacesAreRight(history, now, stops) ==
  LET places == InferPlaces(history, now, stops)
      Trips(s) == {k \in DOMAIN Counted(history, now) : Counted(history, now)[k].from = s}
  IN /\ \A k \in DOMAIN places : places[k].stop \in stops
     /\ places # <<>> => /\ places[1].role = "home" /\ places[1].count = Cardinality(Trips(places[1].stop))
                         /\ \A s \in stops : Cardinality(Trips(s)) <= places[1].count
     /\ Len(places) = 2 => places[2].stop # places[1].stop /\ places[2].count <= places[1].count

(***************************************************************************)
(* The commute predicted is one the rider makes on this kind of day, none  *)
(* more often, and none as often always at one time closer to now.  It     *)
(* departs within a day, between the earliest and the latest of its times  *)
(* (of the UTC day: trips around midnight meet at noon), and on a day of   *)
(* that kind unless that is tomorrow.                                      *)
(***************************************************************************)
PredictionIsRight(history, now, stops) ==
  \A p \in Predict(history, now, stops) :
    LET alike == {j \in Range(Counted(history, now)) : Weekend(j.start) = Weekend(now)}
        Trips(pair) == {k \in DOMAIN Counted(history, now) :
                          Counted(history, now)[k] \in alike /\ <<Counted(history, now)[k].from, Counted(history, now)[k].to>> = pair}
        Times(pair) == {TimeOfDay(Counted(history, now)[k].start) : k \in Trips(pair)}
    IN /\ p.samples = Cardinality(Trips(p.pair)) /\ p.samples > 0
       /\ \A j \in alike :
            \/ Cardinality(Trips(<<j.from, j.to>>)) < p.samples
            \/ /\ Cardinality(Trips(<<j.from, j.to>>)) = p.samples
               /\ \A t \in Times(<<j.from, j.to>>) : Times(<<j.from, j.to>>) = {t} =>
                    CircularDistance(TimeOfDay(p.departs), TimeOfDay(now)) <= CircularDistance(t, TimeOfDay(now))
       /\ Min(Times(p.pair)) <= TimeOfDay(p.departs) /\ TimeOfDay(p.departs) <= Max(Times(p.pair))
       /\ now - HourLength <= p.departs /\ p.departs < (now - HourLength) + WholeDay
       /\ Weekend(p.departs) # Weekend(now) => p.departs \div WholeDay = now \div WholeDay + 1

(***************************************************************************)
(* Only trips around this hour of the clock count.  A refinement moves the *)
(* delay by no more than its bound and never the number of samples, and it *)
(* turns no delay of Floor or more into an early arrival; without samples  *)
(* there is nothing to refine.                                             *)
(***************************************************************************)
DelayIsRight(journeys, planned, now, cached) ==
  LET base == EstimateDelay(journeys, planned, now)
      told == Enhanced(base, cached)
      around == {k \in DOMAIN journeys : \E shift \in {-1, 0, 1} : (Hour(journeys[k].start) + shift) % 24 = Hour(now)}
  IN /\ told.samples = base.samples /\ base.samples <= Cardinality(around)
     /\ Gap(told.delay, base.delay) <= Max({Floor, Gap(base.delay, 0) \div 2})
     /\ base.samples = 0 => told.delay = 0
     /\ base.delay >= Floor => told.delay >= 0
     /\ base.delay <= -Floor => told.delay <= 0

\* No option is faster once the usual delay is counted, and who leaves as
\* told and meets that delay is late by less than one worth mentioning.
RecommendationIsRight(options, at) ==
  \A r \in Recommend(options, at) :
    /\ \A k \in DOMAIN options : Adjusted(r.option) <= Adjusted(options[k])
    /\ r.departs <= at
    /\ r.departs + Adjusted(r.option) < at + r.option.travel + Floor
    /\ r.departs < at => r.option.rides

(***************************************************************************)
(* In the evening the card shows the way back, of the labelled stations    *)
(* when both are; it counts every wait but the first.                      *)
(***************************************************************************)
CardIsRight(favourites, now, walk, departure, legs) ==
  LET waits == SelectSeq(legs, LAMBDA leg : leg.kind = "ride")
      all == FoldLeft(LAMBDA sum, leg : sum + leg.seconds + (IF leg.kind = "ride" THEN leg.wait ELSE 0), 0, legs)
      ends == Endpoints(favourites, now)
      Labelled(l) == \E k \in DOMAIN favourites : favourites[k].label = l
  IN /\ ends # <<>> => ends[1] # ends[2] /\ Endpoints(favourites, now + WholeDay \div 2) = Reverse(ends)
     /\ Labelled("home") /\ (Labelled("work") \/ Labelled("office")) =>
          \A k \in {1, 2} : \E f \in Range(favourites) : f.stop = ends[k] /\ f.label # ""
     /\ \A c \in Card(now, walk, departure, legs) :
          /\ c.arrives - c.departs = all - (IF waits = <<>> THEN 0 ELSE waits[1].wait)
          /\ now + c.leaveIn + walk >= c.departs
          /\ c.leaveIn > 0 => now + c.leaveIn = c.leaveBy

(***************************************************************************)
(* The two summaries of a month count the same trips, farther never costs  *)
(* less, and the trip replayed is the one that ended last.                 *)
(***************************************************************************)
FaresAreRight(journeys, places, now) ==
  LET fares == FareSummary(journeys, places, now)
      real == {j \in Range(journeys) : Known(j, places)}
      ended == {j \in Range(journeys) : j.status = "completed" /\ j.end # {}}
  IN /\ fares.trips = MonthlyReplay(journeys, places, now).trips
     /\ fares.offPeak * 10 <= 9 * fares.card /\ fares.card = 10 * fares.spend
     /\ \A j, k \in real : Km(j, places) <= Km(k, places) => SlabFare(Km(j, places)) <= SlabFare(Km(k, places))
     /\ \A r \in LatestTrip(journeys, places) : \E j \in ended : r \in Replay(j, places) /\ \A k \in ended : Max(k.end) <= Max(j.end)
==============================================================================
