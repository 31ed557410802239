----------------------------- MODULE StationAdvice -----------------------------
(***************************************************************************)
(* What the curated tables say about stations: how busy they usually are   *)
(* at an hour and when it is quieter, which gates are step-free, where to  *)
(* park and ride; and the options of another planner.                      *)
(*                                                                         *)
(* Moments are hours since a Monday's midnight; distances are whole        *)
(* kilometres.  A field that may be missing is the set of its value.       *)
(***************************************************************************)
EXTENDS Integers, Sequences, FiniteSetsExt, SequencesExt, Functions

CONSTANTS HoursInDay,
          FirstHour,  \* the hour of a profile's first entry
          Offsets,    \* _SUGGESTION_WINDOW_HOURS, in order
          TopCount    \* candidates and options shown

-----------------------------------------------------------------------------
(* Usual crowding                                                          *)

\* Shares are fractions <<load, peak>>.
Less(r, s) == r[1] * s[2] < s[1] * r[2]
AtLeast(r, percent) == 100 * r[1] >= percent * r[2]

Level(r) == IF ~AtLeast(r, 35) THEN "quiet" ELSE IF ~AtLeast(r, 65) THEN "moderate"
            ELSE IF ~AtLeast(r, 85) THEN "busy" ELSE "peak"

DayKind(moment) == CASE (moment \div HoursInDay) % 7 = 5 -> "saturday"
                     [] (moment \div HoursInDay) % 7 = 6 -> "sunday"
                     [] OTHER -> "weekday"

HourIndex(moment) == (moment - FirstHour) % HoursInDay

\* A day without a profile of its own is like a weekday.
RatioAt(profile, moment) ==
  LET kind == IF DayKind(moment) \in DOMAIN profile THEN DayKind(moment) ELSE "weekday"
      entries == IF kind \in DOMAIN profile THEN profile[kind] ELSE <<>>
  IN {<<entries[HourIndex(moment) + 1], Max(Range(entries))>> : k \in {j \in {1} : entries # <<>> /\ Max(Range(entries)) > 0}}

\* Slip: an hour at which one station has no figure is judged by the others.
WorstWithGaps(profiles, moment) ==
  LET ratios == UNION {RatioAt(profiles[s], moment) : s \in DOMAIN profiles}
  IN {r \in ratios : \A q \in ratios : ~Less(r, q)}

\* The share of the busiest station, if every station has one.
Worst(profiles, moment) ==
  LET ratios == UNION {RatioAt(profiles[s], moment) : s \in DOMAIN profiles}
  IN IF \E s \in DOMAIN profiles : RatioAt(profiles[s], moment) = {} THEN {}
     ELSE {r \in ratios : \A q \in ratios : ~Less(r, q)}

Gains(now, then) == 100 * (now[1] * then[2] - then[1] * now[2]) >= 15 * now[2] * then[2]

\* The quieter hour: of the hours around moment, the first of the quietest,
\* if the busiest share of now is high and falls by enough.
Quieter(profiles, moment, now) ==
  LET share == [k \in DOMAIN Offsets |-> Worst(profiles, moment + Offsets[k])]
      Beats(k, j) == \A r \in share[k], q \in share[j] : Less(r, q) \/ (~Less(q, r) /\ k <= j)
      best == {k \in DOMAIN share : share[k] # {} /\ \A j \in DOMAIN share : Beats(k, j)}
  IN {moment + Offsets[k] : k \in {j \in best : \E r \in now : AtLeast(r, 65) /\ \A q \in share[j] : Gains(r, q)}}

ForecastOf(order, known, ratio, profiles, moment) ==
  [stops |-> [k \in DOMAIN known |-> [stop |-> known[k], level |-> Level(ratio[known[k]])]],
   noData |-> ToSet(order) \ ToSet(known),
   quieter |-> Quieter(profiles, moment, {r \in Range(ratio) : \A q \in Range(ratio) : ~Less(r, q)})]

\* CrowdForecastService.forecast: the stations asked, each with its profile if it has one.
Forecast(asked, profiles, moment) ==
  LET order == FoldLeft(LAMBDA seen, s : IF s \in ToSet(seen) THEN seen ELSE Append(seen, s), <<>>, asked)
      Known(s) == s \in DOMAIN profiles /\ RatioAt(profiles[s], moment) # {}
  IN ForecastOf(order, SelectSeq(order, Known),
                [s \in {t \in Range(asked) : Known(t)} |-> CHOOSE r \in RatioAt(profiles[s], moment) : TRUE],
                [s \in Range(asked) \cap DOMAIN profiles |-> profiles[s]], moment)

-----------------------------------------------------------------------------
(* Step-free gates                                                         *)

Ends(edges) == UNION edges

\* _component_of: what edges join to a node.
Component(node, edges) ==
  LET Grow(seen, k) == seen \cup UNION {e \in edges : e \cap seen # {}}
  IN FoldLeftDomain(LAMBDA seen, k : Grow(seen, k), {node}, [k \in 1..Cardinality(Ends(edges)) |-> k])

\* An edge is the set of its ends; one from a node to itself is none.
StepFreeGates(gates, lifts, platforms, edges) ==
  LET real == {e \in edges : Cardinality(e) = 2}
  IN {g \in gates \cap Ends(real) : /\ Component(g, real) \cap lifts # {}
                                    /\ Component(g, real) \cap platforms # {}}

-----------------------------------------------------------------------------
(* Park and ride, and the options of the door-to-door planner              *)

Capacity(lots, what) ==
  LET given == SelectSeq(lots, LAMBDA lot : lot[what] # {})
  IN {FoldLeft(LAMBDA sum, lot : sum + Max(lot[what]), 0, given) : k \in {1} \cap DOMAIN given}

Nearest(stops, km, metro) ==
  LET Routes(s) == s \in DOMAIN metro
      Key(s) == IF Routes(s) THEN 5 * km[s] + 2 * metro[s] ELSE km[s]
      Before(j, k) == \/ Routes(stops[j]) /\ ~Routes(stops[k])
                      \/ /\ Routes(stops[j]) = Routes(stops[k])
                         /\ \/ Key(stops[j]) < Key(stops[k])
                            \/ Key(stops[j]) = Key(stops[k]) /\ j < k
      ranked == SetToSortSeq(DOMAIN stops, Before)
  IN [k \in 1..Min({TopCount, Len(stops)}) |-> stops[ranked[k]]]

\* Minutes of metro from each station that routes there; the others come last.
ParkAndRide(facilities, places, destination, metro, at) ==
  LET Parks(f) == \E n \in Capacity(f.lots, "car") \cup Capacity(f.lots, "motorcycle") : n > 0
      fit == SelectSeq(facilities, LAMBDA f : Parks(f) /\ f.stop # destination /\ f.stop \in DOMAIN places)
  IN Nearest([k \in DOMAIN fit |-> fit[k].stop],
             [s \in DOMAIN places |-> IF places[s] < at THEN at - places[s] ELSE places[s] - at], metro)

\* normalize_options: options without a leg are skipped.
Options(answer) ==
  LET fit == SelectSeq(answer, LAMBDA o : o.legs # <<>>)
  IN SubSeq(fit, 1, Min({TopCount, Len(fit)}))

\* MultimodalPlanService.plan: options, or the reason why there are none.
DoorToDoor(configured, answer) ==
  CASE ~configured -> [options |-> <<>>, error |-> "not_configured"]
    [] configured /\ answer = {} -> [options |-> <<>>, error |-> "upstream_error"]
    [] OTHER -> LET found == Options(CHOOSE a \in answer : TRUE)
                IN [options |-> found, error |-> IF found = <<>> THEN "no_route" ELSE ""]

-----------------------------------------------------------------------------
(***************************************************************************)
(* Every station asked about is shown or said to have no data.  A trip is  *)
(* moved only off a busy hour to one at which every station with a profile *)
(* is known to be quieter, by 15 points of the busiest, and no hour of     *)
(* the window beats it.                                                    *)
(***************************************************************************)
ForecastIsRight(asked, profiles, moment) ==
  \E f \in {Forecast(asked, profiles, moment)} :
  LET shown == {f.stops[k].stop : k \in DOMAIN f.stops}
      here == {s \in Range(asked) : s \in DOMAIN profiles}
  IN /\ shown \cup f.noData = Range(asked) /\ shown \cap f.noData = {}
     /\ f.quieter # {} => \E s \in DOMAIN f.stops : f.stops[s].level \in {"busy", "peak"}
     /\ \A then \in f.quieter :
          /\ \A s \in here : RatioAt(profiles[s], then) # {}
          /\ \E s \in shown : \A t \in here : \A now \in RatioAt(profiles[s], moment), r \in RatioAt(profiles[t], then) :
               Gains(now, r)
          /\ \A d \in Range(Offsets) :
               \/ \E s \in here : RatioAt(profiles[s], moment + d) = {}
               \/ \E s \in here : \A t \in here : \A q \in RatioAt(profiles[s], moment + d), r \in RatioAt(profiles[t], then) :
                    ~Less(q, r)

(***************************************************************************)
(* A gate is step-free if edges lead from it to a lift and to a platform,  *)
(* through nodes of any kind; edges to nowhere and loops count for nothing.*)
(***************************************************************************)
GatesAreStepFree(gates, lifts, platforms, edges) ==
  LET nodes == Ends(edges)
      Joined(a, b) == \E n \in 2..Cardinality(nodes) : \E path \in [1..n -> nodes] :
                        path[1] = a /\ path[n] = b /\ \A k \in 1..(n - 1) : {path[k], path[k + 1]} \in edges /\ path[k] # path[k + 1]
  IN StepFreeGates(gates, lifts, platforms, edges)
       = {g \in gates \cap nodes : (\E l \in lifts \cap nodes : l = g \/ Joined(g, l)) /\ \E p \in platforms \cap nodes : p = g \/ Joined(g, p)}

(***************************************************************************)
(* A station is offered only if one can park there, none twice and never   *)
(* the destination; one with a way on comes before those without, and      *)
(* none that is both nearer and faster is passed over.                     *)
(***************************************************************************)
ParkingIsRight(facilities, places, destination, metro, at) ==
  \E ranked \in {ParkAndRide(facilities, places, destination, metro, at)} :
  LET Km(s) == IF places[s] < at THEN at - places[s] ELSE places[s] - at
      fit == {f.stop : f \in {g \in Range(facilities) : g.stop \in DOMAIN places /\ g.stop # destination
                 /\ \E lot \in Range(g.lots) : \E n \in lot.car \cup lot.motorcycle : n > 0}}
  IN /\ Range(ranked) \subseteq fit /\ Cardinality(Range(ranked)) = Len(ranked)
     /\ Len(ranked) = Min({TopCount, Cardinality(fit)})
     /\ \A s \in Range(ranked), t \in fit \ Range(ranked) : t \in DOMAIN metro => s \in DOMAIN metro
     /\ \A j, k \in DOMAIN ranked : ranked[j] \in DOMAIN metro /\ ranked[k] \in DOMAIN metro
          /\ Km(ranked[j]) < Km(ranked[k]) /\ metro[ranked[j]] < metro[ranked[k]] => j < k

\* An answer without a usable option is told as such, and no option is
\* shown without a way to go.
OptionsAreRight(configured, answer) ==
  LET r == DoorToDoor(configured, answer)
  IN /\ (r.error = "") = (r.options # <<>>)
     /\ \A k \in DOMAIN r.options : r.options[k].legs # <<>>
     /\ r.options # <<>> => configured /\ \E a \in answer : Head(r.options) \in Range(a)
==============================================================================
