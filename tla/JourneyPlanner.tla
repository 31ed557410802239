--------------------------- MODULE JourneyPlanner ---------------------------
(***************************************************************************)
(* JourneyPlanner: the network of a dataset, the search for a cheapest     *)
(* path, and the plan that is shown.                                       *)
(*                                                                         *)
(* A network has stops, each with a place on a line (lengths are           *)
(* differences) and a parent station, and trips in the order the database  *)
(* yields them, each with its route, direction and calls.  A node of the   *)
(* search is <<"at", stop>> or <<"on", pattern, index>>.  Entries of the   *)
(* heap with equal costs come out in any order.  For one question the      *)
(* search runs for each preference, and once without a target              *)
(* (travel_seconds_from).                                                  *)
(***************************************************************************)
EXTENDS Integers, FiniteSetsExt, SequencesExt

CONSTANTS Networks,
          WalkMax, TransferOverhead, BoardPenalty, MinHop,
          FewerTransfersFactor, LessWalkingFactor \* 4 and 6

Preferences == <<"fastest", "fewer_transfers", "less_walking", "everywhere">>

VARIABLES
  network, origin, destination,
  searched,          \* how many of the searches are over
  best, prev, queue, \* of the search under way
  plans              \* the plans found so far; NoRoute when there is none

plannerVars == <<network, origin, destination, searched, best, prev, queue, plans>>

-----------------------------------------------------------------------------
(* The network.                                                            *)

Pattern(n, key) ==
  LET OfKey == {i \in DOMAIN n.trips : <<n.trips[i].route, n.trips[i].direction>> = key}
      longest == Max({Len(n.trips[i].calls) : i \in OfKey})
  IN n.trips[Min({i \in OfKey : Len(n.trips[i].calls) = longest})].calls

Patterns(n) ==
  {key \in {<<n.trips[i].route, n.trips[i].direction>> : i \in DOMAIN n.trips} :
     Len(Pattern(n, key)) >= 2}

Distance(n, a, b) ==
  IF n.stops[a].place < n.stops[b].place THEN n.stops[b].place - n.stops[a].place
                                         ELSE n.stops[a].place - n.stops[b].place

SameComplex(n, a, b) == n.stops[a].parent # "" /\ n.stops[a].parent = n.stops[b].parent

Walkable(n, a) ==
  {b \in DOMAIN n.stops \ {a} : Distance(n, a, b) <= WalkMax \/ SameComplex(n, a, b)}

WalkSeconds(n, a, b) == Distance(n, a, b) + TransferOverhead

\* What the planner relies on: places to measure, calls at stops, and a number
\* of trips.
Call(n) == [stop : DOMAIN n.stops, arrives : Int, departs : Int]
NetworkFits(n) ==
  /\ \A s \in DOMAIN n.stops : n.stops[s].place \in Int
  /\ \A i \in DOMAIN n.trips : n.trips[i].calls \in Seq(Call(n))
  /\ DOMAIN n.trips \subseteq Nat /\ IsFiniteSet(DOMAIN n.trips)
PlannerFits ==
  /\ \A n \in Networks : NetworkFits(n)
  /\ {TransferOverhead, BoardPenalty, MinHop, FewerTransfersFactor, LessWalkingFactor} \subseteq Nat

-----------------------------------------------------------------------------
(* The edges out of a node, with what they weigh and what they take.       *)

BoardWeight(preference) ==
  IF preference = "fewer_transfers" THEN FewerTransfersFactor * BoardPenalty ELSE BoardPenalty
WalkWeight(preference) == IF preference = "less_walking" THEN LessWalkingFactor ELSE 1

Edge(to, verb, weight, takes) == [to |-> to, verb |-> verb, weight |-> weight, takes |-> takes]

\* Boarding at the terminus is pointless.
Boardings(n, stop, preference) ==
  UNION {{Edge(<<"on", key, i>>, "board", BoardWeight(preference), BoardPenalty) :
            i \in {k \in 1..(Len(Pattern(n, key)) - 1) : Pattern(n, key)[k].stop = stop}} :
         key \in Patterns(n)}

Walks(n, stop, preference) ==
  {Edge(<<"at", b>>, "walk", WalkSeconds(n, stop, b) * WalkWeight(preference), WalkSeconds(n, stop, b)) :
     b \in Walkable(n, stop)}

Hop(calls, i) == Max({calls[i + 1].arrives - calls[i].departs, MinHop})

Rides(n, key, i) ==
  LET calls == Pattern(n, key)
  IN {Edge(<<"at", calls[i].stop>>, "alight", 0, 0)}
       \cup {Edge(<<"on", key, i + 1>>, "ride", Hop(calls, i), Hop(calls, i)) : k \in 1..(Len(calls) - i)}

Edges(n, node, preference) ==
  IF node[1] = "at" THEN Boardings(n, node[2], preference) \cup Walks(n, node[2], preference)
                    ELSE Rides(n, node[2], node[3])

-----------------------------------------------------------------------------
(* The search.                                                             *)

Preference == Preferences[searched + 1]
Start == <<"at", origin>>
Target == <<"at", destination>>
NoRoute == [total |-> -1]

Begins(stop) ==
  /\ best = [node \in {<<"at", stop>>} |-> 0]
  /\ prev = << >>
  /\ queue = {[cost |-> 0, node |-> <<"at", stop>>]}

Init ==
  /\ network \in Networks
  /\ origin \in DOMAIN network.stops /\ destination \in DOMAIN network.stops \ {origin}
  /\ searched = 0
  /\ Begins(origin)
  /\ plans = << >>

\* The plan from the path: real durations, whatever the weights were.
Path ==
  LET back[node \in DOMAIN best] ==
        IF node = Start THEN <<>> ELSE Append(back[prev[node].from], prev[node])
  IN back[Target]

LegStop(node) == IF node[1] = "at" THEN node[2] ELSE Pattern(network, node[2])[node[3]].stop

Plan ==
  LET Took(verb) == SelectSeq(Path, LAMBDA a : a.verb = verb)
      Sum(s) == FoldLeft(LAMBDA sum, a : sum + a.takes, 0, s)
      boards == Took("board") alights == Took("alight") walks == Took("walk")
  IN [total |-> Sum(Path),
      rides |-> [i \in DOMAIN boards |-> <<LegStop(boards[i].from), LegStop(alights[i].to)>>],
      walks |-> [i \in DOMAIN walks |-> <<LegStop(walks[i].from), LegStop(walks[i].to)>>],
      interchanges |-> Max({Len(boards) - 1, 0}),
      distance |-> FoldLeft(LAMBDA sum, a : sum + Distance(network, LegStop(a.from), LegStop(a.to)),
                            0, walks)]

Costs == [stop \in {node[2] : node \in {m \in DOMAIN best : m[1] = "at"}} |-> best[<<"at", stop>>]]

SearchEnds(result) ==
  /\ plans' = Append(plans, result)
  /\ searched' = searched + 1
  /\ best' = [node \in {Start} |-> 0] /\ prev' = << >> /\ queue' = {[cost |-> 0, node |-> Start]}
  /\ UNCHANGED <<network, origin, destination>>

Cheapest(entry) == entry \in queue /\ \A e \in queue : entry.cost <= e.cost

\* An entry that a cheaper one has superseded.
Skip(entry) ==
  /\ entry.cost > best[entry.node]
  /\ queue' = queue \ {entry}
  /\ UNCHANGED <<network, origin, destination, searched, best, prev, plans>>

Arrive(entry) ==
  /\ Preference # "everywhere" /\ entry.node = Target /\ entry.cost <= best[entry.node]
  /\ SearchEnds(Plan)

Expand(entry) ==
  /\ Preference = "everywhere" \/ entry.node # Target
  /\ entry.cost <= best[entry.node]
  /\ LET Relaxes(e) == e.to \notin DOMAIN best \/ entry.cost + e.weight < best[e.to]
         relaxed == {e \in Edges(network, entry.node, Preference) : Relaxes(e)}
         Into(node) == CHOOSE e \in relaxed : e.to = node
         reached == {e.to : e \in relaxed}
     IN /\ best' = [node \in reached \cup DOMAIN best |->
                      IF node \in reached THEN entry.cost + Into(node).weight ELSE best[node]]
        /\ prev' = [node \in reached \cup DOMAIN prev |->
                      IF node \in reached THEN [from |-> entry.node, to |-> node, verb |-> Into(node).verb,
                                                takes |-> Into(node).takes]
                      ELSE prev[node]]
        /\ queue' = (queue \ {entry}) \cup {[cost |-> entry.cost + e.weight, node |-> e.to] : e \in relaxed}
  /\ UNCHANGED <<network, origin, destination, searched, plans>>

\* Nothing left to expand: no route, or everything settled.
Exhaust ==
  /\ queue = {}
  /\ SearchEnds(IF Preference = "everywhere" THEN Costs ELSE NoRoute)

Next ==
  /\ searched < Len(Preferences)
  /\ \/ \E entry \in queue : Cheapest(entry) /\ (Skip(entry) \/ Arrive(entry) \/ Expand(entry))
     \/ Exhaust

Spec == Init /\ [][Next]_plannerVars

TypeOK ==
  /\ network \in Networks /\ {origin, destination} \subseteq DOMAIN network.stops
  /\ searched \in 0..Len(Preferences) /\ Len(plans) = searched
  /\ DOMAIN prev = DOMAIN best \ {Start}
  /\ \A e \in queue : e.node \in DOMAIN best /\ e.cost >= best[e.node]

-----------------------------------------------------------------------------
(***************************************************************************)
(* Reference: the time of a fastest journey, by paths of growing length.   *)
(***************************************************************************)
Nodes(n) ==
  {<<"at", s>> : s \in DOMAIN n.stops}
    \cup UNION {{<<"on", key, i>> : i \in DOMAIN Pattern(n, key)} : key \in Patterns(n)}

\* Nodes with their costs, by paths one edge longer; only the least stay.
Longer(n, costs) ==
  LET all == costs \cup UNION {{<<e.to, c[2] + e.weight>> : e \in Edges(n, c[1], "fastest")} : c \in costs}
  IN {c \in all : \A d \in all : d[1] = c[1] => c[2] <= d[2]}

Fastest(n, from, to) ==
  LET costs == FoldSet(LAMBDA node, sofar : Longer(n, sofar), {<<<<"at", from>>, 0>>}, Nodes(n))
      at == {c[2] : c \in {d \in costs : d[1] = <<"at", to>>}}
  IN IF at = {} THEN -1 ELSE Min(at)

(***************************************************************************)
(* The plan shown is the right one.  The fastest plan takes as long as the *)
(* reference says, and travel_seconds_from gives the same time; a rider    *)
(* who asks for fewer transfers never gets more of them than the fastest   *)
(* plan has, and one who asks for less walking never walks for longer; no  *)
(* preference pretends to be faster than the fastest plan; and one of them *)
(* finds a route exactly when all do.                                      *)
(***************************************************************************)
WalkingTime(plan) ==
  plan.distance + TransferOverhead * Len(plan.walks)

PlansAreRight ==
  searched = Len(Preferences) =>
    LET fastest == plans[1] fewer == plans[2] less == plans[3] costs == plans[4] IN
    /\ fastest.total = Fastest(network, origin, destination)
    /\ (fastest = NoRoute) = (fewer = NoRoute) /\ (fastest = NoRoute) = (less = NoRoute)
    /\ (fastest # NoRoute) = (destination \in DOMAIN costs)
    /\ fastest # NoRoute =>
         /\ costs[destination] = fastest.total
         /\ fewer.interchanges <= fastest.interchanges
         /\ WalkingTime(less) <= WalkingTime(fastest)
         /\ fastest.total <= fewer.total /\ fastest.total <= less.total
=============================================================================
