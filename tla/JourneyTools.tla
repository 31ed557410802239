------------------------------ MODULE JourneyTools ------------------------------
(***************************************************************************)
(* The latest departure that still completes a journey, found backwards    *)
(* over the legs of a plan, and the fairest place for two to meet.         *)
(*                                                                         *)
(* A leg is a walk, or a ride with its ends, its route and its direction,  *)
(* the set of it or empty; a trip has its service, route, direction and    *)
(* calls, timed from the midnight of its service date.                     *)
(***************************************************************************)
EXTENDS Integers, Sequences, FiniteSetsExt, SequencesExt

CONSTANTS Buffer, \* INTERCHANGE_BUFFER_SECONDS
          Minute,
          Limit   \* candidates shown

-----------------------------------------------------------------------------
(* Latest departure                                                        *)

\* Trips that ride the leg, with their times at its ends.
Riding(leg, trips, active) ==
  UNION {{[departs |-> t.calls[i].departs, arrives |-> t.calls[j].arrives] :
            <<i, j>> \in {p \in (DOMAIN t.calls) \X (DOMAIN t.calls) :
                            p[1] < p[2] /\ t.calls[p[1]].stop = leg.board /\ t.calls[p[2]].stop = leg.alight}} :
         t \in {u \in trips : /\ u.service \in active /\ u.route = leg.route
                              /\ leg.direction = {} \/ leg.direction = {u.direction}}}

\* _latest_trip: the last to depart of those that arrive by the deadline.
LatestTrip(leg, trips, active, deadline) ==
  LET fit == {r \in Riding(leg, trips, active) : \A d \in deadline : r.arrives <= d}
  IN {r \in fit : \A q \in fit : q.departs <= r.departs}

\* Slip: a walk is taken for a change without one, and gets the buffer too.
BeforeLegBuffered(pass, leg) == [pass EXCEPT !.deadline = {d - leg.seconds : d \in @}]

\* A walk brings the deadline forward; there is none before the last ride.
BeforeWalk(pass, leg) == [pass EXCEPT !.deadline = {d - leg.seconds : d \in @}, !.rides = FALSE]

\* A ride must arrive for the next leg; its own departure is the deadline.
BeforeRide(pass, leg, trips, active) ==
  LET latest == LatestTrip(leg, trips, active, {IF pass.rides THEN d - Buffer ELSE d : d \in pass.deadline})
      departs == {r.departs : r \in latest}
  IN [deadline |-> departs, rides |-> TRUE, fails |-> pass.fails \/ latest = {},
      chosen |-> IF latest = {} THEN pass.chosen ELSE <<CHOOSE r \in latest : TRUE>> \o pass.chosen]

BackwardPass(legs, trips, active) ==
  FoldRight(LAMBDA leg, pass : IF pass.fails THEN pass
                               ELSE IF leg.kind = "walk" THEN BeforeWalk(pass, leg)
                               ELSE BeforeRide(pass, leg, trips, active),
            legs, [deadline |-> {}, rides |-> FALSE, fails |-> FALSE, chosen |-> <<>>])

\* _boundary_walk_seconds
Rides(legs) == {k \in DOMAIN legs : legs[k].kind = "ride"}
Walked(legs, from, to) == FoldLeft(LAMBDA sum, leg : sum + leg.seconds, 0, SubSeq(legs, from, to))
LeadWalk(legs) == Walked(legs, 1, Min(Rides(legs)) - 1)
TrailWalk(legs) == Walked(legs, Max(Rides(legs)) + 1, Len(legs))

\* latest_departure: none if a ride has no trip, or if there is none to ride.
LatestDeparture(legs, trips, active) ==
  LET pass == BackwardPass(legs, trips, active)
  IN {[departBy |-> pass.chosen[1].departs - LeadWalk(legs),
       arriveBy |-> pass.chosen[Len(pass.chosen)].arrives + TrailWalk(legs), chosen |-> pass.chosen] :
      k \in {1} \cap {j \in DOMAIN pass.chosen : active # {} /\ ~pass.fails}}

-----------------------------------------------------------------------------
(* Meeting                                                                 *)

\* reach: minutes, rounded up, from the costs of the planner's search.
Reach(costs) == [s \in DOMAIN costs |-> (costs[s] + Minute - 1) \div Minute]

Meet(reachA, reachB) ==
  LET Slower(s) == Max({reachA[s], reachB[s]})
      Both(s) == reachA[s] + reachB[s]
      Before(s, t) == \/ Slower(s) < Slower(t)
                      \/ Slower(s) = Slower(t) /\ (Both(s) < Both(t) \/ (Both(s) = Both(t) /\ s < t))
      ranked == SetToSortSeq((DOMAIN reachA) \cap (DOMAIN reachB), Before)
  IN SubSeq(ranked, 1, Min({Limit, Len(ranked)}))

-----------------------------------------------------------------------------
(***************************************************************************)
(* The departure told can be kept, trip by trip with time to change, and   *)
(* no choice of trips along the same legs leaves later; when none is told  *)
(* no choice of trips can be ridden.                                       *)
(***************************************************************************)
Changes(legs, chain) ==
  LET Nth(k) == Cardinality({j \in Rides(legs) : j <= k})
      Next(k) == Min({j \in Rides(legs) : j > k})
      Between(k) == IF Next(k) = k + 1 THEN Buffer ELSE Walked(legs, k + 1, Next(k) - 1)
  IN \A k \in Rides(legs) : Nth(k) < Len(chain) => chain[Nth(k)].arrives + Between(k) <= chain[Nth(k) + 1].departs

Chains(legs, trips, active) ==
  LET ridden == SelectSeq(legs, LAMBDA leg : leg.kind = "ride")
      all == UNION {Riding(leg, trips, active) : leg \in ToSet(ridden)}
  IN {c \in [DOMAIN ridden -> all] : /\ \A k \in DOMAIN ridden : c[k] \in Riding(ridden[k], trips, active)
                                     /\ Changes(legs, c)}

LatestIsRight(legs, trips, active) ==
  LET told == LatestDeparture(legs, trips, active)
      chains == Chains(legs, trips, active)
  IN /\ (told = {}) = (Rides(legs) = {} \/ chains = {})
     /\ \A t \in told : /\ t.chosen \in chains
                        /\ \A c \in chains : c[1].departs - LeadWalk(legs) <= t.departBy
                        /\ t.departBy < t.arriveBy

\* Both can come to every candidate, no place passed over is better for both,
\* and it does not matter who asks.
MeetingIsFair(costsA, costsB) ==
  LET a == Reach(costsA) b == Reach(costsB) ranked == Meet(a, b)
      both == (DOMAIN costsA) \cap (DOMAIN costsB)
  IN /\ ranked = Meet(b, a)
     /\ Len(ranked) = Min({Limit, Cardinality(both)}) /\ ToSet(ranked) \subseteq both
     /\ \A k \in DOMAIN ranked : \A s \in both \ {ranked[j] : j \in 1..k} :
          ~(costsA[s] + Minute <= costsA[ranked[k]] /\ costsB[s] + Minute <= costsB[ranked[k]])
==============================================================================
