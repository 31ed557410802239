------------------------------ MODULE Timetable ------------------------------
(***************************************************************************)
(* The static timetable as one stop sees it, and the questions             *)
(* LastTrainService answers from it.                                       *)
(*                                                                         *)
(* Service dates are numbered from 0 and a day has DayLength time units;   *)
(* an offset counts from the midnight of the service date and may exceed   *)
(* the day.  A timetable has calendar rows, exceptions to them (type 1     *)
(* adds a service on a date, type 2 removes it), and the trips that call   *)
(* at the stop, each with its departure there and whether it ends there.   *)
(***************************************************************************)
EXTENDS Integers, FiniteSetsExt

CONSTANTS DayLength, WeekLength, LastDay

ASSUME DayLengths == DayLength \in Nat \ {0} /\ WeekLength \in Nat \ {0} /\ LastDay \in Nat

Days == 0..LastDay
Never == -1

\* calendar, then the exceptions of the date.
ActiveServices(tt, d) ==
  LET Exceptions(type) == {e.service : e \in {x \in tt.exceptions : x.date = d /\ x.type = type}}
      regular == {c.service : c \in {x \in tt.calendar :
                    x.from <= d /\ d <= x.to /\ d % WeekLength \in x.weekdays}}
  IN (regular \cup Exceptions(1)) \ Exceptions(2)

\* You cannot board a train at its terminal.
Departures(tt, d) ==
  {t.departs : t \in {x \in tt.trips : x.service \in ActiveServices(tt, d) /\ ~x.terminates}}

Moment(d, offset) == d * DayLength + offset

LastDeparture(tt, d) ==
  IF Departures(tt, d) = {} THEN Never ELSE Moment(d, Max(Departures(tt, d)))

FirstDepartureAfter(tt, d, offset) ==
  {Moment(d, Min(S)) : S \in {{x \in Departures(tt, d) : x >= offset}} \ {{}}}

\* Yesterday's service, today's and tomorrow's; the earliest wins.
NextDeparture(tt, after) ==
  LET today == after \div DayLength
      candidates == UNION {FirstDepartureAfter(tt, d, Max({after - Moment(d, 0), 0})) :
                             d \in (today - 1)..(today + 1)}
  IN IF candidates = {} THEN Never ELSE Min(candidates)
=============================================================================
