------------------------------ MODULE Reminders ------------------------------
(***************************************************************************)
(* The minute job of the worker, evaluate_reminders: one-shot leave-home   *)
(* reminders and a recurring last-train reminder, in one transaction, with *)
(* the rider creating and deleting them meanwhile.                         *)
(*                                                                         *)
(* A push leaves as soon as its notification row is flushed and is never   *)
(* taken back; the mark that keeps the reminder from firing again counts   *)
(* only when the transaction commits.  SQLAlchemy flushes dirty rows       *)
(* before the next query or insert: a row the rider has deleted by then    *)
(* makes the UPDATE match nothing, StaleDataError ends the whole cycle.    *)
(* The last-train reminder remembers one service date, the last notified,  *)
(* while around midnight it looks at two.                                  *)
(***************************************************************************)
EXTENDS Timetable

CONSTANTS Timetables,  \* the timetables considered
          EarlyHours,  \* before this time of day yesterday is a candidate too
          Lead,        \* lead_minutes of the last-train reminder
          Rows,        \* leave-home reminders
          MaxAhead,    \* how far ahead they are set
          MaxFailures

LastMoment == LastDay * DayLength
LastRow == "last"  \* the last-train reminder, among the rows of a cycle
NoCycle == [pc |-> "idle", now |-> Never, due |-> {}, dirty |-> {}, locked |-> {},
            date |-> Never, pushed |-> FALSE]

\* Module MCServices assumes the following three.  The trips of a timetable
\* leave the stop at finitely many times.
TimetablesAreFinite ==
  \A tt \in Timetables : LET times == {x.departs : x \in tt.trips}
                        IN IsFiniteSet(times) /\ times \subseteq Nat

\* A service day ends before the next day does: the latest of 1410 departures
\* past 24:00 is at 25:13 (LastTrainService.next_departure).  Dates are Days.
TimetablesFit ==
  \A tt \in Timetables :
    /\ \A x \in tt.trips : x.departs < 2 * DayLength /\ x.starts \in Nat /\ x.ends \in Nat
    /\ \A c \in tt.calendar : {c.from, c.to} \subseteq Days
    /\ \A e \in tt.exceptions : e.date \in Days

ReminderBounds ==
  /\ EarlyHours \in Nat /\ Lead \in Nat /\ MaxAhead \in Nat /\ MaxFailures \in Nat
  /\ Rows \cap Days = {} /\ LastRow \notin Rows

VARIABLES
  timetable,
  now,
  leave,     \* leave_home_reminders: status and notify_at per row
  lastTrain, \* the last_train_reminders row: status, last_notified_service_date
  cycle,     \* the evaluation under way
  pushes,    \* pushes sent, per leave-home row and per service date (history)
  rollbacks, \* cycles that pushed something and did not commit (history)
  failures

reminderVars == <<timetable, now, leave, lastTrain, cycle, pushes, rollbacks, failures>>

ReminderInit ==
  /\ timetable \in Timetables
  /\ now = 0
  /\ leave = [r \in Rows |-> [status |-> "none", at |-> 0]]
  /\ lastTrain = [status |-> "none", notified |-> Never]
  /\ cycle = NoCycle
  /\ pushes = [x \in Rows \cup Days |-> 0]
  /\ rollbacks = 0
  /\ failures = 0

Tick ==
  /\ now < LastMoment
  /\ now' = now + 1
  /\ UNCHANGED <<timetable, leave, lastTrain, cycle, pushes, rollbacks, failures>>

-----------------------------------------------------------------------------
(* The rider.  A delete waits for a row the worker has flushed.            *)

\* A leave time already past is refused.
CreateLeave(r) ==
  /\ leave[r].status = "none"
  /\ \E at \in (now + 1)..(now + MaxAhead) : leave' = [leave EXCEPT ![r] = [status |-> "pending", at |-> at]]
  /\ UNCHANGED <<timetable, now, lastTrain, cycle, pushes, rollbacks, failures>>

DeleteLeave(r) ==
  /\ leave[r].status \in {"pending", "sent"}
  /\ r \notin cycle.locked
  /\ leave' = [leave EXCEPT ![r].status = "deleted"]
  /\ UNCHANGED <<timetable, now, lastTrain, cycle, pushes, rollbacks, failures>>

CreateLast ==
  /\ lastTrain.status = "none"
  /\ lastTrain' = [lastTrain EXCEPT !.status = "enabled"]
  /\ UNCHANGED <<timetable, now, leave, cycle, pushes, rollbacks, failures>>

DeleteLast ==
  /\ lastTrain.status = "enabled"
  /\ LastRow \notin cycle.locked
  /\ lastTrain' = [lastTrain EXCEPT !.status = "deleted"]
  /\ UNCHANGED <<timetable, now, leave, cycle, pushes, rollbacks, failures>>

-----------------------------------------------------------------------------
(* The job; max_instances = 1.                                             *)

Gone(x) == IF x = LastRow THEN lastTrain.status = "deleted" ELSE leave[x].status = "deleted"
Over == [NoCycle EXCEPT !.now = cycle.now]
RollsBack ==
  /\ cycle' = Over
  /\ rollbacks' = rollbacks + (IF cycle.pushed THEN 1 ELSE 0)

\* LeaveHomeReminderRepository.list_due.  One evaluation per unit of time.
Begin ==
  /\ cycle.pc = "idle" /\ cycle.now < now
  /\ cycle' = [NoCycle EXCEPT !.pc = "leave", !.now = now,
                 !.due = {r \in Rows : leave[r].status = "pending" /\ leave[r].at <= now}]
  /\ UNCHANGED <<timetable, now, leave, lastTrain, pushes, rollbacks, failures>>

\* The insert flushes the marks made before; then the push, then this mark.
NotifyLeave(r) ==
  /\ cycle.pc = "leave" /\ r \in cycle.due
  /\ IF \E x \in cycle.dirty : Gone(x)
       THEN RollsBack /\ UNCHANGED pushes
       ELSE /\ pushes' = [pushes EXCEPT ![r] = @ + 1]
            /\ cycle' = [cycle EXCEPT !.due = @ \ {r}, !.locked = @ \cup cycle.dirty,
                                      !.dirty = {r}, !.pushed = TRUE]
            /\ UNCHANGED rollbacks
  /\ UNCHANGED <<timetable, now, leave, lastTrain, failures>>

Candidates(t) ==
  {t \div DayLength} \cup (IF t % DayLength < EarlyHours THEN {(t \div DayLength) - 1} ELSE {})

InWindow(d, t) ==
  LET departure == LastDeparture(timetable, d) IN
  departure # Never /\ departure - Lead <= t /\ t < departure

\* Candidates are tried newest first; the date notified last is passed over.
DueDate(t) ==
  LET dates == {d \in Candidates(t) : d # lastTrain.notified /\ InWindow(d, t)}
  IN IF lastTrain.status # "enabled" \/ dates = {} THEN Never ELSE Max(dates)

\* due_reminders: its first query flushes what the leave-home loop marked.
ReadLast ==
  /\ cycle.pc = "leave" /\ cycle.due = {}
  /\ IF \E x \in cycle.dirty : Gone(x)
       THEN RollsBack
       ELSE /\ cycle' = [cycle EXCEPT !.pc = "last", !.locked = @ \cup cycle.dirty, !.dirty = {},
                                      !.date = DueDate(cycle.now)]
            /\ UNCHANGED rollbacks
  /\ UNCHANGED <<timetable, now, leave, lastTrain, pushes, failures>>

\* Here the mark comes first, so the insert flushes it: lock, then push.
NotifyLast ==
  /\ cycle.pc = "last" /\ cycle.date # Never /\ LastRow \notin cycle.locked
  /\ IF Gone(LastRow)
       THEN RollsBack /\ UNCHANGED pushes
       ELSE /\ pushes' = [pushes EXCEPT ![cycle.date] = @ + 1]
            /\ cycle' = [cycle EXCEPT !.locked = @ \cup {LastRow}, !.pushed = TRUE]
            /\ UNCHANGED rollbacks
  /\ UNCHANGED <<timetable, now, leave, lastTrain, failures>>

\* Slip: the service date is not remembered.
CommitForgetsDate ==
  /\ cycle.pc = "last" /\ (cycle.date = Never \/ LastRow \in cycle.locked)
  /\ leave' = [r \in Rows |-> IF r \in cycle.locked THEN [leave[r] EXCEPT !.status = "sent"] ELSE leave[r]]
  /\ cycle' = Over
  /\ UNCHANGED <<timetable, now, lastTrain, pushes, rollbacks, failures>>

Commit ==
  /\ cycle.pc = "last" /\ (cycle.date = Never \/ LastRow \in cycle.locked)
  /\ leave' = [r \in Rows |-> IF r \in cycle.locked THEN [leave[r] EXCEPT !.status = "sent"] ELSE leave[r]]
  /\ lastTrain' = IF LastRow \in cycle.locked THEN [lastTrain EXCEPT !.notified = cycle.date] ELSE lastTrain
  /\ cycle' = Over
  /\ UNCHANGED <<timetable, now, pushes, rollbacks, failures>>

\* The worker dies, or the database fails.
Fail ==
  /\ cycle.pc # "idle"
  /\ failures < MaxFailures
  /\ failures' = failures + 1
  /\ RollsBack
  /\ UNCHANGED <<timetable, now, leave, lastTrain, pushes>>

ReminderNext ==
  \/ Tick
  \/ \E r \in Rows : CreateLeave(r) \/ DeleteLeave(r) \/ NotifyLeave(r)
  \/ CreateLast \/ DeleteLast
  \/ Begin \/ ReadLast \/ NotifyLast \/ Commit \/ Fail

ReminderSpec == ReminderInit /\ [][ReminderNext]_reminderVars

ReminderTypeOK ==
  /\ timetable \in Timetables /\ now \in 0..LastMoment
  /\ leave \in [Rows -> [status : {"none", "pending", "sent", "deleted"}, at : 0..(LastMoment + MaxAhead)]]
  /\ lastTrain \in [status : {"none", "enabled", "deleted"}, notified : Days \cup {Never}]
  /\ cycle.pc \in {"idle", "leave", "last"} /\ cycle.now \in 0..LastMoment \cup {Never}
  /\ cycle.due \subseteq Rows /\ cycle.dirty \subseteq Rows
  /\ cycle.locked \subseteq Rows \cup {LastRow}
  /\ cycle.date \in Days \cup {Never} /\ cycle.pushed \in BOOLEAN
  /\ pushes \in [Rows \cup Days -> Nat] /\ rollbacks \in Nat
  /\ failures \in 0..MaxFailures

(***************************************************************************)
(* A reminder fires once, for a last train once per service date, save     *)
(* once more for each cycle that pushed and was rolled back: a delete that *)
(* meets the cycle makes it so, and repeats the pushes of the others.  The *)
(* exception is a stop where the last trains of two service dates leave    *)
(* within one lead time: one remembered date cannot hold both.             *)
(***************************************************************************)
WindowsMeet(d) ==
  \E e \in {d - 1, d + 1} \cap Days : \E t \in 0..LastMoment :
    InWindow(d, t) /\ InWindow(e, t) /\ {d, e} \subseteq Candidates(t)

RemindedOnce ==
  \A x \in Rows \cup Days :
    pushes[x] <= 1 + rollbacks \/ (x \in Days /\ WindowsMeet(x))

(***************************************************************************)
(* The next train is the next one: looking at three service dates finds    *)
(* the earliest departure of all of them, a train of yesterday's service   *)
(* that leaves after midnight included, when one leaves by the end of      *)
(* tomorrow.                                                               *)
(***************************************************************************)
NextTrainIsTheNext ==
  LET all == {m \in UNION {{Moment(d, x) : x \in Departures(timetable, d)} : d \in Days} : m >= now}
  IN all # {} /\ Min(all) < Moment((now \div DayLength) + 2, 0)
       => NextDeparture(timetable, now) = Min(all)

-----------------------------------------------------------------------------
(* ScheduleEstimatedPositionSource: which trips are given a position.  A   *)
(* trip has a service and the times, from the midnight of its service      *)
(* date, at which it leaves its first stop and reaches its last.           *)

\* TripRepository.active_trip_ids_at
ActiveTripsAt(services, elapsed) ==
  {t \in timetable.trips : t.service \in services /\ t.starts <= elapsed /\ elapsed <= t.ends}

\* fetch_positions: the services of the local date, the time since midnight.
FetchPositions ==
  LET date == now \div DayLength
  IN {<<date, t>> : t \in ActiveTripsAt(ActiveServices(timetable, date), now % DayLength)}

\* The trains that are under way, of whatever service date.
Underway ==
  {run \in Days \X timetable.trips :
     /\ run[2].service \in ActiveServices(timetable, run[1])
     /\ Moment(run[1], run[2].starts) <= now /\ now <= Moment(run[1], run[2].ends)}

(***************************************************************************)
(* A train is given a position if and only if it is under way and its      *)
(* service date is today's: of the trains that are under way only those of *)
(* yesterday's service are missing, which run past midnight and vanish at  *)
(* 00:00, though fetch_positions promises "every trip underway right now". *)
(***************************************************************************)
OnlyMidnightHidesTrains ==
  /\ FetchPositions \subseteq Underway
  /\ \A run \in Underway \ FetchPositions : run[1] < now \div DayLength
=============================================================================
