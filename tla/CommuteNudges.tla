---------------------------- MODULE CommuteNudges ----------------------------
(***************************************************************************)
(* ProactiveCommuteSchedulerService: "time to leave" nudges from learned   *)
(* commutes.  A cycle is one transaction over all riders with a history;   *)
(* for each it predicts the next departure, and nudges when that is near   *)
(* and the rider was not nudged for its service date last.  The inbox row  *)
(* and the mark commit together; the push leaves at once.                  *)
(*                                                                         *)
(* A rider's habit is a time of day, or nothing the predictor can use.     *)
(* Days count from midnight UTC; service dates are LocalOffset ahead.      *)
(***************************************************************************)
EXTENDS Integers, Sequences, FiniteSets, SequencesExt

CONSTANTS Commuters, DayHours, LocalOffset, LeadTime, Grace,
          MaxNow, MaxHabits, MaxFailed   \* bounds: the clock, changes of habit, failed cycles

\* Riders who have a habit leave at 2, so a day has that hour.
NudgeBounds ==
  /\ MaxNow \in Nat /\ MaxHabits \in Nat /\ MaxFailed \in Nat
  /\ DayHours \in Nat /\ 2 < DayHours /\ LocalOffset \in 0..DayHours /\ Grace \in Nat

VARIABLES
  time,       \* the clock
  habit,      \* when each rider usually leaves, if that can be predicted
  changes,    \* of habit, so far
  notice,     \* predicted_departure_notices: the date notified last, if any
  round,      \* the cycle under way, if any
  lastRound,  \* the time of the last cycle
  inbox,      \* the dates of the nudges in each rider's inbox, in order
  pushed,     \* the dates pushed to each rider, in order
  failed      \* cycles that were rolled back

nudgeVars == <<time, habit, changes, notice, round, lastRound, inbox, pushed, failed>>

Dates == 0..(MaxNow \div DayHours + 2)

NudgeTypeOK ==
  /\ time \in 0..MaxNow /\ lastRound \in -1..MaxNow
  /\ \A u \in Commuters :
       /\ habit[u] \subseteq 0..(DayHours - 1) /\ notice[u] \subseteq Dates
       /\ inbox[u] \in Seq(Dates) /\ pushed[u] \in Seq(Dates)
  /\ \A r \in round : r.todo \subseteq Commuters /\ r.at \in 0..MaxNow /\ \A u \in Commuters : r.marks[u] \subseteq Dates
  /\ changes \in 0..MaxHabits /\ failed \in 0..MaxFailed

NudgeInit ==
  /\ time = 0 /\ lastRound = -1
  /\ habit \in [Commuters -> {{}, {2}}] /\ changes = 0
  /\ notice = [u \in Commuters |-> {}]
  /\ round = {} /\ failed = 0
  /\ inbox = [u \in Commuters |-> <<>>] /\ pushed = [u \in Commuters |-> <<>>]

Elapse ==
  /\ time < MaxNow /\ time' = time + 1
  /\ UNCHANGED <<habit, changes, notice, round, lastRound, inbox, pushed, failed>>

\* New journeys move the habit, or make it useless.
ChangeHabit(u) ==
  /\ changes < MaxHabits /\ changes' = changes + 1
  /\ \E h \in {{}} \cup {{k} : k \in 0..(DayHours - 1)} : habit' = [habit EXCEPT ![u] = h]
  /\ UNCHANGED <<time, notice, round, lastRound, inbox, pushed, failed>>

\* _at_time_of_day: today, unless that is more than Grace ago.
DepartureAfter(now, h) ==
  LET today == (now \div DayHours) * DayHours + h
  IN IF today < now - Grace THEN today + DayHours ELSE today

ServiceDate(departure) == (departure + LocalOffset) \div DayHours

\* The departure to nudge about, if any: near enough, and not past.
Near(now, u) == {d \in {DepartureAfter(now, h) : h \in habit[u]} : 0 <= d - now /\ d - now <= LeadTime}

\* One cycle at a time (max_instances = 1).
BeginRound ==
  /\ round = {} /\ lastRound < time
  /\ round' = {[at |-> time, todo |-> Commuters, marks |-> [u \in Commuters |-> {}]]}
  /\ UNCHANGED <<time, habit, changes, notice, lastRound, inbox, pushed, failed>>

\* Slip: the date notified is not looked at.
NudgeAgain(u) ==
  \E r \in round :
    /\ u \in r.todo
    /\ round' = {[r EXCEPT !.todo = @ \ {u}, !.marks[u] = {ServiceDate(d) : d \in Near(r.at, u)}]}
    /\ pushed' = [pushed EXCEPT ![u] = @ \o SetToSeq({ServiceDate(d) : d \in Near(r.at, u)})]
    /\ UNCHANGED <<time, habit, changes, notice, lastRound, inbox, failed>>

Nudge(u) ==
  \E r \in round :
    LET due == {ServiceDate(d) : d \in Near(r.at, u)} \ notice[u] IN
    /\ u \in r.todo
    /\ round' = {[r EXCEPT !.todo = @ \ {u}, !.marks[u] = due]}
    /\ pushed' = [pushed EXCEPT ![u] = @ \o SetToSeq(due)]
    /\ UNCHANGED <<time, habit, changes, notice, lastRound, inbox, failed>>

\* mark_notified, and the inbox rows.
CommitRound ==
  \E r \in round :
    /\ r.todo = {}
    /\ notice' = [u \in Commuters |-> IF r.marks[u] = {} THEN notice[u] ELSE r.marks[u]]
    /\ inbox' = [u \in Commuters |-> inbox[u] \o SetToSeq(r.marks[u])]
    /\ round' = {} /\ lastRound' = r.at
    /\ UNCHANGED <<time, habit, changes, pushed, failed>>

\* An error for one rider rolls back the cycle, pushes that left included.
FailRound ==
  \E r \in round :
    /\ failed < MaxFailed /\ failed' = failed + 1
    /\ round' = {} /\ lastRound' = r.at
    /\ UNCHANGED <<time, habit, changes, notice, inbox, pushed>>

NudgeNext ==
  \/ Elapse \/ BeginRound \/ CommitRound \/ FailRound
  \/ \E u \in Commuters : ChangeHabit(u) \/ Nudge(u)

NudgeSpec == NudgeInit /\ [][NudgeNext]_nudgeVars

-----------------------------------------------------------------------------
(***************************************************************************)
(* The inbox has no two nudges for one service date with none for another  *)
(* date between them, whichever cycles fail, are late or see the habit     *)
(* move; a push is repeated only by a cycle that was rolled back; and the  *)
(* date remembered is the date of the last nudge.                          *)
(***************************************************************************)
Count(seq, d) == Cardinality({k \in DOMAIN seq : seq[k] = d})

NudgedOnce ==
  \A u \in Commuters :
    /\ \A k \in 2..Len(inbox[u]) : inbox[u][k] # inbox[u][k - 1]
    /\ notice[u] = IF inbox[u] = <<>> THEN {} ELSE {Last(inbox[u])}
    /\ \A d \in Dates : Count(pushed[u], d) <= Count(inbox[u], d) + failed + Cardinality(round)
=============================================================================
