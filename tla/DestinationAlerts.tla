-------------------------- MODULE DestinationAlerts --------------------------
(***************************************************************************)
(* The destination alerts on one vehicle: created and cancelled through    *)
(* the API (DestinationAlertService), fired or expired by the worker's     *)
(* rule engine (rule_engine.py), which reads the vehicle snapshot from     *)
(* Redis first and the active alerts from the database after it.           *)
(*                                                                         *)
(* Transactions behave as in module Journeys: a cycle works with the rows  *)
(* it listed, flushes what it changed before a notification is delivered   *)
(* and holds those rows until it commits.  Where the train stands is left  *)
(* open; whether it is in the feed is not.                                 *)
(***************************************************************************)
EXTENDS Naturals, FiniteSets

CONSTANTS
  Callers,    \* API requests that may be open at once
  MaxAlerts,  \* bound on the alerts created
  MaxAborts   \* bound on the cycles that fail

ASSUME AlertLimits == MaxAlerts \in Nat /\ MaxAborts \in Nat

VARIABLES
  alert,    \* the committed status of every alert
  created,  \* alerts created so far
  inFeed,   \* the vehicle is in the Redis snapshot
  calls,    \* the open API requests
  rules,    \* the rule engine's transaction
  told,     \* alerts with a committed notification
  aborts    \* cycles that failed

alertVars == <<alert, created, inFeed, calls, rules, told, aborts>>

Alerts == 1..MaxAlerts
Settled == {"triggered", "expired", "cancelled"}
Open == {a \in Alerts : alert[a] = "active"}

NoCall == [op |-> "idle", id |-> 0]
NoRules == [phase |-> "idle", sees |-> FALSE, todo |-> {}, triggered |-> {},
            expired |-> {}, locked |-> {}]

AlertsTypeOK ==
  /\ alert \in [Alerts -> Settled \cup {"none", "active"}]
  /\ created \in 0..MaxAlerts
  /\ inFeed \in BOOLEAN
  /\ calls \in [Callers -> [op : {"idle", "creating", "cancelling"}, id : 0..MaxAlerts]]
  /\ rules.phase \in {"idle", "located", "listed"} /\ rules.sees \in BOOLEAN
  /\ rules.todo \cup rules.triggered \cup rules.expired \subseteq 1..created
  /\ rules.locked \subseteq rules.triggered \cup rules.expired
  /\ told \subseteq 1..created
  /\ aborts \in 0..MaxAborts

AlertsInit ==
  /\ alert = [a \in Alerts |-> "none"]
  /\ created = 0 /\ inFeed = FALSE
  /\ calls = [c \in Callers |-> NoCall]
  /\ rules = NoRules
  /\ told = {} /\ aborts = 0

-----------------------------------------------------------------------------
\* The poller adds the vehicle to the snapshot or removes it.
VehicleComesOrGoes ==
  /\ inFeed' = ~inFeed
  /\ UNCHANGED <<alert, created, calls, rules, told, aborts>>

\* create: an alert on a vehicle that is not tracked is refused.
CreateChecks(c) ==
  /\ calls[c] = NoCall /\ inFeed
  /\ calls' = [calls EXCEPT ![c].op = "creating"]
  /\ UNCHANGED <<alert, created, inFeed, rules, told, aborts>>

AlertCommits(c) ==
  /\ calls[c].op = "creating"
  /\ created < MaxAlerts
  /\ created' = created + 1
  /\ alert' = [alert EXCEPT ![created + 1] = "active"]
  /\ calls' = [calls EXCEPT ![c] = NoCall]
  /\ UNCHANGED <<inFeed, rules, told, aborts>>

\* cancel: the row is read and must be active.
CancelReads(c, a) ==
  /\ calls[c] = NoCall
  /\ a \in Open
  /\ calls' = [calls EXCEPT ![c] = [op |-> "cancelling", id |-> a]]
  /\ UNCHANGED <<alert, created, inFeed, rules, told, aborts>>

CancelCommits(c) ==
  LET a == calls[c].id IN
  /\ calls[c].op = "cancelling"
  /\ a \notin rules.locked
  /\ alert' = [alert EXCEPT ![a] = "cancelled"]
  /\ calls' = [calls EXCEPT ![c] = NoCall]
  /\ UNCHANGED <<created, inFeed, rules, told, aborts>>

CallFails(c) ==
  /\ calls[c] # NoCall
  /\ calls' = [calls EXCEPT ![c] = NoCall]
  /\ UNCHANGED <<alert, created, inFeed, rules, told, aborts>>

-----------------------------------------------------------------------------
\* evaluate_realtime: the snapshot comes from Redis before the transaction.
ReadSnapshot ==
  /\ rules.phase = "idle"
  /\ rules' = [rules EXCEPT !.phase = "located", !.sees = inFeed]
  /\ UNCHANGED <<alert, created, inFeed, calls, told, aborts>>

\* Slip: alerts that have fired are listed as well.
ListUncancelled ==
  /\ rules.phase = "located"
  /\ rules' = [rules EXCEPT !.phase = "listed",
                            !.todo = {a \in Alerts : alert[a] \in {"active", "triggered"}}]
  /\ UNCHANGED <<alert, created, inFeed, calls, told, aborts>>

ListActive ==
  /\ rules.phase = "located"
  /\ rules' = [rules EXCEPT !.phase = "listed", !.todo = Open]
  /\ UNCHANGED <<alert, created, inFeed, calls, told, aborts>>

\* Slip: an alert whose vehicle is missing is left for a later cycle.
ExpireLater(a) ==
  /\ a \in rules.todo /\ ~rules.sees
  /\ rules' = [rules EXCEPT !.todo = @ \ {a}]
  /\ UNCHANGED <<alert, created, inFeed, calls, told, aborts>>

\* _evaluate_alert: the vehicle is not in the snapshot that was read.
Expire(a) ==
  /\ a \in rules.todo /\ ~rules.sees
  /\ rules' = [rules EXCEPT !.todo = @ \ {a}, !.expired = @ \cup {a}]
  /\ UNCHANGED <<alert, created, inFeed, calls, told, aborts>>

\* _evaluate_alert: within the threshold; the flush precedes the delivery.
Trigger(a) ==
  LET fired == rules.triggered \cup {a} IN
  /\ a \in rules.todo /\ rules.sees
  /\ rules' = [rules EXCEPT !.todo = @ \ {a}, !.triggered = fired,
                            !.locked = fired \cup rules.expired]
  /\ UNCHANGED <<alert, created, inFeed, calls, told, aborts>>

\* _evaluate_alert: no trip, no context, no ETA, another trip, or too far yet.
LeaveAlone(a) ==
  /\ a \in rules.todo /\ rules.sees
  /\ rules' = [rules EXCEPT !.todo = @ \ {a}]
  /\ UNCHANGED <<alert, created, inFeed, calls, told, aborts>>

RulesCommit ==
  /\ rules.phase = "listed" /\ rules.todo = {}
  /\ alert' = [a \in Alerts |-> CASE a \in rules.triggered -> "triggered"
                                  [] a \in rules.expired -> "expired"
                                  [] OTHER -> alert[a]]
  /\ told' = told \cup rules.triggered
  /\ rules' = NoRules
  /\ UNCHANGED <<created, inFeed, calls, aborts>>

\* Slip: the failed transaction keeps its row locks.
RulesFailLocked ==
  /\ rules.phase # "idle"
  /\ aborts < MaxAborts
  /\ aborts' = aborts + 1
  /\ rules' = [NoRules EXCEPT !.locked = rules.locked]
  /\ UNCHANGED <<alert, created, inFeed, calls, told>>

RulesFail ==
  /\ rules.phase # "idle"
  /\ aborts < MaxAborts
  /\ aborts' = aborts + 1
  /\ rules' = NoRules
  /\ UNCHANGED <<alert, created, inFeed, calls, told>>

RulesStep ==
  \/ ReadSnapshot \/ ListActive \/ RulesCommit
  \/ \E a \in rules.todo : Expire(a) \/ Trigger(a) \/ LeaveAlone(a)

AlertsNext ==
  \/ VehicleComesOrGoes
  \/ RulesStep \/ RulesFail
  \/ \E c \in Callers :
       \/ CreateChecks(c) \/ AlertCommits(c) \/ CancelCommits(c) \/ CallFails(c)
       \/ \E a \in Open : CancelReads(c, a)

AlertsSpec == AlertsInit /\ [][AlertsNext]_alertVars

-----------------------------------------------------------------------------
\* The user is not told twice of an alert whose notification is committed, not
\* even when a cancel overwrote the status in between.
AlertFiresOnce == rules.triggered \cap told = {}

\* An alert does not wait for a train that has left the feed for good
\* (_evaluate_alert expires it).
GoneTrainSettlesAlerts ==
  \A a \in Alerts : <>[](~inFeed) => <>[](alert[a] # "active")
=============================================================================
