------------------------------ MODULE Journeys ------------------------------
(***************************************************************************)
(* The tracked journeys of one user: the endpoints that start, complete    *)
(* and abandon them (api/v1/journeys.py, JourneyService) against the       *)
(* worker's rule engine, which evaluates every active journey in one       *)
(* transaction per feed event (rule_engine.py, journey_session.py).        *)
(*                                                                         *)
(* The database runs at READ COMMITTED and no query locks the rows it      *)
(* reads.  A session reads a row once: what it read stays in its identity  *)
(* map, and a flush updates the changed columns of the row by primary key, *)
(* whatever the row holds by then.  A flushed row is locked until the      *)
(* transaction ends.  An endpoint that flushes at its commit does both in  *)
(* one step here.                                                          *)
(*                                                                         *)
(* What the train does is left open: an evaluation may come to any         *)
(* conclusion the journey's own state allows.  Requests that find nothing  *)
(* to change and the best-effort domain events, which nothing here reads,  *)
(* are left out.                                                           *)
(***************************************************************************)
EXTENDS Naturals, FiniteSets, TLC

CONSTANTS
  Requests,     \* API requests of the user that may be open at once
  Reminders,    \* what the engine tells once per journey on the way: the
                \* planned interchange ahead, the train's delay
  MaxJourneys,  \* bound on the journey ids handed out
  MaxFailures   \* bound on the cycles that fail

ASSUME JourneyBounds == MaxJourneys \in Nat /\ MaxFailures \in Nat
ASSUME RemindersAssumption == Reminders \cap {"completed", "missed"} = {}

VARIABLES
  journey,       \* the committed rows of journeys
  events,        \* the committed types of each journey's journey_events
  usedIds,       \* ids the sequence handed out
  aged,          \* journeys older than journey_max_age_hours
  requests,      \* the open API requests
  cycle,         \* the rule engine's transaction
  notifications, \* committed rows of notifications: <<journey, kind>>
  races,         \* starts that committed after another one they did not see
  failures       \* cycles that failed

database == <<journey, events, usedIds, notifications>>
vars == <<database, aged, requests, cycle, races, failures>>

Ids == 1..MaxJourneys
Ended == {"completed", "abandoned", "missed"}
Kinds == {"completed", "missed"} \cup Reminders
Row == [status : Ended \cup {"none", "active"}, vehicle : BOOLEAN, payload : SUBSET Reminders]
NoRow == [status |-> "none", vehicle |-> FALSE, payload |-> {}]

Request(op, id, old) == [op |-> op, id |-> id, old |-> old, raced |-> FALSE]
Idle == Request("idle", 0, 0)
IdleCycle == [open |-> FALSE, rows |-> [j \in {} |-> NoRow], todo |-> {}, ended |-> {},
              noted |-> {}, locked |-> {}, sent |-> {}]

Transaction ==
  [open : BOOLEAN, rows : UNION {[D -> Row] : D \in SUBSET Ids}, todo : SUBSET Ids,
   ended : SUBSET Ids, noted : SUBSET Ids, locked : SUBSET Ids, sent : SUBSET (Ids \X Kinds)]

Active == {j \in Ids : journey[j].status = "active"}

TypeOK ==
  /\ journey \in [Ids -> Row]
  /\ events \in [Ids -> SUBSET (Ended \cup {"started", "superseded"})]
  /\ usedIds \in 0..MaxJourneys
  /\ aged \subseteq Ids
  /\ requests \in [Requests ->
       [op : {"idle", "starting", "flushed"} \cup Ended,
        id : 0..MaxJourneys, old : 0..MaxJourneys, raced : BOOLEAN]]
  /\ cycle \in Transaction
  /\ cycle.todo \subseteq DOMAIN cycle.rows
  /\ cycle.ended \cup cycle.noted \subseteq DOMAIN cycle.rows \ cycle.todo
  /\ cycle.locked \subseteq cycle.ended \cup cycle.noted
  /\ cycle.sent \subseteq (DOMAIN cycle.rows \ cycle.todo) \X Kinds
  /\ notifications \subseteq Ids \X Kinds
  /\ races \in Nat /\ failures \in 0..MaxFailures

Init ==
  /\ journey = [j \in Ids |-> NoRow]
  /\ events = [j \in Ids |-> {}]
  /\ usedIds = 0 /\ aged = {}
  /\ requests = [r \in Requests |-> Idle]
  /\ cycle = IdleCycle
  /\ notifications = {} /\ races = 0 /\ failures = 0

-----------------------------------------------------------------------------
(***************************************************************************)
(* The endpoints.                                                          *)
(***************************************************************************)

LockedByRequest(j) == \E r \in Requests : requests[r].op = "flushed" /\ requests[r].old = j

\* start: active_for_user takes the first active journey of an unordered query.
StartRead(r) ==
  /\ requests[r] = Idle
  /\ \E j \in IF Active = {} THEN {0} ELSE Active :
       requests' = [requests EXCEPT ![r] = Request("starting", 0, j)]
  /\ UNCHANGED <<database, aged, cycle, races, failures>>

\* start: the flush that inserts the journey also writes the superseded row.
StartFlush(r) ==
  /\ requests[r].op = "starting"
  /\ usedIds < MaxJourneys
  /\ requests[r].old \notin cycle.locked /\ (requests[r].old # 0 => ~LockedByRequest(requests[r].old))
  /\ usedIds' = usedIds + 1
  /\ requests' = [requests EXCEPT ![r].op = "flushed", ![r].id = usedIds + 1]
  /\ UNCHANGED <<journey, events, notifications, aged, cycle, races, failures>>

\* Slip: the journey found active is left as it is.
NothingSuperseded(r) == journey

Superseded(r) ==
  [j \in Ids |-> IF j = requests[r].old THEN [journey[j] EXCEPT !.status = "abandoned"] ELSE journey[j]]

\* start_journey: the commit.  Every other open start has now missed this one.
StartCommit(r) ==
  /\ requests[r].op = "flushed"
  /\ \E tracked \in BOOLEAN :
       journey' = [Superseded(r) EXCEPT ![requests[r].id] =
                     [status |-> "active", vehicle |-> tracked, payload |-> {}]]
  /\ events' = [j \in Ids |-> events[j] \cup {e \in {"superseded"} : j = requests[r].old}
                                        \cup {e \in {"started"} : j = requests[r].id}]
  /\ races' = races + IF requests[r].raced THEN 1 ELSE 0
  /\ requests' = [q \in Requests |->
       IF q = r THEN Idle
       ELSE IF requests[q].op \in {"starting", "flushed"} THEN [requests[q] EXCEPT !.raced = TRUE]
       ELSE requests[q]]
  /\ UNCHANGED <<usedIds, notifications, aged, cycle, failures>>

\* complete, abandon: _finish reads the row and checks that it is active.
FinishRead(r, j, status) ==
  /\ requests[r] = Idle
  /\ j \in Active
  /\ requests' = [requests EXCEPT ![r] = Request(status, j, 0)]
  /\ UNCHANGED <<database, aged, cycle, races, failures>>

\* Slip: only a completed journey is logged.
FinishCommitLogsCompletions(r) ==
  LET j == requests[r].id  status == requests[r].op IN
  /\ status \in Ended
  /\ j \notin cycle.locked /\ ~LockedByRequest(j)
  /\ journey' = [journey EXCEPT ![j].status = status]
  /\ events' = [events EXCEPT ![j] = @ \cup ({status} \cap {"completed"})]
  /\ requests' = [requests EXCEPT ![r] = Idle]
  /\ UNCHANGED <<usedIds, notifications, aged, cycle, races, failures>>

FinishCommit(r) ==
  LET j == requests[r].id  status == requests[r].op IN
  /\ status \in Ended
  /\ j \notin cycle.locked /\ ~LockedByRequest(j)
  /\ journey' = [journey EXCEPT ![j].status = status]
  /\ events' = [events EXCEPT ![j] = @ \cup {status}]
  /\ requests' = [requests EXCEPT ![r] = Idle]
  /\ UNCHANGED <<usedIds, notifications, aged, cycle, races, failures>>

\* Redis, the database or the client fails the request: its session rolls back.
RequestFails(r) ==
  /\ requests[r] # Idle
  /\ requests' = [requests EXCEPT ![r] = Idle]
  /\ UNCHANGED <<database, aged, cycle, races, failures>>

-----------------------------------------------------------------------------
(***************************************************************************)
(* The rule engine: evaluate_realtime and JourneySessionTracker.evaluate.  *)
(***************************************************************************)

\* list_active.  The transaction works with these rows from here on.
CycleBegins ==
  /\ ~cycle.open
  /\ cycle' = [IdleCycle EXCEPT !.open = TRUE, !.todo = Active,
                                !.rows = [j \in Active |-> journey[j]]]
  /\ UNCHANGED <<database, aged, requests, races, failures>>

\* A flush writes, and locks, every row changed so far.
CanFlush(rows) == \A j \in rows : ~LockedByRequest(j)

\* Slip: journeys without a vehicle are skipped before their age is looked at.
AbandonWatched(j) ==
  /\ j \in cycle.todo /\ j \in aged /\ cycle.rows[j].vehicle
  /\ cycle' = [cycle EXCEPT !.todo = @ \ {j}, !.ended = @ \cup {j},
                            !.rows[j].status = "abandoned"]
  /\ UNCHANGED <<database, aged, requests, races, failures>>

\* Too old: _finish through the identity map, no notification, no flush yet.
Abandon(j) ==
  /\ j \in cycle.todo /\ j \in aged
  /\ cycle' = [cycle EXCEPT !.todo = @ \ {j}, !.ended = @ \cup {j},
                            !.rows[j].status = "abandoned"]
  /\ UNCHANGED <<database, aged, requests, races, failures>>

Watched(j) == j \in cycle.todo /\ j \notin aged /\ cycle.rows[j].vehicle

\* _complete and _missed: the notification's flush writes the status, then it
\* is delivered; the transaction is still open.
Arrive(j, status) ==
  LET changed == cycle.ended \cup cycle.noted \cup {j} IN
  /\ Watched(j)
  /\ CanFlush(changed)
  /\ cycle' = [cycle EXCEPT !.todo = @ \ {j}, !.ended = @ \cup {j}, !.locked = changed,
                            !.rows[j].status = status, !.sent = @ \cup {<<j, status>>}]
  /\ UNCHANGED <<database, aged, requests, races, failures>>

\* Slip: the payload is mutated in place, which the session does not notice.
RemindInPlace(j, kind) ==
  LET changed == cycle.ended \cup cycle.noted IN
  /\ Watched(j)
  /\ kind \notin cycle.rows[j].payload
  /\ CanFlush(changed)
  /\ cycle' = [cycle EXCEPT !.todo = @ \ {j}, !.locked = changed,
                            !.rows[j].payload = @ \cup {kind}, !.sent = @ \cup {<<j, kind>>}]
  /\ UNCHANGED <<database, aged, requests, races, failures>>

\* _maybe_remind_interchange and _maybe_notify_delay: flush, deliver, then mark
\* the payload, which the next flush writes.
Remind(j, kind) ==
  LET changed == cycle.ended \cup cycle.noted IN
  /\ Watched(j)
  /\ kind \notin cycle.rows[j].payload
  /\ CanFlush(changed)
  /\ cycle' = [cycle EXCEPT !.todo = @ \ {j}, !.noted = @ \cup {j}, !.locked = changed,
                            !.rows[j].payload = @ \cup {kind}, !.sent = @ \cup {<<j, kind>>}]
  /\ UNCHANGED <<database, aged, requests, races, failures>>

\* The train is unknown, or nothing about it is worth telling.
PassOver(j) ==
  /\ j \in cycle.todo /\ j \notin aged
  /\ cycle' = [cycle EXCEPT !.todo = @ \ {j}]
  /\ UNCHANGED <<database, aged, requests, races, failures>>

\* Slip: a flush writes the whole row as the session read and changed it.
WrittenWhole(j) == cycle.rows[j]

\* The columns a flush writes: only those that changed.
Written(j) ==
  [journey[j] EXCEPT
     !.status = IF j \in cycle.ended THEN cycle.rows[j].status ELSE @,
     !.payload = IF j \in cycle.noted THEN cycle.rows[j].payload ELSE @]

CycleCommits ==
  /\ cycle.open /\ cycle.todo = {}
  /\ CanFlush(cycle.ended \cup cycle.noted)
  /\ journey' = [j \in Ids |-> IF j \in cycle.ended \cup cycle.noted THEN Written(j) ELSE journey[j]]
  /\ events' = [j \in Ids |-> events[j] \cup {cycle.rows[k].status : k \in cycle.ended \cap {j}}]
  /\ notifications' = notifications \cup cycle.sent
  /\ cycle' = IdleCycle
  /\ UNCHANGED <<usedIds, aged, requests, races, failures>>

\* Slip: the failed transaction keeps its row locks.
CycleFailsLocked ==
  /\ cycle.open
  /\ failures < MaxFailures
  /\ failures' = failures + 1
  /\ cycle' = [IdleCycle EXCEPT !.locked = cycle.locked]
  /\ UNCHANGED <<database, aged, requests, races>>

\* An exception or a crash anywhere in the cycle; what was delivered stays so.
CycleFails ==
  /\ cycle.open
  /\ failures < MaxFailures
  /\ failures' = failures + 1
  /\ cycle' = IdleCycle
  /\ UNCHANGED <<database, aged, requests, races>>

-----------------------------------------------------------------------------
\* The clock.
Age(j) ==
  /\ j \in Active \ aged
  /\ aged' = aged \cup {j}
  /\ UNCHANGED <<database, requests, cycle, races, failures>>

CycleStep ==
  \/ CycleBegins \/ CycleCommits
  \/ \E j \in cycle.todo :
       \/ Abandon(j) \/ PassOver(j)
       \/ \E status \in {"completed", "missed"} : Arrive(j, status)
       \/ \E kind \in Reminders : Remind(j, kind)

RequestStep(r) == StartFlush(r) \/ StartCommit(r) \/ FinishCommit(r)

Next ==
  \/ CycleStep \/ CycleFails
  \/ \E j \in Ids : Age(j)
  \/ \E r \in Requests :
       \/ StartRead(r) \/ RequestStep(r) \/ RequestFails(r)
       \/ \E j \in Active, status \in {"completed", "abandoned"} : FinishRead(r, j, status)

Spec == Init /\ [][Next]_vars

-----------------------------------------------------------------------------
(***************************************************************************)
(* Properties.                                                             *)
(***************************************************************************)

\* "A user has at most one active journey" (journeys.py:22) does not hold, but
\* there are never more active journeys than starts that raced with another
\* start account for: finishing, cancelling and the engine add none.
ActivesComeFromRaces == Cardinality(Active) <= 1 + races

\* What a committed notification told the user is not delivered again by a
\* later cycle, and a journey is reported either completed or missed.
NotifiedOnce ==
  LET told == notifications \cup cycle.sent IN
  /\ cycle.sent \cap notifications = {}
  /\ \A j \in Ids : <<j, "completed">> \notin told \/ <<j, "missed">> \notin told

\* The journey's event log accounts for the status of its row, also when two
\* transactions ended the journey one over the other.
EventsExplainStatus ==
  \A j \in Ids :
    /\ journey[j].status # "none" <=> "started" \in events[j]
    /\ journey[j].status = "active" => events[j] = {"started"}
    /\ journey[j].status \in Ended =>
         events[j] \cap ({journey[j].status}
           \cup IF journey[j].status = "abandoned" THEN {"superseded"} ELSE {}) # {}

\* No transaction brings an ended journey back to life, whatever it read.
EndedStaysEnded ==
  [][\A j \in Ids : journey[j].status \in Ended => journey'[j].status \in Ended]_vars

\* Every journey ends at the latest when the engine finds it too old.
JourneysEnd == \A j \in Ids : journey[j].status = "active" ~> journey[j].status # "active"

\* No definition names a request: permuting them is a symmetry.
Symmetry == Permutations(Requests)
=============================================================================
