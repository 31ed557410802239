--------------------------- MODULE JourneysProofs ---------------------------
(***************************************************************************)
(* Proofs about Journeys for any number of requests, journeys, reminders   *)
(* and failing cycles.                                                     *)
(***************************************************************************)
EXTENDS Journeys, FiniteSetTheorems, TLAPS

Told(j) == <<j, "completed">> \in notifications \/ <<j, "missed">> \in notifications

(***************************************************************************)
(* The strengthening.                                                      *)
(***************************************************************************)

\* An id handed out by a flush is nobody else's and has no committed row yet.
IdsAreFresh ==
  /\ \A j \in Ids : j > usedIds => journey[j].status = "none"
  /\ \A r \in Requests : requests[r].op = "flushed" =>
       /\ requests[r].id \in 1..usedIds
       /\ journey[requests[r].id].status = "none"
  /\ \A r, q \in Requests :
       requests[r].op = "flushed" /\ requests[q].op = "flushed"
         /\ requests[r].id = requests[q].id => r = q

\* What a request or the cycle read is a row that exists.
ReadsExist ==
  /\ \A r \in Requests :
       /\ requests[r].op \in Ended => requests[r].id \in Ids /\ journey[requests[r].id].status # "none"
       /\ requests[r].op \in {"starting", "flushed"} /\ requests[r].old # 0
            => journey[requests[r].old].status # "none"
  /\ \A j \in DOMAIN cycle.rows : journey[j].status # "none"

\* The cycle is the only writer of payloads: what it read is still there, and
\* what it changed contains it.
RowsAreCurrent ==
  /\ \A j \in cycle.todo : cycle.rows[j].status = "active" /\ cycle.rows[j].payload = journey[j].payload
  /\ \A j \in cycle.ended : cycle.rows[j].status \in Ended
  /\ \A j \in cycle.noted : journey[j].payload \subseteq cycle.rows[j].payload

\* What was delivered in this cycle is what it is going to commit.
SentIsStaged ==
  \A j \in Ids, k \in Kinds : <<j, k>> \in cycle.sent =>
    IF k \in Reminders
    THEN j \in cycle.noted /\ k \in cycle.rows[j].payload /\ k \notin journey[j].payload
    ELSE j \in cycle.ended /\ cycle.rows[j].status = k

\* A committed notification has left its mark on the journey's row.
ToldIsMarked ==
  /\ \A j \in Ids, k \in Reminders : <<j, k>> \in notifications =>
       journey[j].status # "none" /\ k \in journey[j].payload
  /\ \A j \in Ids : Told(j) => journey[j].status \in Ended /\ j \notin DOMAIN cycle.rows
  /\ \A j \in Ids : <<j, "completed">> \notin notifications \/ <<j, "missed">> \notin notifications

IInv == TypeOK /\ IdsAreFresh /\ ReadsExist /\ RowsAreCurrent /\ SentIsStaged /\ ToldIsMarked

-----------------------------------------------------------------------------
(***************************************************************************)
(* The rows a transaction works with.                                      *)
(***************************************************************************)
RowSets == UNION {[D -> Row] : D \in SUBSET Ids}

LEMMA RowsAreFunctions ==
  /\ \A f \in RowSets : DOMAIN f \subseteq Ids /\ f \in [DOMAIN f -> Row]
  /\ \A D \in SUBSET Ids : \A f \in [D -> Row] : f \in RowSets
BY DEF RowSets

LEMMA StatusUpdate ==
  ASSUME NEW f \in RowSets, NEW j \in DOMAIN f, NEW s \in Ended \cup {"none", "active"},
         NEW g, g = [f EXCEPT ![j].status = s]
  PROVE  /\ g \in RowSets /\ DOMAIN g = DOMAIN f
         /\ g[j].status = s /\ g[j].payload = f[j].payload
         /\ \A k \in DOMAIN f : k # j => g[k] = f[k]
<1>1. DOMAIN f \subseteq Ids /\ f \in [DOMAIN f -> Row]
  BY RowsAreFunctions
<1>2. f[j] \in Row
  BY <1>1
<1>3. g \in [DOMAIN f -> Row]
  BY <1>1, <1>2 DEF Row
<1> QED
  BY <1>1, <1>2, <1>3, RowsAreFunctions DEF Row

LEMMA PayloadUpdate ==
  ASSUME NEW f \in RowSets, NEW j \in DOMAIN f, NEW kind \in Reminders,
         NEW g, g = [f EXCEPT ![j].payload = @ \cup {kind}]
  PROVE  /\ g \in RowSets /\ DOMAIN g = DOMAIN f
         /\ g[j].status = f[j].status /\ g[j].payload = f[j].payload \cup {kind}
         /\ \A k \in DOMAIN f : k # j => g[k] = f[k]
<1>1. DOMAIN f \subseteq Ids /\ f \in [DOMAIN f -> Row]
  BY RowsAreFunctions
<1>2. f[j] \in Row
  BY <1>1
<1>3. g \in [DOMAIN f -> Row]
  BY <1>1, <1>2 DEF Row
<1> QED
  BY <1>1, <1>2, <1>3, RowsAreFunctions DEF Row

-----------------------------------------------------------------------------
(***************************************************************************)
(* What each evaluation does to the transaction.                           *)
(***************************************************************************)
LEMMA TransactionFields ==
  ASSUME TypeOK
  PROVE  /\ cycle.rows \in RowSets /\ DOMAIN cycle.rows \subseteq Ids
         /\ \A j \in DOMAIN cycle.rows : cycle.rows[j] \in Row
         /\ cycle.todo \subseteq DOMAIN cycle.rows
         /\ cycle.ended \cup cycle.noted \subseteq DOMAIN cycle.rows \ cycle.todo
         /\ cycle.sent \subseteq (DOMAIN cycle.rows \ cycle.todo) \X Kinds
<1>1. cycle.rows \in RowSets
  BY DEF TypeOK, Transaction, RowSets
<1> QED
  BY <1>1, RowsAreFunctions DEF TypeOK

LEMMA AbandonEffect ==
  ASSUME TypeOK, NEW j \in cycle.todo, Abandon(j)
  PROVE  /\ cycle' \in Transaction
         /\ cycle'.open = cycle.open /\ cycle'.todo = cycle.todo \ {j}
         /\ cycle'.ended = cycle.ended \cup {j} /\ cycle'.noted = cycle.noted
         /\ cycle'.locked = cycle.locked /\ cycle'.sent = cycle.sent
         /\ DOMAIN cycle'.rows = DOMAIN cycle.rows
         /\ cycle'.rows[j].status = "abandoned" /\ cycle'.rows[j].payload = cycle.rows[j].payload
         /\ \A k \in DOMAIN cycle.rows : k # j => cycle'.rows[k] = cycle.rows[k]
<1> DEFINE g == [cycle.rows EXCEPT ![j].status = "abandoned"]
<1>1. cycle.rows \in RowSets /\ j \in DOMAIN cycle.rows /\ j \in Ids
  BY TransactionFields
<1>2. /\ g \in RowSets /\ DOMAIN g = DOMAIN cycle.rows
      /\ g[j].status = "abandoned" /\ g[j].payload = cycle.rows[j].payload
      /\ \A k \in DOMAIN cycle.rows : k # j => g[k] = cycle.rows[k]
  BY <1>1, StatusUpdate DEF Ended
<1>3. cycle \in Transaction
  BY DEF TypeOK
<1>4. cycle' = [cycle EXCEPT !.todo = @ \ {j}, !.ended = @ \cup {j}, !.rows = g]
  BY <1>3 DEF Abandon, Transaction
<1> HIDE DEF g
<1>5. /\ cycle'.open = cycle.open /\ cycle'.todo = cycle.todo \ {j}
      /\ cycle'.ended = cycle.ended \cup {j} /\ cycle'.noted = cycle.noted
      /\ cycle'.locked = cycle.locked /\ cycle'.sent = cycle.sent
      /\ cycle'.rows = g
  BY <1>3, <1>4 DEF Transaction
<1>6. cycle' \in Transaction
  BY <1>1, <1>2, <1>3, <1>4 DEF Transaction, RowSets
<1> QED
  BY <1>2, <1>5, <1>6

LEMMA ArriveEffect ==
  ASSUME TypeOK, NEW j \in cycle.todo, NEW status \in {"completed", "missed"}, Arrive(j, status)
  PROVE  /\ cycle' \in Transaction
         /\ cycle'.open = cycle.open /\ cycle'.todo = cycle.todo \ {j}
         /\ cycle'.ended = cycle.ended \cup {j} /\ cycle'.noted = cycle.noted
         /\ cycle'.locked = cycle.ended \cup cycle.noted \cup {j}
         /\ cycle'.sent = cycle.sent \cup {<<j, status>>}
         /\ DOMAIN cycle'.rows = DOMAIN cycle.rows
         /\ cycle'.rows[j].status = status /\ cycle'.rows[j].payload = cycle.rows[j].payload
         /\ \A k \in DOMAIN cycle.rows : k # j => cycle'.rows[k] = cycle.rows[k]
<1> DEFINE g == [cycle.rows EXCEPT ![j].status = status]
           changed == cycle.ended \cup cycle.noted \cup {j}
<1>1. cycle.rows \in RowSets /\ j \in DOMAIN cycle.rows /\ j \in Ids
  BY TransactionFields
<1>2. /\ g \in RowSets /\ DOMAIN g = DOMAIN cycle.rows
      /\ g[j].status = status /\ g[j].payload = cycle.rows[j].payload
      /\ \A k \in DOMAIN cycle.rows : k # j => g[k] = cycle.rows[k]
  BY <1>1, StatusUpdate DEF Ended
<1>3. cycle \in Transaction
  BY DEF TypeOK
<1>4. cycle' = [cycle EXCEPT !.todo = @ \ {j}, !.ended = @ \cup {j}, !.locked = changed,
                             !.rows = g, !.sent = @ \cup {<<j, status>>}]
  BY <1>3 DEF Arrive, Transaction
<1> HIDE DEF g
<1>5. /\ cycle'.open = cycle.open /\ cycle'.todo = cycle.todo \ {j}
      /\ cycle'.ended = cycle.ended \cup {j} /\ cycle'.noted = cycle.noted
      /\ cycle'.locked = changed /\ cycle'.sent = cycle.sent \cup {<<j, status>>}
      /\ cycle'.rows = g
  BY <1>3, <1>4 DEF Transaction
<1>6. /\ cycle.sent \cup {<<j, status>>} \in SUBSET (Ids \X Kinds)
      /\ changed \in SUBSET Ids
  BY <1>1, <1>3 DEF Transaction, Kinds
<1> HIDE DEF changed
<1>7. cycle' \in Transaction
  BY <1>1, <1>2, <1>3, <1>4, <1>6 DEF Transaction, RowSets
<1> QED
  BY <1>2, <1>5, <1>7 DEF changed

LEMMA RemindEffect ==
  ASSUME TypeOK, NEW j \in cycle.todo, NEW kind \in Reminders, Remind(j, kind)
  PROVE  /\ cycle' \in Transaction
         /\ cycle'.open = cycle.open /\ cycle'.todo = cycle.todo \ {j}
         /\ cycle'.ended = cycle.ended /\ cycle'.noted = cycle.noted \cup {j}
         /\ cycle'.locked = cycle.ended \cup cycle.noted
         /\ cycle'.sent = cycle.sent \cup {<<j, kind>>}
         /\ DOMAIN cycle'.rows = DOMAIN cycle.rows
         /\ cycle'.rows[j].status = cycle.rows[j].status
         /\ cycle'.rows[j].payload = cycle.rows[j].payload \cup {kind}
         /\ \A k \in DOMAIN cycle.rows : k # j => cycle'.rows[k] = cycle.rows[k]
<1> DEFINE g == [cycle.rows EXCEPT ![j].payload = @ \cup {kind}]
           changed == cycle.ended \cup cycle.noted
<1>1. cycle.rows \in RowSets /\ j \in DOMAIN cycle.rows /\ j \in Ids
  BY TransactionFields
<1>2. /\ g \in RowSets /\ DOMAIN g = DOMAIN cycle.rows
      /\ g[j].status = cycle.rows[j].status /\ g[j].payload = cycle.rows[j].payload \cup {kind}
      /\ \A k \in DOMAIN cycle.rows : k # j => g[k] = cycle.rows[k]
  BY <1>1, PayloadUpdate
<1>3. cycle \in Transaction
  BY DEF TypeOK
<1>4. cycle' = [cycle EXCEPT !.todo = @ \ {j}, !.noted = @ \cup {j}, !.locked = changed,
                             !.rows = g, !.sent = @ \cup {<<j, kind>>}]
  BY <1>3 DEF Remind, Transaction
<1> HIDE DEF g
<1>5. /\ cycle'.open = cycle.open /\ cycle'.todo = cycle.todo \ {j}
      /\ cycle'.ended = cycle.ended /\ cycle'.noted = cycle.noted \cup {j}
      /\ cycle'.locked = changed /\ cycle'.sent = cycle.sent \cup {<<j, kind>>}
      /\ cycle'.rows = g
  BY <1>3, <1>4 DEF Transaction
<1>6. /\ cycle.sent \cup {<<j, kind>>} \in SUBSET (Ids \X Kinds)
      /\ changed \in SUBSET Ids
  BY <1>1, <1>3 DEF Transaction, Kinds
<1> HIDE DEF changed
<1>7. cycle' \in Transaction
  BY <1>1, <1>2, <1>3, <1>4, <1>6 DEF Transaction, RowSets
<1> QED
  BY <1>2, <1>5, <1>7 DEF changed

LEMMA PassOverEffect ==
  ASSUME TypeOK, NEW j \in cycle.todo, PassOver(j)
  PROVE  /\ cycle' \in Transaction
         /\ cycle'.open = cycle.open /\ cycle'.rows = cycle.rows
         /\ cycle'.todo = cycle.todo \ {j}
         /\ cycle'.ended = cycle.ended /\ cycle'.noted = cycle.noted
         /\ cycle'.locked = cycle.locked /\ cycle'.sent = cycle.sent
BY DEF PassOver, TypeOK, Transaction

LEMMA BeginEffect ==
  ASSUME TypeOK, CycleBegins
  PROVE  /\ cycle' \in Transaction
         /\ DOMAIN cycle'.rows = Active /\ cycle'.todo = Active
         /\ \A j \in Active : cycle'.rows[j] = journey[j]
         /\ cycle'.ended = {} /\ cycle'.noted = {} /\ cycle'.locked = {} /\ cycle'.sent = {}
<1>0. Active \in SUBSET Ids /\ [j \in Active |-> journey[j]] \in [Active -> Row]
  BY DEF TypeOK, Active
<1>1. [j \in Active |-> journey[j]] \in RowSets
  BY <1>0, RowsAreFunctions
<1> QED
  BY <1>0, <1>1 DEF CycleBegins, IdleCycle, Transaction, RowSets

LEMMA IdleEffect ==
  /\ IdleCycle \in Transaction
  /\ DOMAIN IdleCycle.rows = {} /\ IdleCycle.todo = {}
  /\ IdleCycle.ended = {} /\ IdleCycle.noted = {} /\ IdleCycle.locked = {} /\ IdleCycle.sent = {}
<1>1. [j \in {} |-> NoRow] \in RowSets
  BY RowsAreFunctions
<1> QED
  BY <1>1 DEF IdleCycle, Transaction, RowSets

-----------------------------------------------------------------------------
(***************************************************************************)
(* Type correctness.                                                       *)
(***************************************************************************)
LEMMA WrittenRow ==
  ASSUME TypeOK, NEW j \in Ids, j \in cycle.ended \cup cycle.noted
  PROVE  /\ Written(j) \in Row
         /\ Written(j).status = IF j \in cycle.ended THEN cycle.rows[j].status ELSE journey[j].status
         /\ Written(j).payload = IF j \in cycle.noted THEN cycle.rows[j].payload ELSE journey[j].payload
<1>1. journey[j] \in Row /\ cycle.rows[j] \in Row
  BY TransactionFields DEF TypeOK
<1> QED
  BY <1>1 DEF Written, Row

LEMMA RequestTypes ==
  ASSUME TypeOK, NEW r \in Requests,
         StartRead(r) \/ RequestFails(r) \/ \E j \in Active, s \in {"completed", "abandoned"} : FinishRead(r, j, s)
  PROVE  TypeOK'
<1> DEFINE Record == [op : {"idle", "starting", "flushed"} \cup Ended,
                      id : 0..MaxJourneys, old : 0..MaxJourneys, raced : BOOLEAN]
<1>1. Idle \in Record
  BY JourneyBounds DEF Idle, Request
<1>2. UNCHANGED <<database, aged, cycle, races, failures>>
  BY DEF StartRead, RequestFails, FinishRead
<1>3. requests' \in [Requests -> Record]
  <2>1. CASE StartRead(r)
    <3>0. (IF Active = {} THEN {0} ELSE Active) \subseteq 0..MaxJourneys
      BY JourneyBounds DEF Active, Ids
    <3>1. PICK j \in 0..MaxJourneys :
            requests' = [requests EXCEPT ![r] = Request("starting", 0, j)]
      BY <2>1, <3>0 DEF StartRead
    <3>2. Request("starting", 0, j) \in Record
      BY JourneyBounds DEF Request
    <3> QED
      BY <3>1, <3>2 DEF TypeOK
  <2>2. CASE RequestFails(r)
    BY <1>1, <2>2 DEF RequestFails, TypeOK
  <2>3. ASSUME NEW j \in Active, NEW s \in {"completed", "abandoned"}, FinishRead(r, j, s)
        PROVE  requests' \in [Requests -> Record]
    <3>0. j \in 0..MaxJourneys
      BY JourneyBounds DEF Active, Ids
    <3>1. Request(s, j, 0) \in Record
      BY <3>0, JourneyBounds DEF Request, Ended
    <3> QED
      BY <2>3, <3>1 DEF FinishRead, TypeOK
  <2> QED
    BY <2>1, <2>2, <2>3
<1> QED
  BY <1>2, <1>3 DEF TypeOK, database

LEMMA StartFlushTypes == ASSUME TypeOK, NEW r \in Requests, StartFlush(r) PROVE TypeOK'
<1>1. usedIds' \in 0..MaxJourneys /\ usedIds + 1 \in 0..MaxJourneys
  BY JourneyBounds DEF TypeOK, StartFlush
<1> QED
  BY <1>1 DEF TypeOK, StartFlush

LEMMA SupersededRows ==
  ASSUME TypeOK, NEW r \in Requests
  PROVE  /\ Superseded(r) \in [Ids -> Row]
         /\ \A j \in Ids : Superseded(r)[j].payload = journey[j].payload
         /\ \A j \in Ids : Superseded(r)[j].status
              = IF j = requests[r].old THEN "abandoned" ELSE journey[j].status
BY DEF TypeOK, Superseded, Row, Ended

LEMMA StartCommitRows ==
  ASSUME TypeOK, NEW r \in Requests, StartCommit(r)
  PROVE  /\ journey' \in [Ids -> Row]
         /\ \A j \in Ids : j # requests[r].id =>
              /\ journey'[j].payload = journey[j].payload
              /\ journey'[j].status = IF j = requests[r].old THEN "abandoned" ELSE journey[j].status
         /\ requests[r].id \in Ids =>
              journey'[requests[r].id].payload = {} /\ journey'[requests[r].id].status = "active"
<1>1. PICK tracked \in BOOLEAN :
        journey' = [Superseded(r) EXCEPT ![requests[r].id] =
                      [status |-> "active", vehicle |-> tracked, payload |-> {}]]
  BY DEF StartCommit
<1>2. [status |-> "active", vehicle |-> tracked, payload |-> {}] \in Row
  BY DEF Row
<1> QED
  BY <1>1, <1>2, SupersededRows

LEMMA StartCommitTypes == ASSUME TypeOK, NEW r \in Requests, StartCommit(r) PROVE TypeOK'
<1>1. journey' \in [Ids -> Row]
  BY StartCommitRows
<1>2. events' \in [Ids -> SUBSET (Ended \cup {"started", "superseded"})]
  BY DEF TypeOK, StartCommit
<1>3. requests' \in [Requests ->
       [op : {"idle", "starting", "flushed"} \cup Ended,
        id : 0..MaxJourneys, old : 0..MaxJourneys, raced : BOOLEAN]]
  <2>1. Idle \in [op : {"idle", "starting", "flushed"} \cup Ended,
                  id : 0..MaxJourneys, old : 0..MaxJourneys, raced : BOOLEAN]
    BY JourneyBounds DEF Idle, Request
  <2> QED
    BY <2>1 DEF TypeOK, StartCommit
<1>4. races' \in Nat
  BY DEF TypeOK, StartCommit
<1> QED
  BY <1>1, <1>2, <1>3, <1>4 DEF TypeOK, StartCommit

LEMMA FinishCommitRows ==
  ASSUME TypeOK, NEW r \in Requests, FinishCommit(r)
  PROVE  /\ journey' \in [Ids -> Row]
         /\ \A j \in Ids : journey'[j].payload = journey[j].payload
         /\ \A j \in Ids : journey'[j].status
              = IF j = requests[r].id THEN requests[r].op ELSE journey[j].status
<1>1. journey' = [journey EXCEPT ![requests[r].id].status = requests[r].op] /\ requests[r].op \in Ended
  BY DEF FinishCommit
<1>2. \A j \in Ids : journey[j] \in Row
  BY DEF TypeOK
<1>3. \A j \in Ids : journey'[j] = IF j = requests[r].id
                                   THEN [journey[j] EXCEPT !.status = requests[r].op] ELSE journey[j]
  BY <1>1 DEF TypeOK
<1>4. \A j \in Ids : journey'[j] \in Row
  BY <1>1, <1>2, <1>3 DEF Row
<1>5. journey' \in [Ids -> Row]
  BY <1>1, <1>4 DEF TypeOK
<1> QED
  BY <1>2, <1>3, <1>5 DEF Row

LEMMA FinishCommitTypes == ASSUME TypeOK, NEW r \in Requests, FinishCommit(r) PROVE TypeOK'
<1>1. journey' \in [Ids -> Row]
  BY FinishCommitRows
<1>2. events' \in [Ids -> SUBSET (Ended \cup {"started", "superseded"})]
  BY DEF TypeOK, FinishCommit
<1>3. Idle \in [op : {"idle", "starting", "flushed"} \cup Ended,
                id : 0..MaxJourneys, old : 0..MaxJourneys, raced : BOOLEAN]
  BY JourneyBounds DEF Idle, Request
<1> QED
  BY <1>1, <1>2, <1>3 DEF TypeOK, FinishCommit

LEMMA CommitRows ==
  ASSUME TypeOK, CycleCommits
  PROVE  /\ journey' \in [Ids -> Row]
         /\ \A j \in Ids : journey'[j].status
              = IF j \in cycle.ended THEN cycle.rows[j].status ELSE journey[j].status
         /\ \A j \in Ids : journey'[j].payload
              = IF j \in cycle.noted THEN cycle.rows[j].payload ELSE journey[j].payload
<1>1. journey' = [j \in Ids |-> IF j \in cycle.ended \cup cycle.noted THEN Written(j) ELSE journey[j]]
  BY DEF CycleCommits
<1>2. \A j \in Ids : journey[j] \in Row
  BY DEF TypeOK
<1> QED
  BY <1>1, <1>2, WrittenRow

LEMMA EvaluationTypes ==
  ASSUME TypeOK, cycle' \in Transaction, NEW j \in cycle.todo,
         UNCHANGED <<database, aged, requests, races, failures>>,
         DOMAIN cycle'.rows = DOMAIN cycle.rows,
         cycle'.todo = cycle.todo \ {j},
         cycle'.ended \cup cycle'.noted \subseteq cycle.ended \cup cycle.noted \cup {j},
         cycle'.locked \subseteq cycle'.ended \cup cycle'.noted,
         cycle'.sent \subseteq cycle.sent \cup ({j} \X Kinds)
  PROVE  TypeOK'
<1>1. /\ cycle'.todo \subseteq DOMAIN cycle'.rows
      /\ cycle'.ended \cup cycle'.noted \subseteq DOMAIN cycle'.rows \ cycle'.todo
      /\ cycle'.sent \subseteq (DOMAIN cycle'.rows \ cycle'.todo) \X Kinds
  BY TransactionFields
<1> QED
  BY <1>1 DEF TypeOK, database

LEMMA CycleTypes ==
  ASSUME TypeOK, RowsAreCurrent, CycleStep \/ CycleFails
  PROVE  TypeOK'
<1>1. CASE CycleBegins
  BY <1>1, BeginEffect DEF CycleBegins, TypeOK, database
<1>2. CASE CycleCommits
  <2>1. journey' \in [Ids -> Row]
    BY <1>2, CommitRows
  <2>2. events' \in [Ids -> SUBSET (Ended \cup {"started", "superseded"})]
    BY <1>2 DEF CycleCommits, TypeOK, RowsAreCurrent
  <2>3. notifications' \subseteq Ids \X Kinds
    BY <1>2, TransactionFields DEF CycleCommits, TypeOK
  <2> QED
    BY <1>2, <2>1, <2>2, <2>3, IdleEffect DEF CycleCommits, TypeOK
<1>3. CASE CycleFails
  <2>1. failures' \in 0..MaxFailures
    BY <1>3, JourneyBounds DEF CycleFails, TypeOK
  <2> QED
    BY <1>3, <2>1, IdleEffect DEF CycleFails, TypeOK, database
<1>4. ASSUME NEW j \in cycle.todo, Abandon(j) PROVE TypeOK'
  <2>1. cycle'.locked \subseteq cycle'.ended \cup cycle'.noted
    BY <1>4, AbandonEffect DEF TypeOK
  <2> QED
    BY <1>4, <2>1, AbandonEffect, EvaluationTypes DEF Abandon
<1>5. ASSUME NEW j \in cycle.todo, PassOver(j) PROVE TypeOK'
  <2>1. cycle'.locked \subseteq cycle'.ended \cup cycle'.noted
    BY <1>5, PassOverEffect DEF TypeOK
  <2> QED
    BY <1>5, <2>1, PassOverEffect, EvaluationTypes DEF PassOver
<1>6. ASSUME NEW j \in cycle.todo, NEW s \in {"completed", "missed"}, Arrive(j, s) PROVE TypeOK'
  <2>1. /\ cycle'.locked \subseteq cycle'.ended \cup cycle'.noted
        /\ cycle'.sent \subseteq cycle.sent \cup ({j} \X Kinds)
    BY <1>6, ArriveEffect DEF Kinds
  <2> QED
    BY <1>6, <2>1, ArriveEffect, EvaluationTypes DEF Arrive
<1>7. ASSUME NEW j \in cycle.todo, NEW k \in Reminders, Remind(j, k) PROVE TypeOK'
  <2>1. /\ cycle'.locked \subseteq cycle'.ended \cup cycle'.noted
        /\ cycle'.ended \cup cycle'.noted \subseteq cycle.ended \cup cycle.noted \cup {j}
        /\ cycle'.sent \subseteq cycle.sent \cup ({j} \X Kinds)
    BY <1>7, RemindEffect DEF Kinds
  <2> QED
    BY <1>7, <2>1, RemindEffect, EvaluationTypes DEF Remind
<1> QED
  BY <1>1, <1>2, <1>3, <1>4, <1>5, <1>6, <1>7 DEF CycleStep

LEMMA TypeStep == TypeOK /\ RowsAreCurrent /\ [Next]_vars => TypeOK'
<1> SUFFICES ASSUME TypeOK, RowsAreCurrent, [Next]_vars PROVE TypeOK'
  OBVIOUS
<1>1. CASE CycleStep \/ CycleFails
  BY <1>1, CycleTypes
<1>2. ASSUME NEW j \in Ids, Age(j) PROVE TypeOK'
  BY <1>2 DEF Age, TypeOK, Active, database
<1>3. ASSUME NEW r \in Requests, StartFlush(r) \/ StartCommit(r) \/ FinishCommit(r) PROVE TypeOK'
  BY <1>3, StartFlushTypes, StartCommitTypes, FinishCommitTypes
<1>4. CASE UNCHANGED vars
  BY <1>4 DEF vars, database, TypeOK
<1> QED
  BY <1>1, <1>2, <1>3, <1>4, RequestTypes DEF Next, RequestStep

-----------------------------------------------------------------------------
(***************************************************************************)
(* What a step does to the committed rows.                                 *)
(***************************************************************************)

\* A row that exists goes on existing, and an ended journey stays ended.
LEMMA RowsLive ==
  ASSUME IInv, [Next]_vars
  PROVE  \A j \in Ids : /\ journey[j].status # "none" => journey'[j].status # "none"
                        /\ journey[j].status \in Ended => journey'[j].status \in Ended
<1> USE DEF IInv
<1>1. ASSUME NEW r \in Requests, StartCommit(r), NEW j \in Ids
      PROVE  /\ journey[j].status # "none" => journey'[j].status # "none"
             /\ journey[j].status \in Ended => journey'[j].status \in Ended
  <2>1. requests[r].op = "flushed" /\ requests[r].id \in Ids /\ journey[requests[r].id].status = "none"
    BY <1>1 DEF StartCommit, IdsAreFresh, TypeOK, Ids
  <2>2. CASE j = requests[r].id
    BY <2>1, <2>2 DEF Ended
  <2>3. CASE j # requests[r].id
    BY <1>1, <2>3, StartCommitRows DEF Ended
  <2> QED
    BY <2>2, <2>3
<1>2. ASSUME NEW r \in Requests, FinishCommit(r), NEW j \in Ids
      PROVE  /\ journey[j].status # "none" => journey'[j].status # "none"
             /\ journey[j].status \in Ended => journey'[j].status \in Ended
  <2>1. requests[r].op \in Ended
    BY <1>2 DEF FinishCommit
  <2> QED
    BY <1>2, <2>1, FinishCommitRows DEF Ended
<1>3. ASSUME CycleCommits, NEW j \in Ids
      PROVE  /\ journey[j].status # "none" => journey'[j].status # "none"
             /\ journey[j].status \in Ended => journey'[j].status \in Ended
  BY <1>3, CommitRows DEF RowsAreCurrent, Ended
<1>4. CASE UNCHANGED journey
  BY <1>4
<1>5. ASSUME Next PROVE \/ UNCHANGED journey
                        \/ CycleCommits
                        \/ \E r \in Requests : StartCommit(r) \/ FinishCommit(r)
  BY <1>5 DEF Next, CycleStep, CycleBegins, Abandon, PassOver, Arrive, Remind, CycleFails, Age,
    StartRead, RequestStep, StartFlush, RequestFails, FinishRead, database
<1> QED
  BY <1>1, <1>2, <1>3, <1>4, <1>5 DEF vars, database

(***************************************************************************)
(* Every conjunct of the strengthening is preserved.                       *)
(***************************************************************************)
LEMMA FreshStep == ASSUME IInv, [Next]_vars PROVE IdsAreFresh'
<1> USE DEF IInv
<1>1. ASSUME NEW r \in Requests, StartRead(r) \/ RequestFails(r)
             \/ \E j \in Active, s \in {"completed", "abandoned"} : FinishRead(r, j, s)
      PROVE  IdsAreFresh'
  <2>1. PICK q : requests' = [requests EXCEPT ![r] = q] /\ q.op # "flushed"
    BY <1>1 DEF StartRead, RequestFails, FinishRead, Idle, Request
  <2>2. UNCHANGED <<journey, usedIds>>
    BY <1>1 DEF StartRead, RequestFails, FinishRead, database
  <2> QED
    BY <2>1, <2>2 DEF IdsAreFresh, TypeOK
<1>2. ASSUME NEW r \in Requests, StartFlush(r) PROVE IdsAreFresh'
  <2>1. /\ usedIds < MaxJourneys /\ usedIds' = usedIds + 1 /\ UNCHANGED journey
        /\ usedIds + 1 \in Ids
    BY <1>2, JourneyBounds DEF StartFlush, TypeOK, Ids
  <2>2. /\ requests'[r].op = "flushed" /\ requests'[r].id = usedIds + 1
        /\ \A q \in Requests : q # r => requests'[q] = requests[q]
    BY <1>2 DEF StartFlush, TypeOK
  <2>3. \A q \in Requests : requests[q].op = "flushed" =>
          requests[q].id \in 1..usedIds /\ requests[q].id \in Ids
    BY JourneyBounds DEF IdsAreFresh, TypeOK, Ids
  <2>4. usedIds \in Nat
    BY JourneyBounds DEF TypeOK
  <2>5. \A j \in Ids : j > usedIds' => journey'[j].status = "none"
    BY <2>1, <2>4 DEF IdsAreFresh, Ids
  <2>6. \A q \in Requests : requests'[q].op = "flushed" =>
          requests'[q].id \in 1..usedIds' /\ journey'[requests'[q].id].status = "none"
    <3>1. usedIds + 1 \in 1..usedIds' /\ journey'[usedIds + 1].status = "none"
      BY <2>1, <2>4 DEF IdsAreFresh
    <3>2. ASSUME NEW q \in Requests, q # r, requests'[q].op = "flushed"
          PROVE  requests'[q].id \in 1..usedIds' /\ journey'[requests'[q].id].status = "none"
      <4>1. requests[q].id \in 1..usedIds /\ journey[requests[q].id].status = "none"
        BY <2>2, <3>2 DEF IdsAreFresh
      <4>2. requests[q].id \in 1..usedIds'
        BY <2>1, <2>4, <4>1
      <4> QED
        BY <2>1, <2>2, <3>2, <4>1, <4>2
    <3> QED
      BY <2>2, <3>1, <3>2
  <2>7. ASSUME NEW q \in Requests, NEW o \in Requests, requests'[q].op = "flushed",
               requests'[o].op = "flushed", requests'[q].id = requests'[o].id
        PROVE  q = o
    <3>1. \A p \in Requests : p # r /\ requests'[p].op = "flushed" => requests'[p].id # usedIds + 1
      BY <2>2, <2>3, <2>4
    <3>2. CASE q # r /\ o # r
      BY <2>2, <2>7, <3>2 DEF IdsAreFresh
    <3> QED
      BY <2>2, <2>7, <3>1, <3>2
  <2> QED
    BY <2>5, <2>6, <2>7 DEF IdsAreFresh
<1>3. ASSUME NEW r \in Requests, StartCommit(r) PROVE IdsAreFresh'
  <2>1. /\ requests[r].op = "flushed" /\ requests[r].id \in 1..usedIds /\ requests[r].id \in Ids
        /\ journey[requests[r].id].status = "none"
    BY <1>3 DEF StartCommit, IdsAreFresh, TypeOK, Ids
  <2>2. usedIds' = usedIds
    BY <1>3 DEF StartCommit
  <2>3. requests'[r].op # "flushed"
    BY <1>3 DEF StartCommit, Idle, Request
  <2>4. \A q \in Requests : q # r =>
          requests'[q].op = requests[q].op /\ requests'[q].id = requests[q].id
    BY <1>3 DEF StartCommit, TypeOK
  <2>5. \A j \in Ids : journey[j].status = "none" /\ j # requests[r].id => journey'[j].status = "none"
    <3>1. \A j \in Ids : journey[j].status = "none" => j # requests[r].old
      BY <2>1 DEF ReadsExist, Ids
    <3> QED
      BY <1>3, <3>1, StartCommitRows
  <2>6. \A j \in Ids : j > usedIds' => journey'[j].status = "none"
    BY <2>1, <2>2, <2>5 DEF IdsAreFresh, Ids, TypeOK
  <2>7. \A q \in Requests : requests'[q].op = "flushed" =>
          requests'[q].id \in 1..usedIds' /\ journey'[requests'[q].id].status = "none"
    <3> SUFFICES ASSUME NEW q \in Requests, requests'[q].op = "flushed"
                 PROVE  requests'[q].id \in 1..usedIds' /\ journey'[requests'[q].id].status = "none"
      OBVIOUS
    <3>1. q # r /\ requests[q].op = "flushed" /\ requests'[q].id = requests[q].id
      BY <2>3, <2>4
    <3>2. requests[q].id \in 1..usedIds /\ journey[requests[q].id].status = "none"
      BY <3>1 DEF IdsAreFresh
    <3>3. requests[q].id # requests[r].id
      BY <2>1, <3>1 DEF IdsAreFresh
    <3>4. requests[q].id \in Ids
      BY <3>2, JourneyBounds DEF Ids, TypeOK
    <3> QED
      BY <2>2, <2>5, <3>1, <3>2, <3>3, <3>4
  <2> QED
    BY <2>3, <2>4, <2>6, <2>7 DEF IdsAreFresh
<1>4. ASSUME NEW r \in Requests, FinishCommit(r) PROVE IdsAreFresh'
  <2>1. \A j \in Ids : journey[j].status = "none" => journey'[j].status = "none"
    <3>1. journey[requests[r].id].status # "none"
      BY <1>4 DEF FinishCommit, ReadsExist
    <3> QED
      BY <1>4, <3>1, FinishCommitRows
  <2>2. /\ usedIds' = usedIds /\ requests'[r].op # "flushed"
        /\ \A q \in Requests : q # r => requests'[q] = requests[q]
    BY <1>4 DEF FinishCommit, TypeOK, Idle, Request
  <2>3. \A q \in Requests : requests[q].op = "flushed" => requests[q].id \in Ids
    BY JourneyBounds DEF IdsAreFresh, Ids, TypeOK
  <2> QED
    BY <2>1, <2>2, <2>3 DEF IdsAreFresh
<1>5. CASE CycleCommits
  <2>1. \A j \in Ids : journey[j].status = "none" => journey'[j].status = "none"
    <3>1. \A j \in cycle.ended : journey[j].status # "none"
      BY TransactionFields DEF ReadsExist
    <3> QED
      BY <1>5, <3>1, CommitRows
  <2>2. UNCHANGED <<usedIds, requests>>
    BY <1>5 DEF CycleCommits
  <2>3. \A q \in Requests : requests[q].op = "flushed" => requests[q].id \in Ids
    BY JourneyBounds DEF IdsAreFresh, Ids, TypeOK
  <2> QED
    BY <2>1, <2>2, <2>3 DEF IdsAreFresh
<1>6. CASE UNCHANGED <<journey, usedIds, requests>>
  BY <1>6 DEF IdsAreFresh
<1>7. ASSUME CycleStep \/ CycleFails \/ \E j \in Ids : Age(j)
      PROVE  CycleCommits \/ UNCHANGED <<journey, usedIds, requests>>
  BY <1>7 DEF CycleStep, CycleBegins, Abandon, PassOver, Arrive, Remind, CycleFails, Age, database
<1> QED
  BY <1>1, <1>2, <1>3, <1>4, <1>5, <1>6, <1>7 DEF Next, RequestStep, vars, database

LEMMA ReadsStep == ASSUME IInv, [Next]_vars PROVE ReadsExist'
<1> USE DEF IInv
<1> DEFINE Good(q) == /\ q.op \in Ended => q.id \in Ids /\ journey'[q.id].status # "none"
                      /\ q.op \in {"starting", "flushed"} /\ q.old # 0 => journey'[q.old].status # "none"
<1>0. \A j \in Ids : journey[j].status # "none" => journey'[j].status # "none"
  BY RowsLive
<1>1. \A q \in Requests : Good(requests[q])
  <2> SUFFICES ASSUME NEW q \in Requests PROVE Good(requests[q])
    OBVIOUS
  <2>1. requests[q].old # 0 => requests[q].old \in Ids
    BY DEF TypeOK, Ids
  <2> QED
    BY <1>0, <2>1 DEF ReadsExist
<1>2. \A q \in Requests : Good(requests'[q])
  <2>1. ASSUME NEW r \in Requests, StartRead(r), NEW q \in Requests PROVE Good(requests'[q])
    <3>1. PICK j \in IF Active = {} THEN {0} ELSE Active :
            requests' = [requests EXCEPT ![r] = Request("starting", 0, j)]
      BY <2>1 DEF StartRead
    <3>2. j # 0 => j \in Ids /\ journey[j].status # "none"
      BY <3>1 DEF Active
    <3>3. Good(Request("starting", 0, j))
      BY <1>0, <3>2 DEF Request, Ended
    <3> QED
      BY <1>1, <3>1, <3>3 DEF TypeOK
  <2>2. ASSUME NEW r \in Requests, NEW j \in Active, NEW s \in {"completed", "abandoned"},
               FinishRead(r, j, s), NEW q \in Requests
        PROVE  Good(requests'[q])
    <3>1. j \in Ids /\ journey[j].status # "none"
      BY DEF Active
    <3>2. Good(Request(s, j, 0))
      BY <1>0, <3>1 DEF Request, Ended
    <3> QED
      BY <1>1, <2>2, <3>2 DEF FinishRead, TypeOK
  <2>3. ASSUME NEW r \in Requests, RequestFails(r) \/ FinishCommit(r), NEW q \in Requests
        PROVE  Good(requests'[q])
    <3>1. Good(Idle)
      BY DEF Idle, Request, Ended
    <3> QED
      BY <1>1, <2>3, <3>1 DEF RequestFails, FinishCommit, TypeOK
  <2>4. ASSUME NEW r \in Requests, StartFlush(r), NEW q \in Requests PROVE Good(requests'[q])
    <3>1. requests[r].op = "starting" /\ requests'[q].old = requests[q].old
      BY <2>4 DEF StartFlush, TypeOK
    <3>2. requests'[q].op = IF q = r THEN "flushed" ELSE requests[q].op
      BY <2>4 DEF StartFlush, TypeOK
    <3>3. q # r => requests'[q].id = requests[q].id
      BY <2>4 DEF StartFlush, TypeOK
    <3> QED
      BY <1>1, <3>1, <3>2, <3>3 DEF Ended
  <2>5. ASSUME NEW r \in Requests, StartCommit(r), NEW q \in Requests PROVE Good(requests'[q])
    <3>1. CASE q = r
      BY <2>5, <3>1 DEF StartCommit, Idle, Request, Ended
    <3>2. CASE q # r
      <4>1. /\ requests'[q].op = requests[q].op /\ requests'[q].id = requests[q].id
            /\ requests'[q].old = requests[q].old
        BY <2>5, <3>2 DEF StartCommit, TypeOK
      <4> QED
        BY <1>1, <4>1
    <3> QED
      BY <3>1, <3>2
  <2>6. CASE UNCHANGED requests
    BY <1>1, <2>6
  <2>7. ASSUME CycleStep \/ CycleFails \/ \E j \in Ids : Age(j) PROVE UNCHANGED requests
    BY <2>7 DEF CycleStep, CycleBegins, CycleCommits, Abandon, PassOver, Arrive, Remind, CycleFails, Age
  <2> QED
    BY <2>1, <2>2, <2>3, <2>4, <2>5, <2>6, <2>7 DEF Next, RequestStep, vars
<1>3. \A j \in DOMAIN cycle'.rows : journey'[j].status # "none"
  <2>1. DOMAIN cycle'.rows \subseteq DOMAIN cycle.rows \cup Active
    <3>1. ASSUME NEW j \in cycle.todo, \/ Abandon(j) \/ PassOver(j)
                                       \/ \E s \in {"completed", "missed"} : Arrive(j, s)
                                       \/ \E k \in Reminders : Remind(j, k)
          PROVE  DOMAIN cycle'.rows = DOMAIN cycle.rows
      BY <3>1, AbandonEffect, PassOverEffect, ArriveEffect, RemindEffect
    <3>2. ASSUME CycleCommits \/ CycleFails PROVE DOMAIN cycle'.rows = {}
      BY <3>2, IdleEffect DEF CycleCommits, CycleFails
    <3>3. ASSUME CycleBegins PROVE DOMAIN cycle'.rows = Active
      BY <3>3, BeginEffect
    <3>4. ASSUME ~CycleStep, ~CycleFails PROVE UNCHANGED cycle
      BY <3>4 DEF Next, Age, StartRead, RequestStep, StartFlush, StartCommit, FinishCommit,
        RequestFails, FinishRead, vars
    <3> QED
      BY <3>1, <3>2, <3>3, <3>4 DEF CycleStep
  <2>2. \A j \in DOMAIN cycle.rows \cup Active : j \in Ids /\ journey[j].status # "none"
    BY TransactionFields DEF ReadsExist, Active
  <2> QED
    BY <1>0, <2>1, <2>2
<1> QED
  BY <1>2, <1>3 DEF ReadsExist

-----------------------------------------------------------------------------
(***************************************************************************)
(* The cycle's bookkeeping.  A step that is neither its beginning, nor its *)
(* commit, nor an evaluation leaves it alone or throws it away.            *)
(***************************************************************************)
Evaluation(j) ==
  \/ Abandon(j) \/ PassOver(j)
  \/ \E status \in {"completed", "missed"} : Arrive(j, status)
  \/ \E kind \in Reminders : Remind(j, kind)

LEMMA OtherSteps ==
  ASSUME IInv, [Next]_vars, ~CycleStep
  PROVE  /\ \A j \in Ids : journey[j].status # "none" => journey'[j].payload = journey[j].payload
         /\ notifications' = notifications
         /\ cycle' = cycle \/ cycle' = IdleCycle
<1> USE DEF IInv
<1>1. \A j \in Ids : journey[j].status # "none" => journey'[j].payload = journey[j].payload
  <2>1. ASSUME NEW r \in Requests, StartCommit(r), NEW j \in Ids, journey[j].status # "none"
        PROVE  journey'[j].payload = journey[j].payload
    <3>1. j # requests[r].id
      BY <2>1 DEF StartCommit, IdsAreFresh
    <3> QED
      BY <2>1, <3>1, StartCommitRows
  <2>2. ASSUME NEW r \in Requests, FinishCommit(r), NEW j \in Ids
        PROVE  journey'[j].payload = journey[j].payload
    BY <2>2, FinishCommitRows
  <2>3. \/ UNCHANGED journey \/ \E r \in Requests : StartCommit(r) \/ FinishCommit(r)
    BY DEF Next, CycleFails, Age, StartRead, RequestStep, StartFlush, RequestFails, FinishRead,
      vars, database
  <2> QED
    BY <2>1, <2>2, <2>3
<1> QED
  BY <1>1 DEF Next, CycleFails, Age, StartRead, RequestStep, StartFlush, StartCommit, FinishCommit,
    RequestFails, FinishRead, vars, database

LEMMA EvaluationKeeps ==
  ASSUME NEW j \in cycle.todo, Evaluation(j)
  PROVE  UNCHANGED <<journey, notifications>>
BY DEF Evaluation, Abandon, PassOver, Arrive, Remind, database

LEMMA RowsStep == ASSUME IInv, [Next]_vars PROVE RowsAreCurrent'
<1> USE DEF IInv
<1>0. DOMAIN cycle.rows \subseteq Ids /\ cycle.todo \subseteq DOMAIN cycle.rows
      /\ cycle.ended \cup cycle.noted \subseteq DOMAIN cycle.rows \ cycle.todo
  BY TransactionFields
<1>1. CASE ~CycleStep
  <2>1. CASE cycle' = cycle
    BY <1>0, <1>1, <2>1, OtherSteps DEF RowsAreCurrent, ReadsExist
  <2>2. CASE cycle' = IdleCycle
    BY <2>2, IdleEffect DEF RowsAreCurrent
  <2> QED
    BY <1>1, <2>1, <2>2, OtherSteps
<1>2. CASE CycleBegins
  BY <1>2, BeginEffect DEF CycleBegins, RowsAreCurrent, Active, database
<1>3. CASE CycleCommits
  BY <1>3, IdleEffect DEF CycleCommits, RowsAreCurrent
<1>4. ASSUME NEW j \in cycle.todo, Abandon(j) PROVE RowsAreCurrent'
  BY <1>0, <1>4, AbandonEffect, EvaluationKeeps DEF Evaluation, RowsAreCurrent, Ended
<1>5. ASSUME NEW j \in cycle.todo, PassOver(j) PROVE RowsAreCurrent'
  BY <1>0, <1>5, PassOverEffect, EvaluationKeeps DEF Evaluation, RowsAreCurrent
<1>6. ASSUME NEW j \in cycle.todo, NEW s \in {"completed", "missed"}, Arrive(j, s) PROVE RowsAreCurrent'
  BY <1>0, <1>6, ArriveEffect, EvaluationKeeps DEF Evaluation, RowsAreCurrent, Ended
<1>7. ASSUME NEW j \in cycle.todo, NEW k \in Reminders, Remind(j, k) PROVE RowsAreCurrent'
  BY <1>0, <1>7, RemindEffect, EvaluationKeeps DEF Evaluation, RowsAreCurrent
<1> QED
  BY <1>1, <1>2, <1>3, <1>4, <1>5, <1>6, <1>7 DEF CycleStep

LEMMA SentStep == ASSUME IInv, [Next]_vars PROVE SentIsStaged'
<1> USE DEF IInv
<1>0. /\ DOMAIN cycle.rows \subseteq Ids /\ cycle.todo \subseteq DOMAIN cycle.rows
      /\ cycle.ended \cup cycle.noted \subseteq DOMAIN cycle.rows \ cycle.todo
      /\ \A j \in Ids, k \in Kinds : <<j, k>> \in cycle.sent => j \in DOMAIN cycle.rows \ cycle.todo
  BY TransactionFields
<1>1. CASE ~CycleStep
  <2>1. CASE cycle' = cycle
    BY <1>0, <1>1, <2>1, OtherSteps DEF SentIsStaged, ReadsExist
  <2>2. CASE cycle' = IdleCycle
    BY <2>2, IdleEffect DEF SentIsStaged
  <2> QED
    BY <1>1, <2>1, <2>2, OtherSteps
<1>2. CASE CycleBegins
  BY <1>2, BeginEffect DEF SentIsStaged
<1>3. CASE CycleCommits
  BY <1>3, IdleEffect DEF CycleCommits, SentIsStaged
<1>4. ASSUME NEW j \in cycle.todo, Abandon(j) PROVE SentIsStaged'
  BY <1>0, <1>4, AbandonEffect, EvaluationKeeps DEF Evaluation, SentIsStaged
<1>5. ASSUME NEW j \in cycle.todo, PassOver(j) PROVE SentIsStaged'
  BY <1>0, <1>5, PassOverEffect, EvaluationKeeps DEF Evaluation, SentIsStaged
<1>6. ASSUME NEW j \in cycle.todo, NEW s \in {"completed", "missed"}, Arrive(j, s) PROVE SentIsStaged'
  BY <1>0, <1>6, ArriveEffect, EvaluationKeeps, RemindersAssumption DEF Evaluation, SentIsStaged
<1>7. ASSUME NEW j \in cycle.todo, NEW k \in Reminders, Remind(j, k) PROVE SentIsStaged'
  <2>1. k \notin journey[j].payload
    BY <1>7 DEF Remind, Watched, RowsAreCurrent
  <2> QED
    BY <1>0, <1>7, <2>1, RemindEffect, EvaluationKeeps DEF Evaluation, SentIsStaged
<1> QED
  BY <1>1, <1>2, <1>3, <1>4, <1>5, <1>6, <1>7 DEF CycleStep

LEMMA ToldStep == ASSUME IInv, [Next]_vars PROVE ToldIsMarked'
<1> USE DEF IInv
<1>0. /\ \A j \in Ids : /\ journey[j].status # "none" => journey'[j].status # "none"
                        /\ journey[j].status \in Ended => journey'[j].status \in Ended
      /\ DOMAIN cycle.rows \subseteq Ids
      /\ \A j \in Ids, k \in Kinds : <<j, k>> \in cycle.sent => j \in DOMAIN cycle.rows
  BY RowsLive, TransactionFields
<1>1. ASSUME notifications' = notifications, DOMAIN cycle'.rows \subseteq DOMAIN cycle.rows \cup Active,
             \A j \in Ids : journey[j].status # "none" => journey'[j].payload = journey[j].payload
      PROVE  ToldIsMarked'
  BY <1>0, <1>1 DEF ToldIsMarked, Told, Active, Ended
<1>2. CASE ~CycleStep
  <2>1. DOMAIN cycle'.rows \subseteq DOMAIN cycle.rows
    BY <1>2, OtherSteps, IdleEffect
  <2> QED
    BY <1>1, <1>2, <2>1, OtherSteps
<1>3. CASE CycleBegins
  <2>1. UNCHANGED <<journey, notifications>>
    BY <1>3 DEF CycleBegins, database
  <2> QED
    BY <1>1, <1>3, <2>1, BeginEffect
<1>4. ASSUME NEW j \in cycle.todo, Evaluation(j) PROVE ToldIsMarked'
  <2>1. DOMAIN cycle'.rows = DOMAIN cycle.rows
    BY <1>4, AbandonEffect, PassOverEffect, ArriveEffect, RemindEffect DEF Evaluation
  <2> QED
    BY <1>1, <1>4, <2>1, EvaluationKeeps
<1>5. CASE CycleCommits
  <2>1. /\ notifications' = notifications \cup cycle.sent
        /\ DOMAIN cycle'.rows = {}
    BY <1>5, IdleEffect DEF CycleCommits
  <2>2. ASSUME NEW j \in Ids, NEW k \in Reminders, <<j, k>> \in notifications'
        PROVE  journey'[j].status # "none" /\ k \in journey'[j].payload
    <3>1. CASE <<j, k>> \in notifications
      BY <1>0, <1>5, <3>1, CommitRows DEF ToldIsMarked, RowsAreCurrent
    <3>2. CASE <<j, k>> \in cycle.sent
      BY <1>0, <1>5, <3>2, CommitRows DEF SentIsStaged, Kinds, ReadsExist
    <3> QED
      BY <2>1, <2>2, <3>1, <3>2
  <2>3. ASSUME NEW j \in Ids, NEW k \in {"completed", "missed"}, <<j, k>> \in cycle.sent
        PROVE  cycle.rows[j].status = k /\ journey'[j].status = k /\ ~Told(j)
    <3>1. j \in cycle.ended /\ cycle.rows[j].status = k
      BY <2>3, RemindersAssumption DEF SentIsStaged, Kinds
    <3>2. j \in DOMAIN cycle.rows
      BY <1>0, <2>3 DEF Kinds
    <3> QED
      BY <1>5, <3>1, <3>2, CommitRows DEF ToldIsMarked
  <2> QED
    BY <1>0, <2>1, <2>2, <2>3 DEF ToldIsMarked, Told, Ended
<1> QED
  BY <1>2, <1>3, <1>4, <1>5 DEF CycleStep, Evaluation

-----------------------------------------------------------------------------
(***************************************************************************)
(* The theorems.                                                           *)
(***************************************************************************)
LEMMA InitInv == Init => IInv
<1> SUFFICES ASSUME Init PROVE IInv
  OBVIOUS
<1>1. NoRow \in Row /\ NoRow.status = "none"
  BY DEF NoRow, Row
<1>2. Idle \in [op : {"idle", "starting", "flushed"} \cup Ended,
                id : 0..MaxJourneys, old : 0..MaxJourneys, raced : BOOLEAN]
      /\ Idle.op = "idle"
  BY JourneyBounds DEF Idle, Request
<1>3. TypeOK
  BY <1>1, <1>2, IdleEffect, JourneyBounds DEF Init, TypeOK
<1>4. IdsAreFresh /\ ReadsExist
  BY <1>1, <1>2, IdleEffect DEF Init, IdsAreFresh, ReadsExist, Ended
<1>5. RowsAreCurrent /\ SentIsStaged /\ ToldIsMarked
  BY IdleEffect DEF Init, RowsAreCurrent, SentIsStaged, ToldIsMarked, Told
<1> QED
  BY <1>3, <1>4, <1>5 DEF IInv

\* The strengthening holds in every reachable state.
THEOREM Invariance == Spec => []IInv
<1>1. Init => IInv
  BY InitInv
<1>2. IInv /\ [Next]_vars => IInv'
  BY TypeStep, FreshStep, ReadsStep, RowsStep, SentStep, ToldStep DEF IInv
<1> QED
  BY <1>1, <1>2, PTL DEF Spec

\* The rows, the requests and the engine's transaction keep their types.
THEOREM TypeCorrect == Spec => []TypeOK
<1>1. IInv => TypeOK
  BY DEF IInv
<1> QED
  BY <1>1, Invariance, PTL

\* A committed notification is not delivered again, and no journey is told
\* both completed and missed.
THEOREM ToldOnce == Spec => []NotifiedOnce
<1>1. IInv => NotifiedOnce
  <2> SUFFICES ASSUME IInv PROVE NotifiedOnce
    OBVIOUS
  <2> USE DEF IInv
  <2>0. /\ cycle.sent \subseteq Ids \X Kinds
        /\ \A j \in Ids, k \in Kinds : <<j, k>> \in cycle.sent => j \in DOMAIN cycle.rows
    BY TransactionFields
  <2>1. \A j \in Ids, k \in Kinds : <<j, k>> \in cycle.sent => <<j, k>> \notin notifications
    BY <2>0 DEF SentIsStaged, ToldIsMarked, Told, Kinds
  <2>2. \A j \in Ids, k \in {"completed", "missed"} : <<j, k>> \in cycle.sent =>
          cycle.rows[j].status = k /\ ~Told(j)
    BY <2>0, RemindersAssumption DEF SentIsStaged, ToldIsMarked, Kinds
  <2>3. cycle.sent \cap notifications = {}
    BY <2>0, <2>1
  <2>4. \A j \in Ids : <<j, "completed">> \notin notifications \cup cycle.sent
                       \/ <<j, "missed">> \notin notifications \cup cycle.sent
    BY <2>2 DEF ToldIsMarked, Told
  <2> QED
    BY <2>3, <2>4 DEF NotifiedOnce
<1> QED
  BY <1>1, Invariance, PTL

\* Whatever a transaction read, it never reactivates an ended journey.
THEOREM EndedForGood == Spec => EndedStaysEnded
<1>1. IInv /\ [Next]_vars => [\A j \in Ids : journey[j].status \in Ended => journey'[j].status \in Ended]_vars
  BY RowsLive
<1> QED
  BY <1>1, Invariance, PTL DEF Spec, EndedStaysEnded

-----------------------------------------------------------------------------
(***************************************************************************)
(* The event log.                                                          *)
(***************************************************************************)
EventsInv ==
  /\ EventsExplainStatus
  /\ \A j \in Ids : journey[j].status = "none" => events[j] = {}

\* What the log owes one journey, given its status and its events.
Explained(status, log) ==
  /\ status = "none" => log = {}
  /\ status # "none" => "started" \in log
  /\ status = "active" => log = {"started"}
  /\ status \in Ended => log \cap ({status} \cup IF status = "abandoned" THEN {"superseded"} ELSE {}) # {}

LEMMA EventsInvMeans ==
  TypeOK => (EventsInv <=> \A j \in Ids : Explained(journey[j].status, events[j]))
BY DEF TypeOK, EventsInv, EventsExplainStatus, Explained, Row

LEMMA EventsStep == ASSUME IInv, EventsInv, [Next]_vars PROVE EventsInv'
<1> USE DEF IInv
<1>0. \A j \in Ids : Explained(journey[j].status, events[j])
  BY EventsInvMeans
<1>t. TypeOK'
  BY TypeStep
<1>1. SUFFICES \A j \in Ids : Explained(journey'[j].status, events'[j])
  BY <1>t DEF TypeOK, EventsInv, EventsExplainStatus, Explained, Row
<1>2. ASSUME NEW r \in Requests, StartCommit(r), NEW j \in Ids
      PROVE  Explained(journey'[j].status, events'[j])
  <2>1. /\ requests[r].id \in Ids /\ journey[requests[r].id].status = "none"
        /\ requests[r].old # requests[r].id
    BY <1>2 DEF StartCommit, IdsAreFresh, ReadsExist, TypeOK, Ids
  <2>2. events'[j] = events[j] \cup {e \in {"superseded"} : j = requests[r].old}
                               \cup {e \in {"started"} : j = requests[r].id}
    BY <1>2 DEF StartCommit
  <2>3. CASE j = requests[r].id
    <3>1. journey'[j].status = "active" /\ events'[j] = {"started"}
      BY <1>0, <1>2, <2>1, <2>2, <2>3, StartCommitRows DEF Explained
    <3> QED
      BY <3>1 DEF Explained, Ended
  <2>4. CASE j = requests[r].old
    <3>1. journey'[j].status = "abandoned" /\ "superseded" \in events'[j]
      BY <1>2, <2>1, <2>2, <2>4, StartCommitRows
    <3>2. "started" \in events'[j]
      BY <1>0, <1>2, <2>1, <2>2, <2>4 DEF Explained, StartCommit, ReadsExist, TypeOK, Ids
    <3> QED
      BY <3>1, <3>2 DEF Explained, Ended
  <2>5. CASE j # requests[r].id /\ j # requests[r].old
    BY <1>0, <1>2, <2>2, <2>5, StartCommitRows
  <2> QED
    BY <2>3, <2>4, <2>5
<1>3. ASSUME NEW r \in Requests, FinishCommit(r), NEW j \in Ids
      PROVE  Explained(journey'[j].status, events'[j])
  <2>1. /\ requests[r].op \in Ended /\ requests[r].id \in Ids
        /\ journey[requests[r].id].status # "none"
    BY <1>3 DEF FinishCommit, ReadsExist
  <2>2. events'[j] = IF j = requests[r].id THEN events[j] \cup {requests[r].op} ELSE events[j]
    BY <1>3 DEF FinishCommit, TypeOK
  <2> QED
    BY <1>0, <1>3, <2>1, <2>2, FinishCommitRows DEF Explained, Ended
<1>4. ASSUME CycleCommits, NEW j \in Ids PROVE Explained(journey'[j].status, events'[j])
  <2>1. events'[j] = events[j] \cup {cycle.rows[k].status : k \in cycle.ended \cap {j}}
    BY <1>4 DEF CycleCommits
  <2>2. CASE j \in cycle.ended
    <3>1. /\ journey'[j].status = cycle.rows[j].status /\ cycle.rows[j].status \in Ended
          /\ cycle.rows[j].status \in events'[j]
      BY <1>4, <2>1, <2>2, CommitRows DEF RowsAreCurrent
    <3>2. "started" \in events'[j]
      BY <1>0, <2>1, <2>2, TransactionFields DEF Explained, ReadsExist
    <3> QED
      BY <3>1, <3>2 DEF Explained, Ended
  <2>3. CASE j \notin cycle.ended
    <3>1. {cycle.rows[k].status : k \in cycle.ended \cap {j}} = {}
      BY <2>3
    <3>2. events'[j] = events[j]
      BY <2>1, <3>1
    <3> QED
      BY <1>0, <1>4, <2>3, <3>2, CommitRows
  <2> QED
    BY <2>2, <2>3
<1>5. CASE UNCHANGED <<journey, events>>
  BY <1>0, <1>5
<1>6. \/ UNCHANGED <<journey, events>> \/ CycleCommits
      \/ \E r \in Requests : StartCommit(r) \/ FinishCommit(r)
  BY DEF Next, CycleStep, CycleBegins, Abandon, PassOver, Arrive, Remind, CycleFails, Age,
    StartRead, RequestStep, StartFlush, RequestFails, FinishRead, vars, database
<1> QED
  BY <1>2, <1>3, <1>4, <1>5, <1>6

\* The event log accounts for every journey's status, also when two
\* transactions ended the journey one over the other.
THEOREM LogAccounts == Spec => []EventsExplainStatus
<1>1. Init => EventsInv
  BY DEF Init, EventsInv, EventsExplainStatus, NoRow, Ended
<1>2. IInv /\ EventsInv /\ [Next]_vars => EventsInv'
  BY EventsStep
<1>3. EventsInv => EventsExplainStatus
  BY DEF EventsInv
<1> QED
  BY <1>1, <1>2, <1>3, Invariance, PTL DEF Spec

-----------------------------------------------------------------------------
(***************************************************************************)
(* How many journeys are active.                                           *)
(***************************************************************************)

\* The journeys that a start would leave active, if it has missed no other start,
\* are those that races account for.
RacesInv ==
  /\ ActivesComeFromRaces
  /\ \A r \in Requests :
       requests[r].op \in {"starting", "flushed"} /\ ~requests[r].raced
         => Cardinality(Active \ {requests[r].old}) <= races

LEMMA ActiveIsFinite ==
  /\ IsFiniteSet(Active)
  /\ \A S \in SUBSET Ids : /\ IsFiniteSet(S) /\ Cardinality(S) \in Nat
                           /\ \A T \in SUBSET S : Cardinality(T) <= Cardinality(S)
<1>1. IsFiniteSet(Ids)
  BY FS_Interval, JourneyBounds DEF Ids
<1>2. \A S \in SUBSET Ids : IsFiniteSet(S)
  BY <1>1, FS_Subset
<1>3. \A S \in SUBSET Ids : Cardinality(S) \in Nat
  BY <1>2, FS_CardinalityType
<1>4. \A S \in SUBSET Ids : \A T \in SUBSET S : Cardinality(T) <= Cardinality(S)
  BY <1>2, FS_Subset
<1> QED
  BY <1>2, <1>3, <1>4 DEF Active

\* Only the commit of a start makes a journey active.
LEMMA ActiveShrinks ==
  ASSUME IInv, [Next]_vars, ~ \E r \in Requests : StartCommit(r)
  PROVE  Active' \subseteq Active /\ races' = races
<1>1. TypeOK /\ RowsAreCurrent
  BY DEF IInv
<1>2. \/ UNCHANGED <<journey, races>> \/ CycleCommits \/ \E r \in Requests : FinishCommit(r)
  BY DEF Next, CycleStep, CycleBegins, Abandon, PassOver, Arrive, Remind, CycleFails, Age,
    StartRead, RequestStep, StartFlush, RequestFails, FinishRead, vars, database
<1>3. CASE UNCHANGED <<journey, races>>
  BY <1>3 DEF Active
<1>4. CASE CycleCommits
  <2>1. \A j \in Ids : journey'[j].status = "active" => journey[j].status = "active"
    BY <1>1, <1>4, CommitRows DEF RowsAreCurrent, Ended
  <2> QED
    BY <1>4, <2>1 DEF Active, CycleCommits
<1>5. ASSUME NEW r \in Requests, FinishCommit(r) PROVE Active' \subseteq Active /\ races' = races
  <2>1. requests[r].op \in Ended
    BY <1>5 DEF FinishCommit
  <2>2. \A j \in Ids : journey'[j].status = "active" => journey[j].status = "active"
    BY <1>1, <1>5, <2>1, FinishCommitRows DEF Ended
  <2> QED
    BY <1>5, <2>2 DEF Active, FinishCommit
<1> QED
  BY <1>2, <1>3, <1>4, <1>5

\* A start that is open was open before, and read the same journey, or reads now.
LEMMA OpenStarts ==
  ASSUME IInv, [Next]_vars, ~ \E q \in Requests : StartCommit(q), NEW r \in Requests,
         requests'[r].op \in {"starting", "flushed"}, ~requests'[r].raced
  PROVE  \/ /\ requests[r].op \in {"starting", "flushed"} /\ ~requests[r].raced
            /\ requests'[r].old = requests[r].old
         \/ /\ UNCHANGED journey
            /\ requests'[r].old \in IF Active = {} THEN {0} ELSE Active
<1>1. TypeOK /\ requests \in [Requests ->
       [op : {"idle", "starting", "flushed"} \cup Ended,
        id : 0..MaxJourneys, old : 0..MaxJourneys, raced : BOOLEAN]]
  BY DEF IInv, TypeOK
<1>2. /\ Idle.op = "idle"
      /\ \A op, id, old : /\ Request(op, id, old).op = op /\ Request(op, id, old).old = old
                          /\ Request(op, id, old).raced = FALSE
  BY DEF Idle, Request
<1>3. CASE UNCHANGED requests
  BY <1>3
<1>4. ASSUME NEW q \in Requests, StartRead(q) PROVE
        \/ requests'[r] = requests[r]
        \/ UNCHANGED journey /\ requests'[r].old \in IF Active = {} THEN {0} ELSE Active
  <2>1. PICK j \in IF Active = {} THEN {0} ELSE Active :
          requests' = [requests EXCEPT ![q] = Request("starting", 0, j)]
    BY <1>4 DEF StartRead
  <2> QED
    BY <1>1, <1>2, <1>4, <2>1 DEF StartRead, database
<1>5. ASSUME NEW q \in Requests, StartFlush(q) PROVE
        /\ requests[r].op \in {"starting", "flushed"} /\ requests'[r].raced = requests[r].raced
        /\ requests'[r].old = requests[r].old
  BY <1>1, <1>5 DEF StartFlush
<1>6. ASSUME NEW q \in Requests, FinishCommit(q) \/ RequestFails(q) PROVE requests'[r] = requests[r]
  BY <1>1, <1>2, <1>6 DEF FinishCommit, RequestFails
<1>7. ASSUME NEW q \in Requests, NEW j \in Active, NEW status \in {"completed", "abandoned"},
             FinishRead(q, j, status)
      PROVE  requests'[r] = requests[r]
  BY <1>1, <1>2, <1>7 DEF FinishRead
<1>8. \/ UNCHANGED requests
      \/ \E q \in Requests : \/ StartRead(q) \/ StartFlush(q) \/ FinishCommit(q) \/ RequestFails(q)
                             \/ \E j \in Active, status \in {"completed", "abandoned"} :
                                  FinishRead(q, j, status)
  BY DEF Next, CycleStep, CycleBegins, CycleCommits, Abandon, PassOver, Arrive, Remind,
    CycleFails, Age, RequestStep, vars
<1> QED
  BY <1>3, <1>4, <1>5, <1>6, <1>7, <1>8

LEMMA RacesStep == ASSUME IInv, RacesInv, [Next]_vars PROVE RacesInv'
<1>1. TypeOK /\ races \in Nat /\ Active \in SUBSET Ids
  BY DEF IInv, TypeOK, Active
<1>2. Cardinality(Active) \in Nat /\ Cardinality(Active) <= 1 + races
  BY <1>1, ActiveIsFinite DEF RacesInv, ActivesComeFromRaces
<1>3. ASSUME NEW r \in Requests, StartCommit(r) PROVE RacesInv'
  <2> DEFINE id == requests[r].id
             rest == Active \ {requests[r].old}
  <2>1. id \in Ids /\ Active' = rest \cup {id}
    <3>1. /\ id \in Ids /\ journey[id].status = "none" /\ requests[r].old # id
      BY <1>3 DEF IInv, StartCommit, IdsAreFresh, ReadsExist, TypeOK, Ids
    <3>2. \A j \in Ids : journey'[j].status = "active" <=> j \in rest \/ j = id
      BY <1>1, <1>3, <3>1, StartCommitRows DEF Active
    <3> QED
      BY <3>1, <3>2 DEF Active
  <2>2. requests[r].op = "flushed" /\ requests[r].raced \in BOOLEAN
        /\ races' = races + IF requests[r].raced THEN 1 ELSE 0
    BY <1>1, <1>3 DEF StartCommit, TypeOK
  <2>3. Cardinality(rest) \in Nat /\ Cardinality(rest) <= races'
    <3>1. /\ rest \in SUBSET Ids /\ rest \in SUBSET Active
      BY <1>1
    <3>2. Cardinality(rest) \in Nat /\ Cardinality(rest) <= Cardinality(Active)
      BY <1>1, <3>1, ActiveIsFinite
    <3>3. CASE requests[r].raced
      BY <1>1, <1>2, <2>2, <3>2, <3>3
    <3>4. CASE ~requests[r].raced
      <4>1. Cardinality(rest) <= races
        BY <2>2, <3>4 DEF RacesInv
      <4> QED
        BY <1>1, <2>2, <3>2, <3>4, <4>1
    <3> QED
      BY <2>2, <3>3, <3>4
  <2>4. Cardinality(Active') <= 1 + races'
    <3>1. IsFiniteSet(rest)
      BY <1>1, ActiveIsFinite
    <3> HIDE DEF rest
    <3>2. Cardinality(rest \cup {id}) = IF id \in rest THEN Cardinality(rest)
                                                      ELSE Cardinality(rest) + 1
      BY <3>1, FS_AddElement
    <3>3. races' \in Nat
      BY <1>1, <2>2
    <3> QED
      BY <2>1, <2>3, <3>2, <3>3
  <2>5. ASSUME NEW q \in Requests, requests'[q].op \in {"starting", "flushed"}
        PROVE  requests'[q].raced
    <3>1. requests'[q] = IF q = r THEN Idle
             ELSE IF requests[q].op \in {"starting", "flushed"}
                  THEN [requests[q] EXCEPT !.raced = TRUE] ELSE requests[q]
      BY <1>3 DEF StartCommit
    <3>2. Idle.op = "idle"
      BY DEF Idle, Request
    <3> QED
      BY <1>1, <2>5, <3>1, <3>2 DEF TypeOK
  <2> QED
    BY <2>4, <2>5 DEF RacesInv, ActivesComeFromRaces
<1>4. ASSUME ~ \E r \in Requests : StartCommit(r) PROVE RacesInv'
  <2>1. Active' \in SUBSET Active /\ races' = races
    BY <1>4, ActiveShrinks
  <2>2. Cardinality(Active') \in Nat /\ Cardinality(Active') <= Cardinality(Active)
    BY <1>1, <2>1, ActiveIsFinite
  <2>3. Cardinality(Active') <= 1 + races'
    BY <1>1, <1>2, <2>1, <2>2
  <2>4. ASSUME NEW r \in Requests, requests'[r].op \in {"starting", "flushed"},
               ~requests'[r].raced
        PROVE  Cardinality(Active' \ {requests'[r].old}) <= races'
    <3> DEFINE old == requests'[r].old
    <3>1. CASE /\ requests[r].op \in {"starting", "flushed"} /\ ~requests[r].raced
               /\ old = requests[r].old
      <4>1. Active' \ {old} \in SUBSET (Active \ {old}) /\ Active \ {old} \in SUBSET Ids
        BY <1>1, <2>1
      <4>2. Cardinality(Active \ {old}) <= races
        BY <3>1 DEF RacesInv
      <4> HIDE DEF old
      <4>3. /\ Cardinality(Active \ {old}) \in Nat /\ Cardinality(Active' \ {old}) \in Nat
            /\ Cardinality(Active' \ {old}) <= Cardinality(Active \ {old})
        BY <1>1, <4>1, ActiveIsFinite
      <4> QED
        BY <1>1, <2>1, <4>2, <4>3 DEF old
    <3>2. CASE UNCHANGED journey /\ old \in IF Active = {} THEN {0} ELSE Active
      <4>1. Active' = Active /\ IsFiniteSet(Active)
        BY <3>2, ActiveIsFinite DEF Active
      <4>2. CASE Active = {}
        <5>1. Active \ {old} = {} /\ Cardinality({}) = 0
          BY <4>2, FS_EmptySet
        <5> QED
          BY <1>1, <2>1, <4>1, <5>1
      <4>3. CASE Active # {}
        <5> HIDE DEF old
        <5>1. old \in Active
          BY <3>2, <4>3
        <5>2. Cardinality(Active \ {old}) = Cardinality(Active) - 1
          BY <4>1, <5>1, FS_RemoveElement
        <5> QED
          BY <1>1, <1>2, <2>1, <4>1, <5>2 DEF old
      <4> QED
        BY <4>2, <4>3
    <3> QED
      BY <1>4, <2>4, <3>1, <3>2, OpenStarts
  <2> QED
    BY <2>3, <2>4 DEF RacesInv, ActivesComeFromRaces
<1> QED
  BY <1>3, <1>4

\* There are never more active journeys than one and the starts that raced with
\* another one, whatever the engine, completions and failures do in between.
THEOREM RacesAccount == Spec => []ActivesComeFromRaces
<1>1. Init => RacesInv
  <2> SUFFICES ASSUME Init PROVE RacesInv
    OBVIOUS
  <2>1. Active = {} /\ races = 0 /\ \A r \in Requests : requests[r].op = "idle"
    BY DEF Init, Active, NoRow, Idle, Request
  <2> QED
    BY <2>1, FS_EmptySet DEF RacesInv, ActivesComeFromRaces
<1>2. IInv /\ RacesInv /\ [Next]_vars => RacesInv'
  BY RacesStep
<1>3. RacesInv => ActivesComeFromRaces
  BY DEF RacesInv
<1> QED
  BY <1>1, <1>2, <1>3, Invariance, PTL DEF Spec

=============================================================================
