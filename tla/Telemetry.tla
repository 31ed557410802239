------------------------------ MODULE Telemetry ------------------------------
(***************************************************************************)
(* What the server records and for how long: usage events, uploaded in     *)
(* batches, and the positions of the trains.  Both tables only grow, and   *)
(* jobs of the worker delete what was received too long ago.               *)
(*                                                                         *)
(* A log is a sequence of requests and jobs in the order of their time at: *)
(* uploads of a batch of [type, claimed], polls that find a fleet, and the *)
(* jobs.  A position is [time, place], its time the vehicle's own.         *)
(***************************************************************************)
EXTENDS Integers, Sequences, FiniteSets, SequencesExt, FiniteSetsExt

CONSTANTS MaxBatch,   \* events in one upload
          Blank,      \* a type that is empty when stripped
          Retention   \* for how long rows are kept, from their receipt on

Expired(row, now) == row.received < now - Retention

\* ingest: all of a batch or nothing; an event that claims no time has now.
Ingest(rows, batch, now) ==
  IF batch = <<>> \/ Len(batch) > MaxBatch \/ \E k \in DOMAIN batch : batch[k].type = Blank THEN rows
  ELSE rows \o [k \in DOMAIN batch |->
                  [type |-> batch[k].type, received |-> now,
                   occurred |-> IF batch[k].claimed = {} THEN now ELSE Min(batch[k].claimed)]]

\* Slip: what happened too long ago is deleted.
PurgeClaimed(rows, now) == SelectSeq(rows, LAMBDA row : row.occurred >= now - Retention)

\* purge_analytics
Purge(rows, now) == SelectSeq(rows, LAMBDA row : ~Expired(row, now))

EventsAfter(log) ==
  FoldLeft(LAMBDA rows, entry : CASE entry.op = "upload" -> Ingest(rows, entry.batch, entry.at)
                                  [] entry.op = "purge" -> Purge(rows, entry.at)
                                  [] OTHER -> rows,
           <<>>, log)

\* counts_by_type: the most frequent first.
Summary(rows, since) ==
  LET counted == SelectSeq(rows, LAMBDA row : row.occurred >= since)
      types == {row.type : row \in ToSet(counted)}
      counts == {<<t, Cardinality({k \in DOMAIN counted : counted[k].type = t})>> : t \in types}
  IN SetToSortSeq(counts, LAMBDA a, b : a[2] > b[2])

(***************************************************************************)
(* An event of a batch that was accepted is counted once in every summary  *)
(* that reaches back to the time it claims, for as long as Retention after *)
(* it was received, however late it was uploaded; of a batch that was      *)
(* refused none is.                                                        *)
(***************************************************************************)
EventsAreCounted(log, since) ==
  LET uploads == {i \in DOMAIN log : log[i].op = "upload"}
      Accepted(i) == Len(log[i].batch) <= MaxBatch /\ \A e \in ToSet(log[i].batch) : e.type # Blank
      Kept(i) == \A j \in DOMAIN log : log[j].op = "purge" /\ j > i => log[j].at <= log[i].at + Retention
      Claims(e, at) == IF e.claimed = {} THEN at ELSE Min(e.claimed)
      Events(t) == {<<i, k>> \in uploads \X (1..MaxBatch) :
                      /\ Accepted(i) /\ Kept(i) /\ k <= Len(log[i].batch)
                      /\ log[i].batch[k].type = t /\ Claims(log[i].batch[k], log[i].at) >= since}
      types == {e.type : e \in UNION {ToSet(log[i].batch) : i \in uploads}}
      shown == Summary(EventsAfter(log), since)
  IN /\ ToSet(shown) = {<<t, Cardinality(Events(t))>> : t \in {u \in types : Events(u) # {}}}
     /\ \A n \in 2..Len(shown) : shown[n][2] <= shown[n - 1][2]

-----------------------------------------------------------------------------
(* Positions                                                               *)

\* add_many: a poll records what differs from the poll before.
Record(history, before, fleet, now) ==
  LET changed == {v \in DOMAIN fleet : v \notin DOMAIN before \/ before[v] # fleet[v]}
  IN history \cup {[vehicle |-> v, position |-> fleet[v], received |-> now] : v \in changed}

\* cleanup_history
CleanupHistory(history, now) == {row \in history : ~Expired(row, now)}

Step(state, entry) ==
  CASE entry.op = "poll" ->
         [fleet |-> entry.fleet, history |-> Record(state.history, state.fleet, entry.fleet, entry.at)]
    [] entry.op = "cleanup" -> [state EXCEPT !.history = CleanupHistory(@, entry.at)]
    [] OTHER -> state

PositionsAfter(log) == FoldLeft(Step, [fleet |-> <<>>, history |-> {}], log)

\* recent_for_vehicle, its first row.
Newest(history, vehicle) ==
  LET rows == {row \in history : row.vehicle = vehicle}
  IN {row.position : row \in {r \in rows : \A q \in rows : q.position.time <= r.position.time}}

(***************************************************************************)
(* The newest record of a train that is in the feed is its position there, *)
(* or it has none, having not changed for Retention; it is another one     *)
(* only if the train's own clock went back.                                *)
(***************************************************************************)
HistoryEndsWhereTrainsAre(log) ==
  \E state \in {PositionsAfter(log)} :
    \A v \in DOMAIN state.fleet :
      LET sightings == {i \in DOMAIN log : log[i].op = "poll" /\ v \in DOMAIN log[i].fleet}
          clockWentOn == \A i, j \in sightings :
                           i < j => \/ log[i].fleet[v] = log[j].fleet[v]
                                    \/ log[i].fleet[v].time < log[j].fleet[v].time
      IN clockWentOn =>
           \/ Newest(state.history, v) = {state.fleet[v]}
           \/ /\ Newest(state.history, v) = {}
              /\ \E j \in DOMAIN log : /\ log[j].op = "cleanup"
                                       /\ \E i \in sightings : log[i].fleet[v] = state.fleet[v] /\ log[i].at + Retention < log[j].at
=============================================================================
