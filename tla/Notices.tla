------------------------------- MODULE Notices -------------------------------
(***************************************************************************)
(* What riders are told besides the trains: service alerts, other riders'  *)
(* reports, and the inbox with its reader on the phone.                    *)
(*                                                                         *)
(* An operator's request writes an alert, sends the frame to all phones,   *)
(* publishes an event, and then commits.  A row of the inbox gets its id   *)
(* when it is flushed and is visible when its transaction commits; the     *)
(* phone reads the newest rows, shows those above the highest id it has    *)
(* seen, and saves the new highest.                                        *)
(***************************************************************************)
EXTENDS Integers, FiniteSets, Sequences, FiniteSetsExt, SequencesExt, TLC

CONSTANTS Writers, PageSize,
          MaxAlerts, MaxAlertTime, MaxRows   \* bounds: alerts written, the clock, rows of the inbox

NoticeBounds == MaxAlerts \in Nat /\ MaxAlertTime \in Nat /\ MaxRows \in Nat /\ PageSize \in Nat

VARIABLES
  alerts,     \* service_alerts, by id
  draft,      \* the request that creates an alert, if any
  frames, events, \* the ids announced to the phones, and on the event stream
  aborted,    \* ids of requests that failed
  alertClock,
  rows,       \* the rider's notifications that are committed, by id
  open,       \* the rows each writer's transaction has flushed, by id
  created,    \* the order in which rows were stamped
  lastId, stamp, \* the id given last, and what each writer is about to flush
  page,       \* what the phone's sync has read and not finished, if any
  lastSeen, shown, \* the highest id the phone has saved, and the ids shown
  overtaken   \* ids that were flushed and not visible when the phone read a higher one

alertVars == <<alerts, draft, frames, events, aborted, alertClock>>
inboxVars == <<rows, open, created, lastId, stamp, page, lastSeen, shown, overtaken>>

AlertRows == [starts : 0..MaxAlertTime, ends : SUBSET (0..MaxAlertTime), route : SUBSET {"red"}, revoked : BOOLEAN]
Ids == 1..MaxRows
Newest(ids) == Max(ids \cup {0})

NoticeTypeOK ==
  /\ DOMAIN alerts \subseteq 1..MaxAlerts /\ \A i \in DOMAIN alerts : alerts[i] \in AlertRows
  /\ draft \subseteq [id : 1..MaxAlerts, row : AlertRows, step : {"flushed", "framed"}]
  /\ frames \cup events \cup aborted \subseteq 1..MaxAlerts
  /\ alertClock \in 0..MaxAlertTime
  /\ rows \subseteq Ids /\ shown \subseteq Ids /\ overtaken \subseteq Ids
  /\ lastId \in 0..MaxRows /\ lastSeen \in 0..MaxRows
  /\ \A w \in Writers : open[w] \subseteq Ids /\ stamp[w] \subseteq Nat
  /\ DOMAIN created \subseteq Ids
  /\ page \subseteq [ids : SUBSET Ids, read : SUBSET Ids]

NoticeInit ==
  /\ alerts = <<>> /\ draft = {} /\ frames = {} /\ events = {} /\ aborted = {} /\ alertClock = 0
  /\ rows = {} /\ open = [w \in Writers |-> {}] /\ created = <<>>
  /\ lastId = 0 /\ stamp = [w \in Writers |-> {}]
  /\ page = {} /\ lastSeen = 0 /\ shown = {} /\ overtaken = {}

-----------------------------------------------------------------------------
(* Service alerts                                                          *)

Written == DOMAIN alerts \cup {d.id : d \in draft} \cup aborted

\* create, up to the flush; an alert without a start starts now.
Create(row) ==
  /\ draft = {} /\ Cardinality(Written) < MaxAlerts
  /\ draft' = {[id |-> Newest(Written) + 1, row |-> row, step |-> "flushed"]}
  /\ UNCHANGED <<alerts, frames, events, aborted, alertClock>>

\* A frame that cannot be sent fails the request, the event does not.
Announce ==
  \E d \in draft :
    /\ d.step = "flushed"
    /\ draft' = {[d EXCEPT !.step = "framed"]}
    /\ frames' = frames \cup {d.id}
    /\ events' \in {events, events \cup {d.id}}
    /\ UNCHANGED <<alerts, aborted, alertClock>>

\* The alerts with a draft among them.
With(d) == [i \in DOMAIN alerts \cup {d.id} |-> IF i = d.id THEN d.row ELSE alerts[i]]

\* Slip: the alert is committed before it is announced.
CommitThenAnnounce ==
  \E d \in draft :
    /\ alerts' = With(d)
    /\ draft' = {}
    /\ UNCHANGED <<frames, events, aborted, alertClock>>

CommitAlert ==
  \E d \in draft :
    /\ d.step = "framed"
    /\ alerts' = With(d)
    /\ draft' = {}
    /\ UNCHANGED <<frames, events, aborted, alertClock>>

AbortAlert ==
  /\ draft # {} /\ draft' = {}
  /\ aborted' = aborted \cup {d.id : d \in draft}
  /\ UNCHANGED <<alerts, frames, events, alertClock>>

Revoke(i) ==
  /\ ~alerts[i].revoked
  /\ alerts' = [alerts EXCEPT ![i].revoked = TRUE]
  /\ UNCHANGED <<draft, frames, events, aborted, alertClock>>

Pass ==
  /\ alertClock < MaxAlertTime /\ alertClock' = alertClock + 1
  /\ UNCHANGED <<alerts, draft, frames, events, aborted>>

\* list_active: in effect, and of the route asked for or of none.
Active(now, asked) ==
  {i \in DOMAIN alerts :
     /\ ~alerts[i].revoked /\ alerts[i].starts <= now /\ \A e \in alerts[i].ends : e > now
     /\ asked = {} \/ alerts[i].route = {} \/ alerts[i].route = asked}

AlertNext ==
  \/ \E starts \in {alertClock, MaxAlertTime}, ends \in {{}, {MaxAlertTime}}, route \in {{}, {"red"}} :
       Create([starts |-> starts, ends |-> ends, route |-> route, revoked |-> FALSE])
  \/ Announce \/ CommitAlert \/ AbortAlert \/ Pass
  \/ \E i \in DOMAIN alerts : Revoke(i)

(***************************************************************************)
(* Nothing is in effect that the phones were not told of, and they were    *)
(* told of nothing that is not written, except of requests that failed     *)
(* after the frame had left; whatever a route's riders are shown, all are. *)
(***************************************************************************)
AlertsAreAnnounced ==
  /\ DOMAIN alerts \cup events \subseteq frames
  /\ frames \subseteq DOMAIN alerts \cup {d.id : d \in draft} \cup aborted
  /\ Active(alertClock, {"red"}) \subseteq Active(alertClock, {})

-----------------------------------------------------------------------------
(* Riders' reports: a sequence of [rider, stop, category, at], by id       *)

NewestReports(reports, since) ==
  SortSeq(SelectSeq([k \in DOMAIN reports |-> <<reports[k], k>>], LAMBDA r : r[1].at >= since),
          LAMBDA r, s : r[1].at > s[1].at \/ (r[1].at = s[1].at /\ r[2] > s[2]))

Topic(r) == <<r[1].stop, r[1].category>>

\* windowed_counted: the newest report of each topic, and how many there are.
WindowedCounted(reports, since) ==
  LET newest == NewestReports(reports, since)
      first == SelectSeq([k \in DOMAIN newest |-> k],
                         LAMBDA k : \A j \in 1..(k - 1) : Topic(newest[j]) # Topic(newest[k]))
  IN [n \in DOMAIN first |->
        [report |-> newest[first[n]],
         count |-> Cardinality({k \in DOMAIN newest : Topic(newest[k]) = Topic(newest[first[n]])})]]

(***************************************************************************)
(* Every report of the window is counted once, under a representative that *)
(* no report of its topic is newer than, and topics come newest first.  The *)
(* count is of reports: at least the number of riders (windowed_counted    *)
(* promises "how many riders").                                            *)
(***************************************************************************)
ReportsAreCounted(reports, since) ==
  \E shownReports \in {WindowedCounted(reports, since)} :
    LET within == {k \in DOMAIN reports : reports[k].at >= since}
        Of(entry) == {k \in within : <<reports[k].stop, reports[k].category>> = Topic(entry.report)}
    IN /\ FoldSeq(LAMBDA entry, n : entry.count + n, 0, shownReports) = Cardinality(within)
       /\ \A n \in DOMAIN shownReports :
            /\ \A k \in Of(shownReports[n]) : reports[k].at <= shownReports[n].report[1].at
            /\ shownReports[n].count >= Cardinality({reports[k].rider : k \in Of(shownReports[n])})
            /\ n > 1 => shownReports[n].report[1].at <= shownReports[n - 1].report[1].at

-----------------------------------------------------------------------------
(* The inbox                                                               *)

\* create: the row is stamped, then flushed, which gives it its id.
Stamp(w) ==
  /\ stamp[w] = {} /\ lastId < MaxRows
  /\ stamp' = [stamp EXCEPT ![w] = {1 + Max({0} \cup (UNION {stamp[v] : v \in Writers})
                                              \cup {created[i] : i \in DOMAIN created})}]
  /\ UNCHANGED <<rows, open, created, lastId, page, lastSeen, shown, overtaken>>

Flush(w) ==
  \E s \in stamp[w] :
    /\ lastId < MaxRows /\ lastId' = lastId + 1
    /\ created' = [i \in DOMAIN created \cup {lastId'} |-> IF i = lastId' THEN s ELSE created[i]]
    /\ open' = [open EXCEPT ![w] = @ \cup {lastId'}]
    /\ stamp' = [stamp EXCEPT ![w] = {}]
    /\ UNCHANGED <<rows, page, lastSeen, shown, overtaken>>

CommitRows(w) ==
  /\ open[w] # {} /\ stamp[w] = {}
  /\ rows' = rows \cup open[w]
  /\ open' = [open EXCEPT ![w] = {}]
  /\ UNCHANGED <<created, lastId, stamp, page, lastSeen, shown, overtaken>>

RollBack(w) ==
  /\ open[w] # {}
  /\ open' = [open EXCEPT ![w] = {}] /\ stamp' = [stamp EXCEPT ![w] = {}]
  /\ UNCHANGED <<rows, created, lastId, page, lastSeen, shown, overtaken>>

\* list_for_user: the newest rows, by the time they were stamped.
Later(i, j) == created[i] > created[j] \/ (created[i] = created[j] /\ i > j)
ListForUser == {i \in rows : Cardinality({j \in rows : Later(j, i)}) < PageSize}

\* One sync at a time.
Fetch ==
  /\ page = {}
  /\ page' = {[ids |-> {i \in ListForUser : i > lastSeen}, read |-> ListForUser]}
  /\ overtaken' = overtaken \cup {i \in UNION {open[w] : w \in Writers} : i < Newest(ListForUser)}
  /\ UNCHANGED <<rows, open, created, lastId, stamp, lastSeen, shown>>

\* Oldest first.
Show ==
  \E p \in page :
    /\ p.ids # {}
    /\ LET oldest == CHOOSE i \in p.ids : \A j \in p.ids \ {i} : Later(j, i)
       IN /\ shown' = shown \cup {oldest}
          /\ page' = {[p EXCEPT !.ids = @ \ {oldest}]}
    /\ UNCHANGED <<rows, open, created, lastId, stamp, lastSeen, overtaken>>

\* Slip: the highest id is saved before the rows are shown.
SaveFirst ==
  \E p \in page :
    /\ lastSeen' = Newest(p.read \cup {lastSeen})
    /\ page' = {}
    /\ UNCHANGED <<rows, open, created, lastId, stamp, shown, overtaken>>

\* The highest id read is saved when all are shown.
SaveLastSeen ==
  \E p \in page :
    /\ p.ids = {}
    /\ lastSeen' = Newest(p.read \cup {lastSeen})
    /\ page' = {}
    /\ UNCHANGED <<rows, open, created, lastId, stamp, shown, overtaken>>

\* The request or a display fails, or the app ends: the next sync tries again.
Interrupt ==
  /\ page # {} /\ page' = {}
  /\ UNCHANGED <<rows, open, created, lastId, stamp, lastSeen, shown, overtaken>>

InboxNext ==
  \/ \E w \in Writers : Stamp(w) \/ Flush(w) \/ CommitRows(w) \/ RollBack(w)
  \/ Fetch \/ Show \/ SaveLastSeen \/ Interrupt

(***************************************************************************)
(* A notification the phone has passed without showing it either was not   *)
(* visible when the phone read a higher id, or had a page of newer ones    *)
(* before it; whatever failed, none is passed otherwise, and only rows     *)
(* that are committed are shown.                                           *)
(***************************************************************************)
OnlyOvertakenAreMissed ==
  /\ shown \subseteq rows
  /\ \A i \in rows \ shown :
       i <= lastSeen =>
         i \in overtaken \/ Cardinality({j \in rows : Later(j, i)}) >= PageSize
=============================================================================
