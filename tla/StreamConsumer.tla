--------------------------- MODULE StreamConsumer ---------------------------
(***************************************************************************)
(* RedisStreamConsumer (stream_bus.py): one consumer group of mp:updates   *)
(* with its single member in the worker, as run_worker (cli.py) starts it. *)
(* Redis keeps the entries, the group's last-delivered id and its pending  *)
(* entries list (PEL); the worker keeps the batch it is working through.   *)
(*                                                                         *)
(* Entries are numbered in stream order.  A batch is the set of its        *)
(* entries, worked through in order; an entry of a recovery read whose     *)
(* body was trimmed comes without fields and is acknowledged unhandled.    *)
(***************************************************************************)
EXTENDS Naturals, FiniteSets

CONSTANTS
  Batch,          \* XREADGROUP count (32 in production)
  MaxLen,         \* entries the stream keeps at least when trimming (MAXLEN ~)
  MaxEntries,     \* bound on the entries appended
  MaxCrashes,     \* bound on worker crashes
  MaxReadErrors,  \* bound on ResponseErrors of the recovery read
  MaxDisconnects, \* bound on connection errors
  MaxLosses       \* bound on Redis losing the stream

ASSUME SizesAssumption == Batch \in Nat \ {0} /\ MaxLen \in Nat \ {0}
ASSUME BoundsAssumption ==
  /\ MaxEntries \in Nat /\ MaxCrashes \in Nat /\ MaxReadErrors \in Nat
  /\ MaxDisconnects \in Nat /\ MaxLosses \in Nat

VARIABLES
  appended,    \* entries 1..appended were appended
  trimmed,     \* entries 1..trimmed are gone
  group,       \* the group exists
  from,        \* last-delivered id at the group's creation
  delivered,   \* its last-delivered id
  pending,     \* its PEL
  mode,        \* "down", "recovering", "reading", or "dead": the task has ended
  batch,       \* entries of the batch not yet acknowledged
  bodies,      \* those of them that came with fields
  handled,     \* the handler returned from the batch's first entry
  last,        \* newest entry this process handled
  attempts,    \* how often the handler returned from each entry
  crashes, readErrors, disconnects, losses

redis == <<appended, trimmed, group, from, delivered, pending>>
task == <<mode, batch, bodies, handled, last>>
faults == <<crashes, readErrors, disconnects, losses>>
vars == <<redis, task, attempts, faults>>

Entries == 1..MaxEntries

TypeOK ==
  /\ appended \in 0..MaxEntries /\ trimmed \in 0..appended
  /\ group \in BOOLEAN
  /\ from \in 0..appended /\ delivered \in from..appended
  /\ pending \subseteq from + 1 .. delivered
  /\ mode \in {"down", "recovering", "reading", "dead"}
  /\ batch \subseteq 1..delivered /\ bodies \subseteq batch
  /\ handled \in BOOLEAN
  /\ last \in 0..delivered
  /\ attempts \in [Entries -> Nat]
  /\ crashes \in Nat /\ readErrors \in Nat /\ disconnects \in Nat /\ losses \in Nat

Init ==
  /\ appended = 0 /\ trimmed = 0
  /\ group = FALSE /\ from = 0 /\ delivered = 0 /\ pending = {}
  /\ mode = "down" /\ batch = {} /\ bodies = {} /\ handled = FALSE /\ last = 0
  /\ attempts = [e \in Entries |-> 0]
  /\ crashes = 0 /\ readErrors = 0 /\ disconnects = 0 /\ losses = 0

-----------------------------------------------------------------------------
(***************************************************************************)
(* Redis.                                                                  *)
(***************************************************************************)

\* XADD with MAXLEN ~: trimming keeps at least MaxLen entries.
Append ==
  /\ appended < MaxEntries
  /\ appended' = appended + 1
  /\ trimmed' \in {t \in trimmed..appended : t = trimmed \/ t + MaxLen <= appended + 1}
  /\ UNCHANGED <<group, from, delivered, pending, task, attempts, faults>>

\* The key is evicted (allkeys-lru) or Redis restarts without it.
LoseStream ==
  /\ losses < MaxLosses
  /\ losses' = losses + 1
  /\ trimmed' = appended
  /\ group' = FALSE
  /\ pending' = {}
  /\ UNCHANGED <<appended, from, delivered, task, attempts, crashes, readErrors,
                 disconnects>>

-----------------------------------------------------------------------------
(***************************************************************************)
(* The task: run() and _drain().                                           *)
(***************************************************************************)

\* The n smallest members of S.
Smallest(S, n) == {e \in S : Cardinality({f \in S : f < e}) < n}

\* A slip: the entries of a batch are handled in any order.
IsAny(e) == e \in batch

IsFirst(e) == e \in batch /\ \A f \in batch : e <= f

(***************************************************************************)
(* Slips: forms of the actions below with one plausible mistake each.      *)
(***************************************************************************)

\* The group is created anew at "$" on every start.
StartRecreates ==
  /\ mode = "down"
  /\ mode' = "recovering"
  /\ group' = TRUE
  /\ from' = appended
  /\ delivered' = appended
  /\ UNCHANGED <<appended, trimmed, pending, batch, bodies, handled, last, attempts,
                 faults>>

\* A restart moves an existing group to the end of the stream.
StartSkipsBacklog ==
  /\ mode = "down"
  /\ mode' = "recovering"
  /\ group' = TRUE
  /\ from' = IF group THEN from ELSE appended
  /\ delivered' = appended
  /\ UNCHANGED <<appended, trimmed, pending, batch, bodies, handled, last, attempts,
                 faults>>

\* The pending entries are not read.
SkipPending ==
  /\ mode = "recovering" /\ group
  /\ mode' = "reading"
  /\ UNCHANGED <<redis, batch, bodies, handled, last, attempts, faults>>

\* A handler that raised is called again instead of being acknowledged.
HandleRetries(e) ==
  /\ mode = "reading" /\ IsFirst(e) /\ ~handled
  /\ handled' \in BOOLEAN
  /\ IF e \in bodies
     THEN /\ attempts' = [attempts EXCEPT ![e] = @ + 1]
          /\ last' = e
     ELSE UNCHANGED <<attempts, last>>
  /\ UNCHANGED <<redis, mode, batch, bodies, faults>>

\* An entry without fields is skipped without XACK.
AckBodiesOnly(e) ==
  /\ mode = "reading" /\ IsFirst(e) /\ handled
  /\ pending' = IF e \in bodies THEN pending \ {e} ELSE pending
  /\ batch' = batch \ {e}
  /\ bodies' = bodies \ {e}
  /\ handled' = FALSE
  /\ UNCHANGED <<appended, trimmed, group, from, delivered, mode, last, attempts, faults>>

-----------------------------------------------------------------------------

\* The worker starts; ensure_group creates the group at "$" unless it exists.
Start ==
  /\ mode = "down"
  /\ mode' = "recovering"
  /\ group' = TRUE
  /\ from' = IF group THEN from ELSE appended
  /\ delivered' = IF group THEN delivered ELSE appended
  /\ UNCHANGED <<appended, trimmed, pending, batch, bodies, handled, last, attempts,
                 faults>>

\* The one read of the PEL ("0"): at most Batch entries, some without a body.
ReadPending ==
  /\ mode = "recovering" /\ group
  /\ mode' = "reading"
  /\ batch' = Smallest(pending, Batch)
  /\ bodies' = {e \in batch' : e > trimmed}
  /\ UNCHANGED <<redis, handled, last, attempts, faults>>

\* It raises ResponseError (NOGROUP included): logged, and the loop goes on to ">".
ReadPendingFails ==
  /\ mode = "recovering"
  /\ ~group \/ readErrors < MaxReadErrors
  /\ mode' = "reading"
  /\ readErrors' = IF group THEN readErrors + 1 ELSE readErrors
  /\ UNCHANGED <<redis, batch, bodies, handled, last, attempts, crashes, disconnects,
                 losses>>

\* XREADGROUP ">": new entries enter the PEL as they are handed out.  While the
\* group does not exist every such read fails and the loop only sleeps.
Undelivered == {e \in delivered + 1 .. appended : e > trimmed}

\* A slip: the read uses NOACK.
ReadNewNoAck ==
  /\ mode = "reading" /\ batch = {} /\ group
  /\ Undelivered # {}
  /\ batch' = Smallest(Undelivered, Batch)
  /\ bodies' = batch'
  /\ delivered' \in batch' /\ \A e \in batch' : e <= delivered'
  /\ UNCHANGED <<appended, trimmed, group, from, pending, mode, handled, last, attempts,
                 faults>>

ReadNew ==
  /\ mode = "reading" /\ batch = {} /\ group
  /\ Undelivered # {}
  /\ batch' = Smallest(Undelivered, Batch)
  /\ bodies' = batch'
  /\ pending' = pending \cup batch'
  /\ delivered' \in batch' /\ \A e \in batch' : e <= delivered'
  /\ UNCHANGED <<appended, trimmed, group, from, mode, handled, last, attempts, faults>>

\* The handler returns or raises; either way its entry is acknowledged next.
Handle(e) ==
  /\ mode = "reading" /\ IsFirst(e) /\ ~handled
  /\ handled' = TRUE
  /\ IF e \in bodies
     THEN /\ attempts' = [attempts EXCEPT ![e] = @ + 1]
          /\ last' = e
     ELSE UNCHANGED <<attempts, last>>
  /\ UNCHANGED <<redis, mode, batch, bodies, faults>>

Ack(e) ==
  /\ mode = "reading" /\ IsFirst(e) /\ handled
  /\ pending' = pending \ {e}
  /\ batch' = batch \ {e}
  /\ bodies' = bodies \ {e}
  /\ handled' = FALSE
  /\ UNCHANGED <<appended, trimmed, group, from, delivered, mode, last, attempts, faults>>

\* What is left of the process when the task or the worker ends.
Forget ==
  /\ batch' = {} /\ bodies' = {} /\ handled' = FALSE /\ last' = 0

\* A connection error on a read or an acknowledgement, executed or not, leaves
\* run(): nothing restarts the task while the worker lives.
Disconnect ==
  /\ disconnects < MaxDisconnects
  /\ mode \in {"recovering", "reading"}
  /\ mode' = "dead"
  /\ Forget
  /\ disconnects' = disconnects + 1
  /\ UNCHANGED <<redis, attempts, crashes, readErrors, losses>>

\* The worker dies, also in the middle of a handler.
Crash ==
  /\ crashes < MaxCrashes
  /\ mode # "down"
  /\ mode' = "down"
  /\ Forget
  /\ crashes' = crashes + 1
  /\ UNCHANGED <<redis, attempts, readErrors, disconnects, losses>>

Task ==
  \/ ReadPending \/ ReadPendingFails \/ ReadNew
  \/ \E e \in batch : Handle(e) \/ Ack(e)

Next == Append \/ LoseStream \/ Start \/ Task \/ Disconnect \/ Crash

Spec == Init /\ [][Next]_vars

\* The supervisor restarts a dead worker and the event loop runs the task.
FairSpec == Spec /\ WF_vars(Start) /\ WF_vars(Task)

-----------------------------------------------------------------------------
(***************************************************************************)
(* Properties.                                                             *)
(***************************************************************************)

\* An entry addressed to the group leaves the PEL only after the handler returned
\* from it, or because its body was trimmed: a crash at any await between the read
\* and the acknowledgement loses nothing.
AckedWasHandled ==
  \A e \in from + 1 .. delivered :
    e \notin pending => (attempts[e] > 0 \/ e <= trimmed)

\* The handler sees an entry again only after the process that handled it ended.
RedeliveryNeedsRestart ==
  \A e \in Entries : attempts[e] <= 1 + crashes

\* Within the life of one process the handler sees the entries in stream order:
\* what recovery redelivers comes before everything new.
HandlesInOrder ==
  \A e \in batch : ~handled \/ ~IsFirst(e) => last < e

\* Whatever is pending is acknowledged in the end, across crashes, unless a
\* connection error ended the task or the recovery read was lost to an error.
PendingIsSettled ==
  \A e \in Entries :
    (e \in pending) ~> (e \notin pending \/ disconnects > 0 \/ readErrors > 0)

\* The group keeps the promise of AtLeastOnce.  What the task has in hand is not
\* settled, even if Redis lost the PEL meanwhile.
Promise ==
  INSTANCE AtLeastOnce WITH
    attempted <- {e \in Entries : attempts[e] > 0},
    settled <- (from + 1 .. delivered) \ (pending \cup batch)

PromiseKept == Promise!Spec

-----------------------------------------------------------------------------
(***************************************************************************)
(* What the documentation says, and a run refutes.                         *)
(***************************************************************************)

\* README.md: the consumer groups "process every event independently".
EveryEventIsDelivered ==
  \A e \in Entries : (e \in Undelivered /\ group) ~> (e \notin Undelivered)

=============================================================================
