---------------------------- MODULE LiveGateway -----------------------------
(***************************************************************************)
(* The path of an update from the Redis stream to the phone: one API       *)
(* replica (the stream listener of main.py, LiveHub and ConnectionManager, *)
(* the /ws/live handler) and one client (LiveWsClient and                  *)
(* LiveTrainsNotifier) that connects several times.                        *)
(*                                                                         *)
(* The worker is reduced to the three steps of a poll that a handler can   *)
(* observe: the diff is applied to mp:vehicles, the sequence number is     *)
(* taken, the update is appended to mp:updates - or never appended, when   *)
(* the poll dies in between.  Poll n takes number n.                       *)
(*                                                                         *)
(* Data: the train table is the set of polls whose changes it reflects.    *)
(* A missing member is a train shown where it no longer is until the feed  *)
(* happens to change that train again.                                     *)
(***************************************************************************)
EXTENDS Naturals, Sequences, FiniteSets, ReplayBuffer

CONSTANTS
  MaxSequence,      \* bound on polls
  MaxConnections,   \* bound on connections the client opens
  MaxListenerFails, \* bound on failures of the Redis subscription
  MaxRestarts,      \* bound on restarts of the replica
  QueueSize,        \* LiveHub's max_queue (2048 in production)
  ReadCount,        \* XREAD count (64 in production)
  Window,           \* frames in transit before a send blocks (TCP buffers)
  Unset             \* last_seq of a client that never saw a frame

ASSUME SizesAssumption ==
  /\ {MaxSequence, MaxConnections, MaxListenerFails, MaxRestarts} \subseteq Nat
  /\ {QueueSize, ReadCount, Window} \subseteq Nat \ {0}
ASSUME UnsetAssumption == Unset \notin Nat

Conns == 1..MaxConnections
Numbers == 1..MaxSequence

VARIABLES
  poll,        \* the worker: "idle", "applied" or "numbered"
  applied,     \* newest poll whose diff is in mp:vehicles
  sequence,    \* mp:seq
  stream,      \* mp:updates, as sequence numbers
  position,    \* index in the stream of the listener's last_id
  tailing,     \* the listener is subscribed (else it sleeps before retrying)
  listenerFails,
  missed,      \* numbers of the stream the running replica let go by: dropped at
               \* a full queue, or appended while it was not subscribed (history)
  queue,       \* LiveHub._queue
  buffer,      \* the replay buffer
  processed,   \* every number the hub took from the queue since it started
  sending,     \* number being broadcast (0: none)
  targets,     \* connections whose send of it is still running
  dead,        \* connections whose send of it failed
  registry,    \* ConnectionManager._connections
  restarts,
  session,     \* the /ws/live handler of each connection
  asked,       \* last_seq of its subscribe frame
  todo,        \* replay frames it has still to send
  base,        \* the poll its list_trains() read reflects
  joined,      \* "processed" when it was registered
  wire,        \* frames sent and not yet received
  conn,        \* the client's current connection (0: none)
  opened,      \* connections opened so far
  lastSeq,     \* LiveWsClient._lastSeq
  seen         \* the polls reflected in the client's train table

worker == <<poll, applied, sequence, stream>>
listener == <<position, tailing, listenerFails, missed>>
hub == <<queue, buffer, processed, sending, targets, dead>>
handlers == <<session, asked, todo, base, joined>>
client == <<conn, opened, lastSeq, seen>>
vars == <<worker, listener, hub, registry, restarts, handlers, wire, client>>

Update(n) == [type |-> "update", seq |-> n, upTo |-> 0]
Snapshot(n, polls) == [type |-> "snapshot", seq |-> n, upTo |-> polls]
Frames == [type : {"update", "snapshot"}, seq : 0..MaxSequence, upTo : 0..MaxSequence]

\* "serving" is the receive loop; whether the hub knows the connection is registry.
Sessions == {"unused", "subscribing", "snapshotting", "replaying", "serving", "closed"}

Elems(s) == {s[i] : i \in DOMAIN s}
Increasing(s) == \A i, j \in DOMAIN s : i < j => s[i] < s[j]

\* The numbers of the updates among frames, and their order.
IsUpdate(frame) == frame.type = "update"
Updates(frames) == {f.seq : f \in {e \in Elems(frames) : IsUpdate(e)}}
InOrder(frames) ==
  \A i, j \in DOMAIN frames :
    i < j /\ IsUpdate(frames[i]) /\ IsUpdate(frames[j]) => frames[i].seq < frames[j].seq

TypeOK ==
  /\ poll \in {"idle", "applied", "numbered"}
  /\ applied \in 0..MaxSequence
  /\ sequence \in 0..MaxSequence
  /\ stream \in Seq(Numbers)
  /\ position \in 0..Len(stream)
  /\ tailing \in BOOLEAN
  /\ listenerFails \in 0..MaxListenerFails
  /\ missed \subseteq Numbers
  /\ queue \in Seq(Numbers) /\ Len(queue) <= QueueSize
  /\ buffer \in Seq(Numbers) /\ Len(buffer) <= BufferSize
  /\ processed \subseteq Numbers
  /\ sending \in 0..MaxSequence
  /\ targets \subseteq Conns /\ dead \subseteq Conns /\ registry \subseteq Conns
  /\ restarts \in 0..MaxRestarts
  /\ session \in [Conns -> Sessions]
  /\ asked \in [Conns -> Nat \cup {Unset}]
  /\ todo \in [Conns -> Seq(Numbers)]
  /\ base \in [Conns -> 0..MaxSequence]
  /\ joined \in [Conns -> SUBSET Numbers]
  /\ wire \in [Conns -> Seq(Frames)]
  /\ conn \in 0..MaxConnections
  /\ opened \in 0..MaxConnections
  /\ lastSeq \in Nat \cup {Unset}
  /\ seen \subseteq Numbers

Init ==
  /\ poll = "idle" /\ applied = 0 /\ sequence = 0 /\ stream = <<>>
  /\ position = 0 /\ tailing = TRUE /\ listenerFails = 0 /\ missed = {}
  /\ queue = <<>> /\ buffer = <<>> /\ processed = {}
  /\ sending = 0 /\ targets = {} /\ dead = {} /\ registry = {}
  /\ restarts = 0
  /\ session = [k \in Conns |-> "unused"]
  /\ asked = [k \in Conns |-> Unset]
  /\ todo = [k \in Conns |-> <<>>]
  /\ base = [k \in Conns |-> 0]
  /\ joined = [k \in Conns |-> {}]
  /\ wire = [k \in Conns |-> <<>>]
  /\ conn = 0 /\ opened = 0 /\ lastSeq = Unset /\ seen = {}

-----------------------------------------------------------------------------
(***************************************************************************)
(* The worker, seen from outside.                                          *)
(***************************************************************************)
NotWorker == UNCHANGED <<listener, hub, registry, restarts, handlers, wire, client>>

ApplyDiff ==
  /\ poll = "idle" /\ sequence < MaxSequence
  /\ poll' = "applied"
  /\ applied' = sequence + 1
  /\ UNCHANGED <<sequence, stream>>
  /\ NotWorker

TakeNumber ==
  /\ poll = "applied"
  /\ poll' = "numbered"
  /\ sequence' = sequence + 1
  /\ UNCHANGED <<applied, stream>>
  /\ NotWorker

Publish ==
  /\ poll = "numbered"
  /\ poll' = "idle"
  /\ stream' = Append(stream, sequence)
  /\ UNCHANGED <<applied, sequence>>
  /\ NotWorker

\* The poll fails, or the worker dies, holding a number it never publishes.
BurnNumber ==
  /\ poll = "numbered"
  /\ poll' = "idle"
  /\ UNCHANGED <<applied, sequence, stream>>
  /\ NotWorker

-----------------------------------------------------------------------------
(***************************************************************************)
(* The listener: _redis_listener over subscribe_diffs.                     *)
(***************************************************************************)
NotListener == UNCHANGED <<worker, buffer, processed, sending, targets, dead, registry,
                           restarts, handlers, wire, client>>

Least(m, n) == IF m < n THEN m ELSE n

\* A slip: an unbounded queue.
EnqueueUnbounded(q, batch) == q \o batch

\* put_nowait of each message: those that find the queue full are dropped.
Enqueue(q, batch) == q \o SubSeq(batch, 1, Least(Len(batch), QueueSize - Len(q)))

\* One XREAD; nothing in the loop over its entries gives up the event loop.
ReadBatch ==
  /\ tailing
  /\ position < Len(stream)
  /\ position' = Least(Len(stream), position + ReadCount)
  /\ LET batch == SubSeq(stream, position + 1, position')
     IN  /\ queue' = Enqueue(queue, batch)
         /\ missed' = missed \cup (Elems(batch) \ Elems(queue'))
  /\ UNCHANGED <<tailing, listenerFails>>
  /\ NotListener

LoseSubscription ==
  /\ tailing
  /\ listenerFails < MaxListenerFails
  /\ tailing' = FALSE
  /\ listenerFails' = listenerFails + 1
  /\ UNCHANGED <<position, missed, queue>>
  /\ NotListener

\* subscribe_diffs starts again from the newest entry.
Resubscribe ==
  /\ ~tailing
  /\ tailing' = TRUE
  /\ position' = Len(stream)
  /\ missed' = missed \cup Elems(SubSeq(stream, position + 1, Len(stream)))
  /\ UNCHANGED <<listenerFails, queue>>
  /\ NotListener

-----------------------------------------------------------------------------
(***************************************************************************)
(* The hub: LiveHub.run and ConnectionManager.broadcast.  The manager's    *)
(* lock is never held across an await, so taking it never suspends.        *)
(***************************************************************************)
NotHub == UNCHANGED <<worker, listener, restarts, handlers, client>>

\* Take a message, buffer it, pick the targets; with none, broadcast returns.
Dequeue ==
  /\ sending = 0 /\ queue # <<>>
  /\ LET n == Head(queue)
     IN  /\ buffer' = Add(buffer, n)
         /\ processed' = processed \cup {n}
         /\ sending' = IF registry = {} THEN 0 ELSE n
  /\ queue' = Tail(queue)
  /\ targets' = registry
  /\ dead' = {}
  /\ UNCHANGED <<registry, wire>>
  /\ NotHub

\* A send to a peer that stopped reading blocks; one to a peer that is gone
\* succeeds until the transport notices.
Room(k) == k = conn => Len(wire[k]) < Window
Sent(k, frame) == IF k = conn THEN [wire EXCEPT ![k] = Append(@, frame)] ELSE wire

SendOk(k) ==
  /\ k \in targets /\ Room(k)
  /\ targets' = targets \ {k}
  /\ wire' = Sent(k, Update(sending))
  /\ UNCHANGED <<queue, buffer, processed, sending, dead, registry>>
  /\ NotHub

\* Slips: a failed send goes unnoticed; a send has no timeout.
SendFailsUnnoticed(k) ==
  /\ k \in targets
  /\ ~Room(k) \/ k # conn
  /\ targets' = targets \ {k}
  /\ UNCHANGED <<queue, buffer, processed, sending, dead, registry, wire>>
  /\ NotHub

SendFailsWhenGone(k) ==
  /\ k \in targets /\ k # conn
  /\ targets' = targets \ {k}
  /\ dead' = dead \cup {k}
  /\ UNCHANGED <<queue, buffer, processed, sending, registry, wire>>
  /\ NotHub

\* wait_for timed out on a full buffer, the frame being already handed to the
\* transport or not; or the peer is gone and the send raised.
SendFails(k) ==
  /\ k \in targets
  /\ ~Room(k) \/ k # conn
  /\ targets' = targets \ {k}
  /\ dead' = dead \cup {k}
  /\ wire' \in {wire, Sent(k, Update(sending))}
  /\ UNCHANGED <<queue, buffer, processed, sending, registry>>
  /\ NotHub

\* gather returned: the dead leave the registry.  Their sockets stay open.
EndBroadcast ==
  /\ sending # 0 /\ targets = {}
  /\ registry' = registry \ dead
  /\ sending' = 0
  /\ dead' = {}
  /\ UNCHANGED <<queue, buffer, processed, targets, wire>>
  /\ NotHub

\* heartbeat_loop broadcasts too; the connections it cannot reach are dropped.
Heartbeat(k) ==
  /\ k \in registry
  /\ ~Room(k) \/ k # conn
  /\ registry' = registry \ {k}
  /\ UNCHANGED <<hub, wire>>
  /\ NotHub

-----------------------------------------------------------------------------
(***************************************************************************)
(* The handler of connection k: live_updates.                              *)
(***************************************************************************)
NotHandler == UNCHANGED <<worker, listener, hub, restarts, client>>

\* A slip: the connection is registered before its replay is sent.
SubscribeRegistersFirst(k) ==
  /\ session[k] = "subscribing"
  /\ LET replay == IF asked[k] = Unset THEN Unbridgeable ELSE Since(buffer, asked[k])
     IN  /\ session' = [session EXCEPT ![k] = IF replay = Unbridgeable THEN "snapshotting"
                                              ELSE "replaying"]
         /\ base' = [base EXCEPT ![k] = IF replay = Unbridgeable THEN applied ELSE 0]
         /\ todo' = [todo EXCEPT ![k] = IF replay = Unbridgeable THEN <<>> ELSE replay]
  /\ registry' = registry \cup {k}
  /\ joined' = [joined EXCEPT ![k] = processed]
  /\ UNCHANGED <<wire, asked>>
  /\ NotHandler

\* The subscribe frame is read; the buffer decides between replay and snapshot.
\* With nothing to replay the connection is registered without an await.
Subscribe(k) ==
  /\ session[k] = "subscribing"
  /\ LET replay == IF asked[k] = Unset THEN Unbridgeable ELSE Since(buffer, asked[k])
     IN  \/ /\ replay = Unbridgeable
            /\ session' = [session EXCEPT ![k] = "snapshotting"]
            /\ base' = [base EXCEPT ![k] = applied]
            /\ UNCHANGED <<todo, registry, joined>>
         \/ /\ replay = <<>>
            /\ session' = [session EXCEPT ![k] = "serving"]
            /\ registry' = registry \cup {k}
            /\ joined' = [joined EXCEPT ![k] = processed]
            /\ UNCHANGED <<base, todo>>
         \/ /\ replay # Unbridgeable /\ replay # <<>>
            /\ session' = [session EXCEPT ![k] = "replaying"]
            /\ todo' = [todo EXCEPT ![k] = replay]
            /\ UNCHANGED <<base, registry, joined>>
  /\ UNCHANGED <<wire, asked>>
  /\ NotHandler

\* current_sequence, read after the trains, labels the snapshot; it is sent.
SendSnapshot(k) ==
  /\ session[k] = "snapshotting" /\ Room(k)
  /\ session' = [session EXCEPT ![k] = "replaying"]
  /\ wire' = Sent(k, Snapshot(sequence, base[k]))
  /\ base' = [base EXCEPT ![k] = 0]
  /\ UNCHANGED <<registry, asked, todo, joined>>
  /\ NotHandler

SendReplay(k) ==
  /\ session[k] = "replaying" /\ todo[k] # <<>> /\ Room(k)
  /\ wire' = Sent(k, Update(Head(todo[k])))
  /\ todo' = [todo EXCEPT ![k] = Tail(@)]
  /\ UNCHANGED <<registry, session, asked, base, joined>>
  /\ NotHandler

\* The last send returned: manager.connect.
Register(k) ==
  /\ session[k] = "replaying" /\ todo[k] = <<>>
  /\ session' = [session EXCEPT ![k] = "serving"]
  /\ registry' = registry \cup {k}
  /\ joined' = [joined EXCEPT ![k] = processed]
  /\ UNCHANGED <<asked, todo, base, wire>>
  /\ NotHandler

\* The handler sees the peer is gone, in a send or in receive_text.
Close(k) ==
  /\ session[k] \notin {"unused", "closed"} /\ k # conn
  /\ session' = [session EXCEPT ![k] = "closed"]
  /\ registry' = registry \ {k}
  /\ asked' = [asked EXCEPT ![k] = Unset]
  /\ todo' = [todo EXCEPT ![k] = <<>>]
  /\ base' = [base EXCEPT ![k] = 0]
  /\ joined' = [joined EXCEPT ![k] = {}]
  /\ UNCHANGED wire
  /\ NotHandler

-----------------------------------------------------------------------------
(***************************************************************************)
(* The client: LiveWsClient, with LiveTrainsNotifier listening to it.      *)
(***************************************************************************)
NotClient == UNCHANGED <<worker, listener, hub, registry, restarts, todo, base, joined>>

Connect ==
  /\ conn = 0 /\ opened < MaxConnections
  /\ conn' = opened + 1
  /\ opened' = opened + 1
  /\ session' = [session EXCEPT ![conn'] = "subscribing"]
  /\ asked' = [asked EXCEPT ![conn'] = lastSeq]
  /\ UNCHANGED <<wire, lastSeq, seen>>
  /\ NotClient

\* _onFrame, then _onMessage: a snapshot replaces the table, an update patches it.
Receive ==
  /\ conn # 0 /\ wire[conn] # <<>>
  /\ LET frame == Head(wire[conn])
     IN  /\ lastSeq' = frame.seq
         /\ seen' = IF frame.type = "snapshot" THEN 1..frame.upTo
                                               ELSE seen \cup {frame.seq}
  /\ wire' = [wire EXCEPT ![conn] = Tail(@)]
  /\ UNCHANGED <<session, asked, conn, opened>>
  /\ NotClient

Hangup ==
  /\ wire' = [wire EXCEPT ![conn] = <<>>]
  /\ conn' = 0
  /\ UNCHANGED <<session, asked, opened, lastSeq, seen>>
  /\ NotClient

\* suspend(), or the network drops: what is in transit is lost.
Disconnect == conn # 0 /\ Hangup

\* A slip: the client notices a closed socket only.
WatchdogOnClose == conn # 0 /\ wire[conn] = <<>> /\ session[conn] = "closed" /\ Hangup

\* A silent minute.  Heartbeats reach registered connections only.
Watchdog == conn # 0 /\ wire[conn] = <<>> /\ conn \notin registry /\ Hangup

\* A slip: the replay buffer outlives the process.
RestartKeepsBuffer ==
  /\ restarts < MaxRestarts
  /\ restarts' = restarts + 1
  /\ position' = Len(stream) /\ tailing' = TRUE /\ missed' = {}
  /\ queue' = <<>> /\ processed' = {}
  /\ sending' = 0 /\ targets' = {} /\ dead' = {} /\ registry' = {}
  /\ session' = [k \in Conns |-> IF session[k] = "unused" THEN "unused" ELSE "closed"]
  /\ asked' = [k \in Conns |-> Unset]
  /\ todo' = [k \in Conns |-> <<>>]
  /\ base' = [k \in Conns |-> 0]
  /\ joined' = [k \in Conns |-> {}]
  /\ wire' = [k \in Conns |-> <<>>]
  /\ conn' = 0
  /\ UNCHANGED <<worker, listenerFails, buffer, opened, lastSeq, seen>>

\* The replica is restarted: hub and handlers start from nothing, sockets break.
Restart ==
  /\ restarts < MaxRestarts
  /\ restarts' = restarts + 1
  /\ position' = Len(stream) /\ tailing' = TRUE /\ missed' = {}
  /\ queue' = <<>> /\ buffer' = <<>> /\ processed' = {}
  /\ sending' = 0 /\ targets' = {} /\ dead' = {} /\ registry' = {}
  /\ session' = [k \in Conns |-> IF session[k] = "unused" THEN "unused" ELSE "closed"]
  /\ asked' = [k \in Conns |-> Unset]
  /\ todo' = [k \in Conns |-> <<>>]
  /\ base' = [k \in Conns |-> 0]
  /\ joined' = [k \in Conns |-> {}]
  /\ wire' = [k \in Conns |-> <<>>]
  /\ conn' = 0
  /\ UNCHANGED <<worker, listenerFails, opened, lastSeq, seen>>

-----------------------------------------------------------------------------
Worker == ApplyDiff \/ TakeNumber \/ Publish \/ BurnNumber
Listener == ReadBatch \/ LoseSubscription \/ Resubscribe
Sends(k) == SendOk(k) \/ SendFails(k)
Hub == Dequeue \/ EndBroadcast \/ \E k \in Conns : Sends(k) \/ Heartbeat(k)
Handler(k) == Subscribe(k) \/ SendSnapshot(k) \/ SendReplay(k) \/ Register(k) \/ Close(k)
Client == Connect \/ Receive \/ Disconnect \/ Watchdog

Next == Worker \/ Listener \/ Hub \/ (\E k \in Conns : Handler(k)) \/ Client \/ Restart

Spec == Init /\ [][Next]_vars

(***************************************************************************)
(* The tasks of the replica's event loop run, a send ends within its       *)
(* timeout, and the phone's watchdog timer fires.  Nothing is assumed of   *)
(* the worker, of reconnecting, of failures, or of the phone's reading.    *)
(***************************************************************************)
FairSpec ==
  /\ Spec
  /\ WF_vars(Dequeue) /\ WF_vars(EndBroadcast)
  /\ \A k \in Conns : WF_vars(Sends(k)) /\ WF_vars(Handler(k))
  /\ WF_vars(Watchdog)

-----------------------------------------------------------------------------
(***************************************************************************)
(* Properties.                                                             *)
(***************************************************************************)

\* What since() replays is exactly what the hub processed after last_seq, whatever
\* was evicted, dropped before the hub or never published: a client whose last_seq
\* is older than an eviction is sent to a snapshot, never given a partial replay.
ReplayIsWhatTheHubKept ==
  \A last \in 0..MaxSequence :
    LET replay == Since(buffer, last)
    IN  replay # Unbridgeable => Elems(replay) = {s \in processed : s > last}

\* Once registered, a connection that is not dropped misses no message the hub
\* takes from its queue: it is in the client's table, on the wire, or being sent,
\* also when it registers while a broadcast is running or the peer is slow.
RegisteredMissNothing ==
  (conn \in registry) =>
    \A s \in processed \ joined[conn] :
      \/ s \in seen
      \/ Update(s) \in Elems(wire[conn])
      \/ s = sending /\ conn \in targets \cup dead

\* On one connection updates arrive in growing order, replayed ones first: the
\* handler's replay and the hub's broadcasts never overtake each other.
WireIsOrdered ==
  \A k \in Conns :
    /\ InOrder(wire[k]) /\ Increasing(todo[k])
    /\ \A m \in Updates(wire[k]), n \in Elems(todo[k]) : m < n
    /\ k \in targets => \A m \in Updates(wire[k]) \cup Elems(todo[k]) : m < sending

\* A replay compared with the stream itself: of what the listener went past, it lacks
\* what the running replica let go by (and, being unread, what is still in the queue)
\* and nothing else.  What was appended, queued or buffered before a restart is no
\* excuse: a client that needs any of it is told to take a snapshot.
ReplaysSurviveRestarts ==
  \A last \in 0..MaxSequence :
    LET replay == Since(buffer, last)
        handed == Elems(SubSeq(stream, 1, position)) \ Elems(queue)
    IN  replay # Unbridgeable => Elems(replay) = {s \in handed : s > last} \ missed

\* If the phone reads what arrives, no connection stays open for ever without being
\* registered for broadcasts: one the manager dropped is torn down by the watchdog.
ConnectedIsServed ==
  WF_vars(Receive) => \A k \in Conns : (conn = k) ~> (conn # k \/ k \in registry)

\* Every broadcast ends, even if no client ever reads again (send timeout).
BroadcastEnds == (sending # 0) ~> (sending = 0)

-----------------------------------------------------------------------------
(***************************************************************************)
(* What the documentation says, and a run refutes.                         *)
(***************************************************************************)

\* Nothing is under way between the worker and the client's table.
Quiet ==
  /\ poll = "idle" /\ tailing /\ position = Len(stream)
  /\ queue = <<>> /\ sending = 0
  /\ conn \in registry /\ wire[conn] = <<>>

\* live.py:16: "a client that sends its last seen last_seq receives only the missed
\* updates when they are still buffered; otherwise it gets a fresh snapshot";
\* ws_client.dart:39: "resuming replays exactly what was missed".
ResumeReplaysWhatWasMissed ==
  (Quiet /\ asked[conn] # Unset) =>
    \A s \in Elems(stream) : s > asked[conn] => s \in seen

=============================================================================
