--------------------------- MODULE AnalyticsQueue ---------------------------
(***************************************************************************)
(* The phone's usage events: AnalyticsService (core/analytics.dart), the   *)
(* upload of AnalyticsRepository and the consent switch of the settings    *)
(* screen.  Everything runs in one isolate; other code runs only while the *)
(* upload or a write of the preference is awaited.                         *)
(*                                                                         *)
(* Events are numbered in the order of recording.  The preference is       *)
(* visible as soon as it is written, its handler goes on later.  A killed  *)
(* app loses the buffer and starts again from QueueInit.                   *)
(***************************************************************************)
EXTENDS Naturals, Sequences

CONSTANTS
  BatchSize,    \* events per upload (25 in production)
  MaxBuffered,  \* events kept at most (200 in production)
  MaxEvents,    \* bound on the events recorded
  MaxTaps,      \* bound on the taps on the switch
  MaxRefusals   \* bound on uploads that are not answered with success

ASSUME LimitsAssumption ==
  /\ {BatchSize, MaxBuffered} \subseteq Nat \ {0}
  /\ {MaxEvents, MaxTaps, MaxRefusals} \subseteq Nat

VARIABLES
  consent,     \* the stored preference
  shown,       \* the value the switch shows
  switching,   \* open handlers of the switch, by the value they set
  taps,
  buffer,      \* AnalyticsService._buffer
  armed,       \* the flush timer runs
  batch,       \* what the running flush uploads; <<>> when none runs
  arrived,     \* the server has stored it
  recorded,    \* events recorded so far
  received,    \* how often the server stored each event
  unanswered,  \* how often it did so and the phone did not learn of it
  refusals

preference == <<consent, shown, switching, taps>>
flushing == <<batch, arrived>>
server == <<received, unanswered, refusals>>
queueVars == <<preference, buffer, armed, flushing, recorded, server>>

Events == 1..MaxEvents
Firsts(events) == SubSeq(events, 1, IF Len(events) < BatchSize THEN Len(events) ELSE BatchSize)
Elems(events) == {events[i] : i \in DOMAIN events}

QueueTypeOK ==
  /\ consent \in BOOLEAN /\ shown \in BOOLEAN
  /\ switching \in [BOOLEAN -> Nat] /\ taps \in 0..MaxTaps
  /\ buffer \in Seq(Events) /\ Len(buffer) <= MaxBuffered
  /\ armed \in BOOLEAN
  /\ batch \in Seq(Events) /\ Len(batch) <= BatchSize
  /\ arrived \in BOOLEAN /\ (arrived => batch # <<>>)
  /\ recorded \in 0..MaxEvents
  /\ received \in [Events -> Nat] /\ unanswered \in [Events -> Nat]
  /\ refusals \in 0..MaxRefusals

QueueInit ==
  /\ consent \in BOOLEAN /\ shown = consent
  /\ switching = [value \in BOOLEAN |-> 0] /\ taps = 0
  /\ buffer = <<>> /\ armed = FALSE
  /\ batch = <<>> /\ arrived = FALSE
  /\ recorded = 0
  /\ received = [e \in Events |-> 0] /\ unanswered = [e \in Events |-> 0]
  /\ refusals = 0

-----------------------------------------------------------------------------
\* flush(), with "events" in the buffer, up to its first await.
Flush(events) ==
  LET starts == batch = <<>> /\ events # <<>> IN
  /\ armed' = FALSE
  /\ buffer' = IF starts /\ ~consent THEN <<>> ELSE events
  /\ batch' = IF starts /\ consent THEN Firsts(events) ELSE batch
  /\ UNCHANGED arrived

\* record(): a full buffer loses its oldest event.
Record ==
  LET events == Append(IF Len(buffer) >= MaxBuffered THEN Tail(buffer) ELSE buffer, recorded + 1) IN
  /\ consent
  /\ recorded < MaxEvents
  /\ recorded' = recorded + 1
  /\ IF Len(events) >= BatchSize THEN Flush(events)
     ELSE buffer' = events /\ armed' = TRUE /\ UNCHANGED flushing
  /\ UNCHANGED <<preference, server>>

TimerFires ==
  /\ armed
  /\ Flush(buffer)
  /\ UNCHANGED <<preference, recorded, server>>

\* The app goes to the background.
Paused ==
  /\ Flush(buffer)
  /\ UNCHANGED <<preference, recorded, server>>

\* The endpoint commits the batch.
BatchArrives ==
  /\ batch # <<>> /\ ~arrived
  /\ arrived' = TRUE
  /\ received' = [e \in Events |-> received[e] + IF e \in Elems(batch) THEN 1 ELSE 0]
  /\ UNCHANGED <<preference, buffer, armed, batch, recorded, unanswered, refusals>>

\* The batch leaves the buffer by position and the loop takes the next one.
Removed(rest) ==
  /\ buffer' = rest
  /\ batch' = Firsts(rest)
  /\ arrived' = FALSE
  /\ UNCHANGED <<preference, armed, recorded, server>>

Rest == SubSeq(buffer, Len(batch) + 1, Len(buffer))

\* Slip: nothing is removed when the buffer no longer begins with the batch.
AcceptedIfUnchanged ==
  /\ arrived /\ Len(buffer) >= Len(batch)
  /\ Removed(IF SubSeq(buffer, 1, Len(batch)) = batch THEN Rest ELSE buffer)

Accepted ==
  /\ arrived /\ Len(buffer) >= Len(batch)
  /\ Removed(Rest)

\* removeRange raises a RangeError: the buffer was discarded during the upload.
RemovalThrows ==
  /\ arrived /\ Len(buffer) < Len(batch)
  /\ batch' = <<>> /\ arrived' = FALSE
  /\ UNCHANGED <<preference, buffer, armed, recorded, server>>

\* Not accepted, or no answer, whether or not the batch arrived.
Refused ==
  /\ batch # <<>>
  /\ refusals < MaxRefusals
  /\ refusals' = refusals + 1
  /\ unanswered' = [e \in Events |->
       unanswered[e] + IF arrived /\ e \in Elems(batch) THEN 1 ELSE 0]
  /\ batch' = <<>> /\ arrived' = FALSE
  /\ UNCHANGED <<preference, buffer, armed, recorded, received>>

\* The switch's onChanged, up to its first await.
Tap ==
  /\ taps < MaxTaps
  /\ taps' = taps + 1
  /\ consent' = ~shown
  /\ switching' = [switching EXCEPT ![~shown] = @ + 1]
  /\ UNCHANGED <<shown, buffer, armed, flushing, recorded, server>>

\* Slip: a running upload keeps its events in the buffer.
SwitchedUnlessSending(value) ==
  /\ switching[value] > 0
  /\ switching' = [switching EXCEPT ![value] = @ - 1]
  /\ shown' = consent
  /\ IF value \/ batch # <<>> THEN UNCHANGED <<buffer, armed>>
     ELSE buffer' = <<>> /\ armed' = FALSE
  /\ UNCHANGED <<consent, taps, flushing, recorded, server>>

\* ... and from there to its end: discard(), and the switch shows the preference.
Switched(value) ==
  /\ switching[value] > 0
  /\ switching' = [switching EXCEPT ![value] = @ - 1]
  /\ shown' = consent
  /\ IF value THEN UNCHANGED <<buffer, armed>> ELSE buffer' = <<>> /\ armed' = FALSE
  /\ UNCHANGED <<consent, taps, flushing, recorded, server>>

QueueNext ==
  \/ Record \/ TimerFires \/ Paused
  \/ BatchArrives \/ Accepted \/ RemovalThrows \/ Refused
  \/ Tap \/ \E value \in BOOLEAN : Switched(value)

QueueSpec == QueueInit /\ [][QueueNext]_queueVars

-----------------------------------------------------------------------------
\* Once the switch has handled a withdrawal nothing stays in the buffer, whatever
\* upload, event or other tap was under way (AnalyticsService.discard).
NothingKeptAfterWithdrawal == (~consent /\ switching[FALSE] = 0) => buffer = <<>>

\* The server stores an event again only if its answer to the earlier upload was
\* lost: no change of the buffer during an upload makes the loop repeat a batch.
StoredAgainOnlyIfUnanswered == \A e \in Events : received[e] <= 1 + unanswered[e]

=============================================================================
