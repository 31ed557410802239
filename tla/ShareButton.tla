----------------------------- MODULE ShareButton -----------------------------
(***************************************************************************)
(* JourneyShareButton (journey_share.dart): the handlers that start and    *)
(* stop the sharing of a trip, and the loop that posts the position.  A    *)
(* handler runs alone between its awaits; the awaits of several handlers   *)
(* end in any order.  Requests never raise (JourneyRepository): a failed   *)
(* post or stop looks like one that went through.  Off screen only the     *)
(* handlers of the old button go on, so leaving the screen and coming back *)
(* is one step.                                                            *)
(***************************************************************************)
EXTENDS Naturals, FiniteSets

CONSTANTS
  Handlers,  \* handlers that may be open at once
  MaxLoops   \* bound on the timers armed

ASSUME ButtonLimits == IsFiniteSet(Handlers) /\ MaxLoops \in Nat

VARIABLES
  sharing,         \* _sharing
  starting,        \* _starting
  handler,         \* what each open handler awaits
  timer,           \* the loop _timer refers to (0: none)
  loops,           \* the periodic timers of this button that run
  abandoned,       \* those of buttons that have left the screen
  loopsArmed,      \* timers armed so far
  loopsOverlapped  \* those armed by a start that was open together with a stop

timers == <<timer, loops, abandoned, loopsArmed, loopsOverlapped>>
buttonVars == <<sharing, starting, handler, timers>>

\* "first" marks the push of _startSharing, "overlapped" that a stop was open
\* during that handler, "mounted" that its button is still on screen.
NoHandler == [awaits |-> "nothing", first |-> FALSE, overlapped |-> FALSE, mounted |-> TRUE]
Free(h) == handler[h] = NoHandler
StopOpen == \E h \in Handlers : handler[h].awaits = "stop" /\ handler[h].mounted
Starts == {h \in Handlers : handler[h].first}

ButtonTypeOK ==
  /\ sharing \in BOOLEAN /\ starting \in BOOLEAN
  /\ handler \in [Handlers ->
       [awaits : {"nothing", "share", "position", "post", "stop"},
        first : BOOLEAN, overlapped : BOOLEAN, mounted : BOOLEAN]]
  /\ loops \subseteq 1..loopsArmed /\ timer \in {0} \cup loops
  /\ abandoned + Cardinality(loops) <= loopsArmed
  /\ loopsArmed + Cardinality(Starts) <= MaxLoops
  /\ loopsOverlapped \in 0..loopsArmed

ButtonInit ==
  /\ sharing = FALSE /\ starting = FALSE
  /\ handler = [h \in Handlers |-> NoHandler]
  /\ timer = 0 /\ loops = {} /\ abandoned = 0 /\ loopsArmed = 0 /\ loopsOverlapped = 0

-----------------------------------------------------------------------------
\* The button "Share my trip".
Share(h) ==
  /\ ~sharing /\ ~starting /\ Free(h)
  /\ loopsArmed + Cardinality(Starts) < MaxLoops
  /\ starting' = TRUE
  /\ handler' = [handler EXCEPT ![h] =
       [NoHandler EXCEPT !.awaits = "share", !.first = TRUE, !.overlapped = StopOpen]]
  /\ UNCHANGED <<sharing, timers>>

End(h) == handler' = [handler EXCEPT ![h] = NoHandler]

\* The answer to the share request: with a link, or without one.
Shared(h) ==
  /\ handler[h].awaits = "share"
  /\ \/ ~handler[h].mounted /\ End(h) /\ UNCHANGED <<sharing, starting>>
     \/ handler[h].mounted /\ End(h) /\ starting' = FALSE /\ UNCHANGED sharing
     \/ /\ handler[h].mounted
        /\ starting' = FALSE /\ sharing' = TRUE
        /\ handler' = [handler EXCEPT ![h].awaits = "position"]
  /\ UNCHANGED timers

\* The interval of a loop passes; the loop of a button off screen does nothing.
Tick(h) ==
  /\ loops # {} /\ Free(h)
  /\ handler' = [handler EXCEPT ![h].awaits = "position"]
  /\ UNCHANGED <<sharing, starting, timers>>

Arm(h) ==
  /\ loopsArmed' = loopsArmed + 1
  /\ timer' = loopsArmed'
  /\ loops' = loops \cup {loopsArmed'}
  /\ loopsOverlapped' = loopsOverlapped + IF handler[h].overlapped THEN 1 ELSE 0
  /\ UNCHANGED abandoned

\* Slip: the loop is armed although sharing has ended.
PushedAnyway(h) ==
  /\ End(h)
  /\ IF handler[h].first /\ handler[h].mounted THEN Arm(h) ELSE UNCHANGED timers
  /\ UNCHANGED starting

\* _pushPositionOnce has ended; the first push arms the loop.
Pushed(h) ==
  /\ End(h)
  /\ IF handler[h].first /\ handler[h].mounted /\ sharing' THEN Arm(h) ELSE UNCHANGED timers
  /\ UNCHANGED starting

\* _stopSharing up to its await: every start that is open is overlapped.
StopBegins(h) ==
  /\ loops' = loops \ {timer}
  /\ timer' = 0
  /\ handler' = [g \in Handlers |->
       IF g = h THEN [handler[h] EXCEPT !.awaits = "stop"]
       ELSE [handler[g] EXCEPT !.overlapped = handler[g].first]]
  /\ UNCHANGED <<sharing, starting, abandoned, loopsArmed, loopsOverlapped>>

\* The button "Stop".
Stop(h) == sharing /\ Free(h) /\ StopBegins(h)

\* The position is known and posted, or not available, or the rider denies it;
\* of a button off screen nothing is posted.
Located(h) ==
  /\ handler[h].awaits = "position"
  /\ \/ /\ handler[h].mounted
        /\ handler' = [handler EXCEPT ![h].awaits = "post"]
        /\ UNCHANGED <<sharing, starting, timers>>
     \/ handler[h].mounted /\ StopBegins(h)
     \/ UNCHANGED sharing /\ Pushed(h)

Posted(h) == handler[h].awaits = "post" /\ UNCHANGED sharing /\ Pushed(h)

\* The stop request has been answered, or has failed.
Stopped(h) ==
  /\ handler[h].awaits = "stop"
  /\ sharing' = (sharing /\ ~handler[h].mounted)
  /\ Pushed(h)

\* dispose(), and later a new button: the share goes on, the loop does not.
Leave ==
  /\ sharing' = FALSE /\ starting' = FALSE
  /\ handler' = [h \in Handlers |->
       IF Free(h) THEN NoHandler ELSE [handler[h] EXCEPT !.mounted = FALSE]]
  /\ timer' = 0 /\ loops' = {}
  /\ abandoned' = abandoned + Cardinality(loops \ {timer})
  /\ UNCHANGED <<loopsArmed, loopsOverlapped>>

ButtonNext ==
  \/ Leave
  \/ \E h \in Handlers :
       Share(h) \/ Shared(h) \/ Tick(h) \/ Stop(h) \/ Located(h) \/ Posted(h) \/ Stopped(h)

ButtonSpec == ButtonInit /\ [][ButtonNext]_buttonVars

-----------------------------------------------------------------------------
\* Loops that run although no share is shown, or that _timer does not refer to.
Strays == IF sharing THEN loops \ {timer} ELSE loops

\* Only a start that was open together with a stop leaves a loop behind: ticks
\* that deny the location, several stops and leaving the screen do not.
StraysComeFromOverlaps == Cardinality(Strays) + abandoned <= loopsOverlapped
=============================================================================
