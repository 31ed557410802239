----------------------------- MODULE MCCommuter -----------------------------
(***************************************************************************)
(* The commuter services and two controllers of the phone on small         *)
(* instances.  They share no state but the end of a journey, which module  *)
(* JourneyShares leaves open, so a behaviour exercises the one that part   *)
(* names and leaves the others at their initial state.                     *)
(***************************************************************************)
EXTENDS Journeys, AnalyticsQueue, DestinationAlerts, JourneyShares, ShareButton

VARIABLES
  part,
  driven   \* events reach the rule engine: the feed is polled with success, and the
           \* task of the notify consumer has not ended

serviceVars == <<vars, alertVars, shareVars>>   \* vars is module Journeys'
phoneVars == <<buttonVars, queueVars>>
mcVars == <<part, driven, serviceVars, phoneVars>>

MCInit ==
  /\ part \in {"journeys", "alerts", "shares", "button", "queue"} /\ driven = TRUE
  /\ Init /\ AlertsInit /\ SharesInit /\ ButtonInit
  /\ QueueInit /\ (part # "queue" => consent)

\* A cycle of the rule engine is the handling of an event.
CalledForAnEvent ==
  /\ ~cycle.open /\ cycle'.open => driven
  /\ rules.phase = "idle" /\ rules'.phase # "idle" => driven

\* A connection error in XREADGROUP or XACK, between two handlers, ends the consumer's
\* task for good, and nothing watches it; or the feed stops answering.
EventsStop ==
  /\ part \in {"journeys", "alerts"} /\ driven
  /\ ~cycle.open /\ rules.phase = "idle"
  /\ driven' = FALSE

\* The worker is started again, which starts its consumers; or the feed answers.
EventsResume == ~driven /\ driven' = TRUE

MCNext ==
  /\ UNCHANGED part
  /\ \/ /\ UNCHANGED driven
        /\ \/ part = "journeys" /\ Next /\ UNCHANGED <<alertVars, shareVars, phoneVars>>
           \/ part = "alerts" /\ AlertsNext /\ UNCHANGED <<vars, shareVars, phoneVars>>
        /\ CalledForAnEvent
     \/ /\ UNCHANGED driven
        /\ \/ part = "shares" /\ SharesNext /\ UNCHANGED <<vars, alertVars, phoneVars>>
           \/ part = "button" /\ ButtonNext /\ UNCHANGED <<serviceVars, queueVars>>
           \/ part = "queue" /\ QueueNext /\ UNCHANGED <<serviceVars, buttonVars>>
     \/ (EventsStop \/ EventsResume) /\ UNCHANGED <<serviceVars, phoneVars>>

\* While events reach it the rule engine goes through its cycles: every successful poll
\* publishes one, changes or not.  The hourly job is the scheduler's and runs without
\* events; a request that was admitted goes on, and time passes.  That the consumer's
\* task lives is not assumed here: it is a premise of the property that needs it.
MCFairness ==
  /\ WF_vars(part = "journeys" /\ driven /\ CycleStep)
  /\ WF_vars(part = "journeys" /\ \E r \in Requests : RequestStep(r))
  /\ WF_vars(part = "journeys" /\ \E j \in Ids : Age(j))
  /\ WF_alertVars(part = "alerts" /\ driven /\ RulesStep)
  /\ WF_shareVars(part = "shares" /\ Forget)
  /\ WF_shareVars(part = "shares" /\ \E s \in Shares : Expires(s) \/ GraceEnds(s))
  /\ \A d \in Devices : WF_shareVars(part = "shares" /\ TapStep(d))

MCSpec == MCInit /\ [][MCNext]_mcVars /\ MCFairness

AllTypesOK ==
  /\ driven \in BOOLEAN
  /\ TypeOK /\ AlertsTypeOK /\ SharesTypeOK /\ ButtonTypeOK /\ QueueTypeOK

\* If the notify consumer is not ended for good (stream_consumer shows that it can be,
\* and then no rule runs until the worker is restarted) and polls succeed in the end,
\* every journey ends and an alert on a train that has gone is settled, whatever fails
\* on the way.  The position of a share is erased in any case.
LifecyclesEnd ==
  /\ <>[]driven => JourneysEnd /\ GoneTrainSettlesAlerts
  /\ PositionsAreForgotten
=============================================================================
