----------------------------- MODULE MCServices -----------------------------
(***************************************************************************)
(* The services around the static timetable and the edges of the system on *)
(* small instances.  They share no state, so a behaviour exercises the one *)
(* that part names and leaves the others at their initial state.  In part  *)
(* "questions" the pure functions of module TrainOnTrip are asked one      *)
(* question each.                                                          *)
(***************************************************************************)
EXTENDS RateLimiter, OfflineBundle, RouteResolver, Reminders, RiderData, MCQuestions

CONSTANTS MaxPublished, MaxCrashes,
          Fetchers, MaxAttempts, Threshold, Cooldown, MaxOutages,
          Null, Unreadable, Foreign, Off, Zero

VARIABLES
  part,
  remote, kind, tagged, tables, etag, run, outdated, crashes, publishedByHand, runsOverlapped,
  up, outages, failedFetches, cooling, attempt, served,
  archive, outcome,
  network, origin, destination, searched, best, prev, queue, plans,
  question

U == INSTANCE StaticUpdate WITH byHand <- publishedByHand, overlapped <- runsOverlapped
ASSUME RemindersFit == TimetablesAreFinite /\ TimetablesFit /\ ReminderBounds
F == INSTANCE FeedClient WITH failures <- failedFetches
V == INSTANCE GtfsValidation WITH Datasets <- Archives
J == INSTANCE JourneyPlanner WITH Networks <- SampleNetworks,
       WalkMax <- 5, TransferOverhead <- 2, BoardPenalty <- 3, MinHop <- 1,
       FewerTransfersFactor <- 4, LessWalkingFactor <- 6
T == INSTANCE TrainOnTrip WITH Radius <- 1, DayLength <- 24, DelayLimit <- 6,
       DwellMin <- 3, DwellMax <- 6, DefaultDwell <- 3, MinSpeed <- 1, MaxSpeed <- 5, DefaultSpeed <- 2,
       HistoryLimit <- 4, HistoryWindow <- 4, SpeedUnit <- 2

L == INSTANCE StationMatching WITH Radius <- 2, SanityRadius <- 5, WalkRadius <- 3, Minute <- 2, TopCount <- 1

B == INSTANCE BoardingAdvice WITH DefaultCoaches <- 4, MinSamples <- 2, HourWindow <- 1, HoursInDay <- 24
S == INSTANCE StationAdvice WITH HoursInDay <- 4, FirstHour <- 1, Offsets <- <<-2, -1, 1, 2, 3>>, TopCount <- 2
C == INSTANCE CommuteAdvice WITH HourLength <- 2, Minute <- 2, Lookback <- 300, HistoryLimit <- 3, LocalOffset <- 11,
       Floor <- 2, Slabs <- <<[upTo |-> 2, fare |-> 11], [upTo |-> 12, fare |-> 32]>>, Beyond <- 64
Q == INSTANCE JourneyTools WITH Buffer <- 2, Minute <- 2, Limit <- 2

\* One stop has gates in both files.
OsmFile == <<[stop |-> "s", name |-> "g1"]>>
OfficialFile == <<[stop |-> "s", name |-> "g2"], [stop |-> "t", name |-> "g1"]>>
SampleNudges == {-9, 1}
ASSUME BoundsFit == RiderDataBounds /\ U!UpdateBounds /\ F!FeedBounds
ASSUME SamplesFit == J!PlannerFits /\ V!DatasetsFit
D == INSTANCE FeedDecoder
W == INSTANCE Wire
H == INSTANCE RideTracking WITH ArrivalRadius <- 1, ApproachRadius <- 3, MaxAccuracy <- 1, MaxFixAge <- 1,
       Window <- 2, Threshold <- 3, MinimumDwell <- 1, MinimumRun <- 3
Y == INSTANCE Telemetry WITH MaxBatch <- 2, Blank <- "", Retention <- 2

updateVars == <<remote, kind, tagged, tables, etag, run, outdated, crashes, publishedByHand, runsOverlapped>>
feedVars == <<up, outages, failedFetches, cooling, attempt, served>>
validationVars == <<archive, outcome>>
plannerVars == <<network, origin, destination, searched, best, prev, queue, plans>>

operatorVars == <<updateVars, bundleVars, resolverVars, validationVars>>
riderVars == <<reminderVars, plannerVars, exitVars, question>>
noticeVars == <<accountVars, alertVars, inboxVars, nudgeVars, refinementVars>>
edgeVars == <<feedVars, limiterVars>>

Parts == {"update", "bundle", "trips", "routes", "reminders", "timetables", "feed", "limiter",
          "archives", "planner", "exits", "accounts", "alerts", "inbox", "nudges", "refiner", "questions"}

\* An instance that part does not exercise starts in one state.
MCInit ==
  /\ part \in Parts
  /\ part = "update" \/ (kind = [d \in U!Feeds |-> "good"] /\ tagged = [d \in U!Feeds |-> TRUE])
  /\ U!Init /\ BundleInit /\ LimiterInit
  /\ part \in {"trips", "routes"} \/ static = 1
  /\ ResolverInit
  /\ timetable \in (CASE part = "timetables" -> Timetables
                       [] part = "reminders" -> {Daily, Meeting}
                       [] OTHER -> {Daily})
  /\ ReminderInit
  /\ part = "feed" \/ up = TRUE
  /\ F!Init
  /\ IF part = "archives" THEN V!Init ELSE archive = Sound /\ outcome = "unread"
  /\ part = "planner" \/ (network = Walking /\ origin = "a" /\ destination = "b")
  /\ J!Init
  /\ RiderDataInit
  /\ part = "accounts" \/ (account = {1} /\ stored = 1)
  /\ part = "nudges" \/ \A u \in {1, 2} : habit[u] = {}
  /\ part = "refiner" \/ (trips[<<1, "weekend">>] = 0 /\ \A b \in Buckets : refined[b] = {})
  /\ question = <<>>

\* Positions of some vehicles in full.
WireFleet(places) == [v \in DOMAIN places |-> [W!Full("position") EXCEPT !.vehicle_id = v, !.latitude = places[v]]]

\* Each kind of object as versions that differ in a field or two store it.
Small(fields) == {{}} \cup {{f} : f \in fields}
Changes(lacks, nulls, adds) == [lacks : Small(lacks), nulls : Small(nulls), adds : adds, foreign : BOOLEAN]
WireQuestions ==
  UNION {{"objects"} \X {name} \X Changes(W!FieldsOf(W!Kinds[name]), W!FieldsOf(W!Kinds[name]), BOOLEAN) :
            name \in DOMAIN W!Kinds}
    \cup ({"fleet"} \X (UNION {[vs -> Changes({"latitude", "source"}, {}, {FALSE})] : vs \in SUBSET {"t", "v"}}) \X WireFleets)
    \cup ({"facts"} \X WireFleets \X WireFleets \X SUBSET {"t", "w"})

Questions ==
  ({"where"} \X Trips \X Places) \cup ({"schedule"} \X {Corner} \X (0..14))
    \cup ({"delay"} \X {0, 9, 23} \X (-6..6)) \cup ({"dwell"} \X Histories) \cup ({"speed"} \X Tracks) \cup LoadQuestions
    \cup AdviceQuestions \cup FeedQuestions \cup WireQuestions

Ask ==
  /\ question = <<>>
  /\ question' \in Questions

Unnoticed ==
  \/ part = "update" /\ U!Next /\ UNCHANGED <<bundleVars, resolverVars, validationVars, riderVars, edgeVars>>
  \/ part = "bundle" /\ BundleNext /\ UNCHANGED <<updateVars, resolverVars, validationVars, riderVars, edgeVars>>
  \/ part \in {"trips", "routes"} /\ Reload
       /\ UNCHANGED <<updateVars, bundleVars, validationVars, riderVars, edgeVars>>
  \/ part = "trips" /\ TripNext /\ UNCHANGED <<updateVars, bundleVars, validationVars, riderVars, edgeVars>>
  \/ part = "routes" /\ RouteNext /\ UNCHANGED <<updateVars, bundleVars, validationVars, riderVars, edgeVars>>
  \/ part = "archives" /\ V!Next /\ UNCHANGED <<updateVars, bundleVars, resolverVars, riderVars, edgeVars>>
  \/ part = "reminders" /\ ReminderNext /\ UNCHANGED <<operatorVars, plannerVars, exitVars, question, edgeVars>>
  \/ part = "timetables" /\ Tick /\ UNCHANGED <<operatorVars, plannerVars, exitVars, question, edgeVars>>
  \/ part = "planner" /\ J!Next /\ UNCHANGED <<operatorVars, reminderVars, exitVars, question, edgeVars>>
  \/ part = "questions" /\ Ask /\ UNCHANGED <<operatorVars, reminderVars, plannerVars, exitVars, edgeVars>>
  \/ part = "exits" /\ ExitNext /\ UNCHANGED <<operatorVars, reminderVars, plannerVars, question, edgeVars>>
  \/ part = "feed" /\ F!Next /\ UNCHANGED <<operatorVars, riderVars, limiterVars>>
  \/ part = "limiter" /\ LimiterNext /\ UNCHANGED <<operatorVars, riderVars, feedVars>>

Noticed ==
  \/ part = "accounts" /\ AccountNext /\ UNCHANGED <<alertVars, inboxVars, nudgeVars, refinementVars>>
  \/ part = "alerts" /\ AlertNext /\ UNCHANGED <<accountVars, inboxVars, nudgeVars, refinementVars>>
  \/ part = "inbox" /\ InboxNext /\ UNCHANGED <<accountVars, alertVars, nudgeVars, refinementVars>>
  \/ part = "nudges" /\ NudgeNext /\ UNCHANGED <<accountVars, alertVars, inboxVars, refinementVars>>
  \/ part = "refiner" /\ RefinementNext /\ UNCHANGED <<accountVars, alertVars, inboxVars, nudgeVars>>

MCNext ==
  /\ UNCHANGED part
  /\ \/ Unnoticed /\ UNCHANGED noticeVars
     \/ Noticed /\ UNCHANGED <<operatorVars, riderVars, edgeVars>>

\* As modules StaticUpdate and FeedClient justify it.
MCFairness ==
  /\ WF_updateVars(part = "update" /\ U!Fetch("job"))
  /\ \A r \in U!Runs : WF_updateVars(part = "update" /\ U!Goon(r))
  /\ WF_feedVars(part = "feed" /\ F!Elapses)
  /\ \A f \in Fetchers : WF_feedVars(part = "feed" /\ F!Goon(f))

MCSpec == MCInit /\ [][MCNext]_<<part, operatorVars, riderVars, noticeVars, edgeVars>> /\ MCFairness

\* What part does not exercise stays as it was.
AllTypesOK ==
  CASE part = "update" -> U!TypeOK
    [] part = "bundle" -> BundleTypeOK
    [] part \in {"trips", "routes"} -> ResolverTypeOK
    [] part = "archives" -> V!TypeOK
    [] part \in {"reminders", "timetables"} -> ReminderTypeOK
    [] part = "planner" -> J!TypeOK
    [] part = "feed" -> F!TypeOK
    [] part = "limiter" -> LimiterTypeOK
    [] part = "exits" -> ExitTypeOK
    [] part = "accounts" -> AccountTypeOK
    [] part \in {"alerts", "inbox"} -> NoticeTypeOK
    [] part = "nudges" -> NudgeTypeOK
    [] part = "refiner" -> RefinementTypeOK
    [] part = "questions" -> Len(question) <= 5

\* See the modules.
FeedsAreFollowed == (part = "update" => U!FeedIsFollowed) /\ (part = "feed" => F!FeedComesBack)

(***************************************************************************)
(* The pure functions answer rightly: see modules GtfsValidation, Reminders,*)
(* JourneyPlanner and TrainOnTrip.  Stations in the order of the trip, two *)
(* views of a train that agree, ETAs in order, a scheduled train shown     *)
(* where the timetable has it, the delay of the right service day, the     *)
(* dwells of the history.                                                  *)
(***************************************************************************)
TrainAnswersAreRight ==
  question # <<>> /\ question[1] \in {"where", "schedule", "delay", "dwell", "speed"} =>
    CASE question[1] = "where" ->
           /\ T!StopsInOrder(question[2])
           /\ T!ViewsAgree(question[2], question[3])
           /\ \A seen \in Sights : T!EtasInOrder(question[2], question[3], seen)
      [] question[1] = "schedule" -> T!ScheduleIsShown(question[2], question[3])
      [] question[1] = "delay" -> T!DelayIsOfItsDay(1, question[2], question[3])
      [] question[1] = "speed" -> T!SpeedIsMeasured(question[2], 6)
      [] question[1] = "dwell" -> T!BoutsAreRuns(question[2])

\* What the open-data loaders make of their files: see module StationMatching.
LoadsAreRight ==
  question # <<>> /\ question[1] \in LoaderNames =>
    CASE question[1] = "gates" -> L!GatesAreRight(question[2], FileStops)
      [] question[1] = "registry" -> L!CodesAreRight(question[2], FileStops)
      [] question[1] = "official" -> L!OfficialAreRight(question[2], FileCodes, FileStops, {1})
      [] question[1] = "hourly" -> L!HourlyIsRight(question[2], FileCodes)
      [] question[1] = "destinations" -> L!TopIsRight(question[2], FileCodes)
      [] question[1] = "paths" -> L!AccessibilityIsRight(OldTable, question[2], FileCodes, FileStops)
      [] question[1] = "parking" -> L!FacilitiesAreRight(OldTable, question[2], FileStops)
      [] question[1] = "lastmile" -> L!LastMileIsRight(question[2], FileStops)
      [] question[1] = "rail" -> L!ConnectionIsRight(question[2], FileStops)

\* What riders are told: see modules BoardingAdvice, StationAdvice,
\* CommuteAdvice, JourneyTools and RideTracking.
AdviceIsRight ==
  question # <<>> /\ question[1] \in AdviceNames =>
    CASE question[1] = "coach" -> B!CoachesAreRight(question[2], question[3], StationGates, question[4], question[5])
      [] question[1] = "exit" -> B!ExitsAreRanked(StationGates, question[2], question[3], question[4])
      [] question[1] = "crowd" -> S!ForecastIsRight(question[2], question[3], question[4])
      [] question[1] = "stepfree" -> S!GatesAreStepFree({"g", "h"}, {"l"}, {"p"}, question[2])
      [] question[1] = "parkride" -> S!ParkingIsRight(question[2], [a |-> 0, b |-> 4], "c", question[3], 1)
      [] question[1] = "options" -> S!OptionsAreRight(question[2], question[3])
      [] question[1] = "places" -> /\ C!PlacesAreRight(question[2], question[3], {"a", "b"})
                                   /\ C!PredictionIsRight(question[2], question[3], {"a", "b"})
      [] question[1] = "delay due" -> C!DelayIsRight(question[2], Planned, question[3], question[4])
      [] question[1] = "recommend" -> C!RecommendationIsRight(question[2], 20)
      [] question[1] = "card" -> C!CardIsRight(question[2], question[3], 2, question[4], Ridden)
      [] question[1] = "fares" -> C!FaresAreRight(question[2], FarePlaces, 50)
      [] question[1] = "latest" -> Q!LatestIsRight(question[2], question[3], question[4])
      [] question[1] = "meet" -> Q!MeetingIsFair(question[2], question[3])
      [] question[1] = "ride" -> H!RideIsTracked(question[2], question[3])
      [] question[1] = "stops" -> H!StopsAreCounted(question[2])
      [] question[1] = "progress" -> H!ProgressAgrees(question[2], question[3], question[4])

\* What is made of the live feed: see modules FeedDecoder and Notices.
FeedsAreShown ==
  question # <<>> /\ question[1] \in FeedNames =>
    CASE question[1] = "feed" -> D!DecodedAreRight(question[2], question[3], {9})
      [] question[1] = "trains" -> D!TrainsAreRight(question[2], question[3], Known, 7 :> "seven", 6, 3)
      [] question[1] = "updates" -> D!UpdatesAreUsed(question[2], Known)
      [] question[1] = "objects" -> W!ObjectsAreRead(question[2], question[3])
      [] question[1] = "fleet" -> W!FleetIsRefreshed(question[2], WireFleet(question[3]))
      [] question[1] = "facts" -> W!FactsRebuildTheFleet(WireFleet(question[2]), WireFleet(question[3]), question[4])
      [] question[1] = "events" -> Y!EventsAreCounted(question[2], question[3])
      [] question[1] = "history" -> Y!HistoryEndsWhereTrainsAre(question[2])
      [] question[1] = "reports" -> ReportsAreCounted(question[2], question[3])

AnswersAreRight ==
  /\ part = "update" => U!EtagIsLoaded
  /\ part = "feed" => F!OpensForCause
  /\ part = "archives" => V!AcceptedArchivesLoad
  /\ part = "timetables" => NextTrainIsTheNext /\ OnlyMidnightHidesTrains
  /\ part = "planner" => J!PlansAreRight
  /\ TrainAnswersAreRight
  /\ FeedsAreShown
=============================================================================
