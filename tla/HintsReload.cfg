SPECIFICATION MCSpec
CONSTANTS
  Clients = {c1, c2}
  Cost = 2
  Burst = 4
  IdleEvict = 4
  MaxTracked = 1
  MaxTime = 8
  Versions = {v1, v2}
  Requests = {q1, q2}
  MaxLoads = 3
  DayLength = 4
  WeekLength = 2
  LastDay = 2
  MaxPublished = 2
  MaxCrashes = 1
  MaxByHand = 1
  Callers = {k1, k2, k3}
  MaxBuilds = 3
  MaxReloads = 2
  EarlyHours = 1
  Lead = 2
  Timetables <- SampleTimetables
  Rows = {r1}
  MaxAhead = 1
  MaxFailures = 1
  Fetchers = {f1, f2}
  MaxAttempts = 2
  Threshold = 3
  Cooldown = 2
  MaxOutages = 2
  Riders = {u1, u2}
  MinConfirmations = 2
  MaxIds = 3
  MaxReports = 2
  Coaches = {1}
  ClaimRoutes = {"red"}
  AnyRoute = ""
  OsmGates <- OsmFile
  OfficialGates <- OfficialFile
  ApiCalls = {1, 2}
  Labels = {home}
  MaxReads = 2
  MaxLosses = 1
  Writers = {1, 2}
  PageSize = 2
  MaxAlerts = 2
  MaxAlertTime = 2
  MaxRows = 3
  Commuters = {1, 2}
  LocalOffset = 1
  DayHours = 4
  LeadTime = 2
  Grace = 1
  MaxNow = 3
  MaxHabits = 2
  MaxFailed = 1
  Providers = 2
  Nudges <- SampleNudges
  Delays = {1, 6}
  MinSamples = 2
  MaxBuckets = 2
  MaxAge = 1
  LeastBound = 2
  MaxClock = 1
  MaxRides = 1
  MaxAborts = 1
  Null = null
  Unreadable = unreadable
  Foreign = foreign
  Off = off
  Zero = zero
PROPERTIES
  HintsOutliveReloads
CHECK_DEADLOCK FALSE
