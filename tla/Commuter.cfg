SPECIFICATION MCSpec
CONSTANTS
  Requests = {r1}
  Reminders = {"delay"}
  MaxJourneys = 2
  MaxFailures = 1
  Callers = {r1, r2}
  MaxAlerts = 2
  MaxAborts = 1
  Devices = {r1, r2}
  MaxShares = 2
  Handlers = {h1, h2, h3}
  MaxLoops = 2
  BatchSize = 2
  MaxBuffered = 3
  MaxEvents = 4
  MaxTaps = 3
  MaxRefusals = 1
INVARIANTS AllTypesOK AlertFiresOnce LiveSharesComeFromRaces StraysComeFromOverlaps NothingKeptAfterWithdrawal StoredAgainOnlyIfUnanswered
PROPERTIES LifecyclesEnd
