SPECIFICATION FairSpec
CONSTANTS
  Batch = 2
  MaxLen = 2
  MaxEntries = 4
  MaxCrashes = 2
  MaxReadErrors = 1
  MaxDisconnects = 1
  MaxLosses = 1
INVARIANTS TypeOK AckedWasHandled RedeliveryNeedsRestart HandlesInOrder
PROPERTIES PromiseKept PendingIsSettled
CHECK_DEADLOCK FALSE
