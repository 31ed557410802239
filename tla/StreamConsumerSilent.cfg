SPECIFICATION FairSpec
CONSTANTS
  Batch = 1
  MaxLen = 2
  MaxEntries = 2
  MaxCrashes = 0
  MaxReadErrors = 0
  MaxDisconnects = 1
  MaxLosses = 0
PROPERTIES EveryEventIsDelivered
CHECK_DEADLOCK FALSE
