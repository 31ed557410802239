SPECIFICATION Spec
CONSTANTS
  Vehicles = {v1}
  Stamps = {1}
  Fixes = {f1}
  Absent = Absent
  Pollers = {"job"}
  MaxSequence = 1
  MaxFailures = 1
  MaxCrashes = 0

PROPERTIES FailedCycleLeavesStateUntouched
CHECK_DEADLOCK FALSE
