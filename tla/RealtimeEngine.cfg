SPECIFICATION Spec
CONSTANTS
  Vehicles = {v1, v2}
  Stamps = {1}
  Fixes = {f1, f2}
  Absent = Absent
  Pollers = {"job"}
  MaxSequence = 3
  MaxFailures = 2
  MaxCrashes = 1

SYMMETRY Symmetry
INVARIANTS TypeOK DriftIsConfined CacheHasNoOrphans
PROPERTIES AnnouncedIsRecorded StreamIsOrdered
CHECK_DEADLOCK FALSE
