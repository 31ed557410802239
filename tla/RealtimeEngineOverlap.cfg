SPECIFICATION Spec
CONSTANTS
  Vehicles = {v1}
  Stamps = {1}
  Fixes = {f1}
  Absent = Absent
  Pollers = {"job", "prime"}
  MaxSequence = 2
  MaxFailures = 0
  MaxCrashes = 0
INVARIANTS PollsDoNotOverlap
CHECK_DEADLOCK FALSE
