SPECIFICATION Spec
SYMMETRY Symmetry
CONSTANTS
  Requests = {r1, r2}
  Reminders = {"delay"}
  MaxJourneys = 2
  MaxFailures = 1
INVARIANTS TypeOK ActivesComeFromRaces NotifiedOnce EventsExplainStatus
PROPERTIES EndedStaysEnded
