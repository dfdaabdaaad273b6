\* Two processes, three runs of the update, two backup names per version.
CONSTANTS
  Processes = {p1, p2}
  MaxVersion = 2
  Attempts = 2
  MaxRuns = 3
SPECIFICATION Spec
INVARIANTS DestWhole RollbackKept
CHECK_DEADLOCK FALSE
