SPECIFICATION Spec
CONSTANTS
  NumJobs = 2
  Schedule <- MCSchedule2
  Callers = {}
  MaxTime = 3
  MaxCalls = 3
  MaxEdits = 0
  EditsDuringRuns = FALSE
PROPERTY OneTimeRunsOnce
CHECK_DEADLOCK FALSE
