SPECIFICATION Spec
CONSTANTS
  NumJobs = 3
  Schedule <- MCScheduleEdited
  Callers = {c1}
  MaxTime = 4
  MaxCalls = 5
  MaxEdits = 2
  EditsDuringRuns = FALSE
PROPERTY HonoursCommands
CHECK_DEADLOCK FALSE
