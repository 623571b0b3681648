SPECIFICATION FairSpec
CONSTANTS
  NumJobs = 3
  Schedule <- MCSchedule3
  Callers = {c1}
  MaxTime = 4
  MaxCalls = 5
  MaxEdits = 0
  EditsDuringRuns = FALSE
INVARIANTS TypeOK TimerCoversJobs DueListIsFresh SavedWhenIdle
PROPERTIES HonoursCommands OneShotNotRepeated DueJobStarts
CHECK_DEADLOCK FALSE
