SPECIFICATION Spec
CONSTANTS
  Rules = {"often", "rare"}
  Occurrences <- MCOccurrences
  Jobs = {1, 2}
  NoJob = NoJob
  Fires = {1, 2}
  Cap = 2
  Grace = 1
  Tolerance = 1
  MaxTime = 4
  MaxSets = 1
CHECK_DEADLOCK FALSE
INVARIANTS
  TypeOK
  OneFireAtATime
  ScheduleFollowsRow
  FiredOnce
  DeadTaskWindsDown
  SessionsAreRecorded
