\* One compaction, and the idle handler alone to go on after it.
SPECIFICATION FairSpec
CONSTANTS
  MaxMissions = 1
  MaxIterations = 2
  MaxPending = 1
  MaxHandlers = 1
  DoneHookRuns = FALSE
  Disruptions = {"compaction"}
PROPERTIES MissionContinues
CHECK_DEADLOCK FALSE
