\* Two missions in a row and every disruption.
SPECIFICATION Spec
CONSTANTS
  MaxMissions = 2
  MaxIterations = 2
  MaxPending = 1
  MaxHandlers = 2
  DoneHookRuns = TRUE
  Disruptions = {"stop", "chat", "lost", "error", "crash", "compaction", "repetition", "delegation", "deletion", "reload", "silence"}
INVARIANT CompletedOnce
PROPERTIES NoGhostMission GuardsHold
CHECK_DEADLOCK FALSE
