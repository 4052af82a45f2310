\* What must eventually happen, part by part.
SPECIFICATION Spec
CONSTANT Parts = {"tasks", "retries", "mission", "shutdown"}
INVARIANTS LivenessTypeOK
PROPERTIES PendingSettles MissionContinues EveryHandlerCalled
CHECK_DEADLOCK FALSE
