\* One task, everything that can happen to it, and a second one that waits.
SPECIFICATION Spec
CONSTANTS
  t1 = t1
  t2 = t2
  t3 = t3
  NoTask = NoTask
  Tasks = {t1, t2}
  InitialLimit = 1
  SettableLimits = {2}
  MaxConcurrency = 2
  CircuitThreshold = 1
  HalfOpenSuccess = 1
  ScaleUpStreak = 1
  ScaleDownStreak = 1
  ErrorKinds = {"endless", "bounded", "fatal"}
  MaxRetries = 2
  MaxEndings = 3
  MaxIdleChecks = 1
  MaxNotifications = 2
  MaxClears = 1
  Interruptions = {"cancel", "deleted", "expired"}
INVARIANTS KeyNeverStuck PendingTracked NothingLeftBehind
CHECK_DEADLOCK FALSE
CONSTRAINT SecondWaits
