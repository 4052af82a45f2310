\* The last pending task fails.
SPECIFICATION Spec
CONSTANTS
  t1 = t1
  t2 = t2
  t3 = t3
  NoTask = NoTask
  Tasks = {t1, t2}
  InitialLimit = 2
  SettableLimits = {}
  MaxConcurrency = 2
  CircuitThreshold = 1
  HalfOpenSuccess = 1
  ScaleUpStreak = 1
  ScaleDownStreak = 1
  ErrorKinds = {"fatal"}
  MaxRetries = 1
  MaxEndings = 1
  MaxIdleChecks = 0
  MaxNotifications = 2
  MaxClears = 0
  Interruptions = {}
INVARIANTS PromiseKept
CHECK_DEADLOCK FALSE
