\* The token and the key are both released.
SPECIFICATION Spec
CONSTANTS
  t1 = t1
  t2 = t2
  t3 = t3
  NoTask = NoTask
  Tasks = {t1, t2, t3}
  InitialLimit = 1
  SettableLimits = {}
  MaxConcurrency = 1
  CircuitThreshold = 1
  HalfOpenSuccess = 1
  ScaleUpStreak = 1
  ScaleDownStreak = 1
  ErrorKinds = {"fatal"}
  MaxRetries = 1
  MaxEndings = 1
  MaxIdleChecks = 0
  MaxNotifications = 2
  MaxClears = 0
  Interruptions = {}
INVARIANTS LimitRespected
CHECK_DEADLOCK FALSE
