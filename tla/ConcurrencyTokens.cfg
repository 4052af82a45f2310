\* Token-only callers: a semaphore with rescaling, timeouts and a breaker.
SPECIFICATION Spec
CONSTANTS
  c1 = c1
  c2 = c2
  c3 = c3
  c4 = c4
  Callers = {c1, c2, c3, c4}
  AskedPriorities = {0, 1, 2}
  InitialLimit = 2
  SettableLimits = {1}
  MaxConcurrency = 3
  CircuitThreshold = 5
  HalfOpenSuccess = 2
  ScaleUpStreak = 3
  ScaleDownStreak = 2
  DirectReleases = FALSE
SYMMETRY CallerSymmetry
INVARIANT TypeOK
PROPERTIES ImplementsAdmission CircuitCycle QueueDiscipline
