\* Callers that also release the key directly, as the task manager does, on a
\* key that is unlimited until a limit is set; one priority, as TaskLauncher
\* asks for; only the token timers are fair.
SPECIFICATION FairSpec
CONSTANTS
  c1 = c1
  c2 = c2
  c3 = c3
  c4 = c4
  Callers = {c1, c2, c3, c4}
  AskedPriorities = {1}
  InitialLimit = 0
  SettableLimits = {1, 2}
  MaxConcurrency = 2
  CircuitThreshold = 1
  HalfOpenSuccess = 1
  ScaleUpStreak = 2
  ScaleDownStreak = 1
  DirectReleases = TRUE
INVARIANTS EachCallOnce NoSlotLeak NoStrandedWaiter UnlimitedNeverWaits
PROPERTIES WaitersServed
