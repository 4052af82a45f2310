\* Sessions with and without a mission.
SPECIFICATION Spec
CONSTANTS
  Parts = {"manager"}
  Commands = {1, 2}
  Consumers = {1, 2, 3}
  Iterating = {3}
  MaxPushes = 4
  WorkerIds = {1, 2}
  Items = {1, 2, 3, 4}
  InitialCapacity = 2
  MaxStarts = 2
  MaxMoves = 5
  IdleEvents = {1, 2, 3}
  Errors = {1, 2}
  MaxAttempts = 1
  SessionIds = {"s1", "s2", "s3"}
  NoSession = "none"
  Threshold = 3
  HookThreshold = 2
  MaxTodos = 1
  MaxPrompts = 1
  IdleChecks = {1, 2}
  Depths = {1, 2}
  TerminalDepth = 2
  MaxPollCount = 6
  StablePollsRequired = 2
  MaxMessages = 3
  LongestChain = 2
  MaxSedRuns = 2
  OldSessions = {"s1"}
  NewSessions = {"s2"}
  Modules = {"m1"}
  Current = {}
\* One file more than the limit, if nobody else cleans up.
  MaxFiles = 5
  TodoCalls = {1, 2}
  Job <- TodoJobs
  Process <- OneProcess
  TodoItems = {"t1", "t2", "s1"}
  FirstListed = {"t1", "t2"}
  Tries = 2
  Attempts = 2
  MaxFailures = 1
  MaxReloads = 2
  Machines <- LinuxMachines
  KeptBackups = 1
  MaxRuns = 3
  MaxEdits = 1
  Fetchers = {1, 2}
  Urls = {"u1", "u2", "u3"}
  FileName <- NamesThatCollide
  MaxClock = 1
  MaxFetches = 3
  SizeLimit = 1
  RetryLimit = 2
  Concurrency = 2
  WorkItems = {1, 2, 3}
  MaxLoopFailures = 4
  TaskIds = {1, 2, 3}
  PoolSize = 2
  MaxTasks = 1
  MaxTaskRetries = 1
  MaxGcs = 2
  TodoLines <- LinesOfTodo
  ChecklistLines <- LinesOfChecklist
  SyncLines = {"title", "heading", "errorHeading", "issue", "errorIssue", "text"}
  MaxLines = 2
  RustCalls = {1, 2, 3}
  RustProcs = {1, 2}
  MaxProcesses = 1
  Handlers = {1, 2, 3, 4, 5, 6}
  Priority <- ShutdownPriorities
INVARIANT OnlyMissionsAreTold
CHECK_DEADLOCK FALSE
