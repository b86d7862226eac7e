CONSTANTS
  Parts = {"fires", "timers", "sockets", "tokens"}
  Routines = {"a", "h"}
  HasTimer = {"a"}
  HasApi = {"h"}
  HookEvent <- Events
  HookOnce <- Once
  MaxTicks <- Tick
  MaxRunsPerDay <- Cap
  MaxQueueDepth = 1
  MaxDeferred = 1
  MaxRuns = 2
  MaxDay = 2
  MaxSessions = 2
  ByHand = {"a"}
  MaxEdits = 1
  TriggerKinds = {"pulse", "cron", "oneoff", "github", "hook"}
  PageSize = 2
  MaxVersions = 2
  MaxEvents = 3
  MaxTimers = 4
  Interval = 4
  BACKOFF_THRESHOLD = 2
  BACKOFF_FACTOR = 2
  BACKOFF_MAX_MULTIPLIER = 32
  BACKOFF_MAX_INTERVAL = 10
  MaxStreak = 2
  Calls = {"c1", "c2"}
  Ports = {"p1", "p2"}
  Requests = {"q1"}
  Capacity = 1
  MaxTokens = 2
SPECIFICATION RoutinesSpec
INVARIANT FireAccounted
INVARIANT TriggersExact
INVARIANT ServerSound
PROPERTY FiresExact
PROPERTY NoStarvation
CHECK_DEADLOCK FALSE
