SPECIFICATION DependenciesSpec
CONSTANTS
  Proc = {"p1", "p2"}
  Hash = {"a", "b"}
  MaxCalls = 3
  MaxClock = 1
  MaxSyncs = 1
  Platform = {"mac", "win"}
  MaxJobs = 2
  MaxRuns = 2
  Retries = 3
  MaxConfigs = 2
  MaxLookups = 1
INVARIANTS OneHolderAtATime FetchIsTrue AllOrNothing
CHECK_DEADLOCK FALSE
