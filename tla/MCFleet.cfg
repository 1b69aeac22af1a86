CONSTANTS
  Dev = {d1, d2}
  Steps = 3
  MaxScripts = 2
  MaxTrouble = 1
SPECIFICATION FleetSpec
INVARIANTS
  FailuresAreListed
  UnlistedIsDone
CHECK_DEADLOCK FALSE
