CONSTANTS
  Timeout = 60
  Poll = 2
  Retries = 1
  Chunks = 1
  Codes = {"ok", "unreachable"}
SPECIFICATION Spec
INVARIANTS
  RunsOnceAndWhole
PROPERTIES
  CallEnds
CHECK_DEADLOCK FALSE
