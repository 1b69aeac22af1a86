CONSTANTS
  Program = {r1, r2}
  Child = {c}
  Forker = r1
  Threaded = {r1}
  MaxEvents = 2
  MaxCalls = 3
SPECIFICATION Spec
INVARIANTS
  LogIsKept
CHECK_DEADLOCK FALSE
