CONSTANTS
  first = first
  p1 = p1
  p2 = p2
  NULL = NULL
  Threads = {first, p1, p2}
  Semas <- MCSemas
  InitValue <- MCInitValue
  MaxValue = 2
CHECK_DEADLOCK FALSE
SPECIFICATION Spec
INVARIANT StatusIsFinal
