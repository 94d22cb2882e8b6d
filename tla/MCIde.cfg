CONSTANTS
  t1 = t1
  t2 = t2
  s1 = s1
  s2 = s2
  v1 = v1
  v2 = v2
  NULL = NULL
  Threads = {t1, t2}
  Sectors = {s1, s2}
  Values = {v1, v2}
CHECK_DEADLOCK FALSE
SPECIFICATION FairSpec
INVARIANTS OneCommand
PROPERTIES ImplementsBlock CallsReturn
