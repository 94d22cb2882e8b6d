CONSTANTS
  main = main
  t1 = t1
  t2 = t2
  s1 = s1
  Idle = Idle
  Threads <- MCThreads
  Semas = {s1}
  InitValue <- MCInitValue
  MaxValue = 2
  Priorities = {0, 1}
  TIME_SLICE = 2
SPECIFICATION FairSpec
INVARIANT OneListPerThread
PROPERTIES ImplementsSemaphore Progress
