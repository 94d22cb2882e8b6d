CONSTANTS
  t1 = t1
  t2 = t2
  t3 = t3
  Lock = Lock
  NULL = NULL
  Threads <- MCThreads
  Semas <- MCSemas
  InitValue <- MCInitValue
  MaxValue = 1
SPECIFICATION FairSpec
INVARIANTS MutualExclusion AssertsHold SignalNotLost
PROPERTIES BroadcastWakesAll ImplementsSemaphore Progress
CHECK_DEADLOCK FALSE
