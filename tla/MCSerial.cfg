CONSTANTS
  w1 = w1
  w2 = w2
  r1 = r1
  r2 = r2
  NULL = NULL
  Writers = {w1, w2}
  Readers = {r1, r2}
  INTQ_BUFSIZE = 3
  Labels = 6
SPECIFICATION FairSpec
INVARIANTS InOrder WaitsArmed
PROPERTY Progress
