CONSTANTS
  t1 = t1
  t2 = t2
  d1 = d1
  d2 = d2
  NULL = NULL
  Threads <- MCThreads
  Descs <- MCDescs
  blocks_per_arena <- MCBlocks
  page_cnt = 2
  MaxGroup = 2
  MaxHeld = 2
SPECIFICATION FairSpec
INVARIANTS PagesAccounted BlocksAccounted
PROPERTIES CallsReturn
