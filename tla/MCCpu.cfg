CONSTANTS
  Procs = {p1, p2}
  Kernel = k
  Pages = {1, 2}
  Writable = {2}
  Tracked = {"D"}
  pd_no <- MCpd_no
  Vectors = {32, 47}
  KernelCnt = 4
  UserCnt = 2
  NULL = NULL
  init_page_dir = init_page_dir
SYMMETRY Symmetry
VIEW AllButStaleCr2
SPECIFICATION Spec
INVARIANT CpuOfRunning
INVARIANT TlbCoherent
INVARIANT FaultAddressOwn
INVARIANT FramesAccounted
