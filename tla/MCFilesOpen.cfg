CONSTANTS
  p1 = p1
  p2 = p2
  p3 = p3
  i1 = i1
  i2 = i2
  i3 = i3
  a = a
  b = b
  NULL = NULL
  Procs = {p1, p2, p3}
  Names = {a, b}
  Installed = {a, b}
  SectorCnt = 6
  Inodes = {i1, i2, i3}
  FdSize = 3
  MaxData = 0
  MaxLost = 0
  Waits = FALSE
SYMMETRY Symmetric
CHECK_DEADLOCK FALSE
SPECIFICATION Spec
INVARIANT OneInodePerSector
