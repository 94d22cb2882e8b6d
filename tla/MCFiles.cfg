CONSTANTS
  p1 = p1
  p2 = p2
  p3 = p3
  i1 = i1
  i2 = i2
  i3 = i3
  a = a
  b = b
  NULL = NULL
  Procs = {p1, p2}
  Names = {a, b}
  Installed = {a}
  SectorCnt = 6
  Inodes = {i1, i2}
  FdSize = 4
  MaxData = 1
  MaxLost = 1
  Waits = TRUE
SYMMETRY Symmetric
VIEW AllButContent
CHECK_DEADLOCK FALSE
SPECIFICATION Spec
INVARIANTS RefsCounted SectorsOwned
PROPERTIES ExecutableNotWritten
