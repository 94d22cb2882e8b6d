CONSTANTS
  MaxElems = 4
  Values = {1, 2, 3}
  Chars = {1, 2}
  MaxStr = 4
  Bits <- MCBits
  BufSize = 8
  PerLine = 4
  Kilo = 3
  Raw <- MCRaw
  WordBits = 4
  IntBits = 8
  RandomSize = 4
  MaxArray = 5
  Keys = {1, 2, 3, 4}
  ElemBits = 3
  MaxBits = 5
  BLOCK_SECTOR_SIZE = 2
  Writers = {1, 2}
  Part <- MCPart
  Taken = {0, 1, 3}
  Sectors = {0, 1, 2, 3, 4, 5, 6}
  Length = 5
  Written = {1}
  NONE = NONE
  Elements <- MCElements
  NoElem = NoElem
  NoTable = NoTable
  MinBuckets = 2
  BEST_ELEMS_PER_BUCKET = 1
  hash <- MChash
  PGSIZE = 2
  PHYS_BASE = 8
  AddressBits = 4
  FileLength = 5
  UserPages = 3
  StackTop = 48
  Letters = {2, 3}
  MaxCommand = 6
  LineSize = 6
  ArgsSize = 2
  NameSize = 5
  SizeSize = 6
  LongBits = 14
  SectorSize = 2
  ScratchSize = 8
  MaxName = 6
  SectorBits = 4
  DiskSize = 6
  MaxNesting = 4
  MaxWords = 3
  Codes = {1, 2, 13, 14, 15, 16, 25, 26, 27, 28, 30, 38, 39, 41, 43, 44, 50, 51, 53, 55, 57, 83, 84}
  COL_CNT = 4
  ROW_CNT = 2
  TabStop = 2
  StartCursors = {0, 7}
  MaxText = 5
SPECIFICATION Spec
INVARIANT ListsRight
INVARIANT StringsRight
INVARIANT FormatRight
INVARIANT NumbersRight
INVARIANT BitmapsRight
INVARIANT LoadRight
INVARIANT FileBytesRight
INVARIANT ArchiveRight
INVARIANT BootRight
INVARIANT ConsoleRight
PROPERTY ImplementsDictionary
