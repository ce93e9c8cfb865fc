SPECIFICATION EnvSpec
CONSTANTS
  NPages = 13
  HugeSize = 3
  Reserved <- MCReserved
  MaxRef = 2
  NULL = NULL
  Depth = 4
  Vas <- MCVas
  Ranges <- OnePage
  KernPml4 = 0
  PagesArray = 1
  SharedVa <- MCSharedVa
  UserTop = 1
  KernelVma = 2
  NEnv = 2
  GenShift = 2
  EnvIds <- MCEnvIds
INVARIANTS
  CountsWhileAlive
  RangeUnmapped
  SharedPartSame
  NothingKept
PROPERTIES
  UnmapKeepsTheRest
  EmptyTableFreed
CHECK_DEADLOCK FALSE
