SPECIFICATION FairUnmapSpec
CONSTANTS
  NPages = 9
  HugeSize = 3
  Reserved <- MCReserved
  MaxRef = 2
  NULL = NULL
  Depth = 4
  Vas <- MCVas
  Ranges <- OnePage
PROPERTY
  UnmapReturns
CHECK_DEADLOCK FALSE
