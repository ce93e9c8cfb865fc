SPECIFICATION Spec
CONSTANTS
  NPages = 9
  HugeSize = 3
  Reserved <- MCReserved
  MaxRef = 2
  NULL = NULL
INVARIANTS
  TypeOK
  FreeListOK
  FramesPartitioned
  NoPanic
  OutOfMemoryIsReal
  StepsAreTheLoops
PROPERTIES
  ImplementsFramePool
