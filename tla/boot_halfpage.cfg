SPECIFICATION Spec
CONSTANTS
  NPages = 56
  HugeSize = 8
  NULL = NULL
  PageSize = 32
  Maps <- MCMaps
  MpEntry = 2
  ElfHdr = 9
  IoHole = 15
  KernelLma = 16
  KernelEnd = 18
  LowLimit = 24
  InfoSize = 1
  EnvSize = 20
  VmaListSize = 40
  NEnv = 2
  StackSize = 2
  AllPages = 64
INVARIANTS
  OnlyFreeMemory
CHECK_DEADLOCK FALSE
