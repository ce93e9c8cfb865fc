SPECIFICATION ProcessSpec
CONSTANTS
  WordSize = 64
  PageSize = 2
  UserTop = 16
  Slots = 5
  BinaryVa = 7
  BinarySize = 3
  FileVa = 40
  FileSize = 2
  MaxPages = 3
  Perms <- MCPerms
  CreateSizes = {2, 4}
  DestroySizes = {2, 4}
  Touched = {0, 2, 4, 6, 7, 8}
  Lengths = {2, 63}
  Written = Written
  Garbage = Garbage
  NotMapped = NotMapped
INVARIANTS
  ProcessTypeOK
  ProgramPagesRight
  OnlyOwnBytes
PROPERTY
  DataStays
\* a destroyed environment, a panic or a null pointer ends everything
CHECK_DEADLOCK FALSE
