SPECIFICATION ProcessSpec
CONSTANTS
  WordSize = 64
  PageSize = 2
  UserTop = 16
  Slots = 5
  BinaryVa = 7
  BinarySize = 3
  FileVa = 40
  FileSize = 2
  MaxPages = 2
  Perms <- MCPerms
  CreateSizes = {2}
  DestroySizes = {0, 2}
  Touched = {0, 2, 4, 6, 7, 8, 10, 13}
  Lengths = {1, 2}
  Written = Written
  Garbage = Garbage
  NotMapped = NotMapped
PROPERTY
  NewAreasAreZero
\* a destroyed environment, a panic or a null pointer ends everything
CHECK_DEADLOCK FALSE
