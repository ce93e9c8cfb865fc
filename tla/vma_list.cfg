SPECIFICATION Spec
CONSTANTS
  WordSize = 44
  PageSize = 2
  UserTop = 20
  Slots = 5
  BinaryVa = 8
  BinarySize = 5
  Perms <- MCPerms
  CreateSizes = {2, 4}
  DestroySizes = {0, 2}
INVARIANTS
  TypeOK
  VisibleSorted
  DestroyUncovers
PROPERTY
  ImplementsAreaSet
\* a panic or a null pointer stops the kernel
CHECK_DEADLOCK FALSE
