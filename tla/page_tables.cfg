SPECIFICATION Spec
CONSTANTS
  NPages = 9
  HugeSize = 3
  Reserved <- MCReserved
  MaxRef = 5
  NULL = NULL
  Depth = 3
  Vas <- MCVas
INVARIANTS
  TypeOK
  RefsExact
  AllocatorOK
  TablesOwned
  TlbCoherent
PROPERTY
  ImplementsAddressSpace
