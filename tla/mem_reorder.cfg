SPECIFICATION ReorderSpec
CONSTANTS
  Space = 8
  MaxMappings = 3
  Heap = {"calloc1", "calloc2"}
  Shared = {"LINEmembuffer"}
  GdbPort = FALSE
  Ranges <- FourRanges
  Starts <- LinearStart
  Lengths = {4}
  MaxAccesses = 2
INVARIANTS
  MapTypeOK
  OverlapsEnclose
  BusiestFirst
PROPERTIES
  ImplementsMemMap
  ImplementsAddressSpace
  LookupsStay
CHECK_DEADLOCK FALSE
