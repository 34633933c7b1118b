SPECIFICATION SvcSpec
CONSTANTS
  Space = 32
  MaxMappings = 3
  Heap = {"calloc1"}
  Shared = {"LINEmembuffer", "GSPsharedbuff"}
  GdbPort = FALSE
  Ranges = {}
  Starts = {}
  Lengths = {}
  Page = 2
  CodeBase = 2
  HeapBase = 4
  LinearBase = 12
  FontBase = 16
  LinearEnd = 20
  Addresses = {0, 4, 6}
  Sizes = {1, 2, 6}
  MaxBlocks = 2
  MaxLinear = 2
INVARIANTS
  GrantsAreServed
  MirrorsMeet
  BlocksApart
CHECK_DEADLOCK FALSE
