SPECIFICATION MemorySpec
CONSTANTS
  Base = 2
  End = 9
  Kernel = 1
  Counts = {1, 2, 3}
  Page = 4
  Header = 1
  Initial = 2
  MaxPages = 3
  Requests = {1, 2, 4}
  ObjCounts = {0, 2}
  MaxSlabs = 3
  Levels = 3
  PT_ENTRIES = 2
  Frames = {10, 11, 12, 13, 14, 15}
  PhysPages = {0, 1}
  Targets = {2, 6}
  NewFlags = {"W", "X"}
  MaxRange = 2
  EarlyPages = 1
INVARIANTS
  Exclusive
  
  HeapSound
  SlabSound
  TablesSound
PROPERTIES
  RefinesAddressMap
CHECK_DEADLOCK FALSE
