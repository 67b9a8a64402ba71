SPECIFICATION LibrarySpec
CONSTANTS
  RbSize = 8
  RbKeys = {1, 2, 3}
  RbRemoves = 1
  SizeMod = 256
  ListNodes = 3
  QueueNodes = 3
  QueueData = {1, 2}
  capacity = 3
  MaxPushes = 5
  MaxDepth = 8
  Values = {1, 2, 3}
  MaxLen = 5
  IntBits = 4
  LongBits = 6
  Bases = {2, 10, 16, 36}
  Widths = {0, 2, 6}
  Letters = {65, 66}
  MaxString = 3
  SomeBytes = {0, 77, 255}
  MaxBytes = 4
  ByteBits = 2
  WordBytes = 4
  BitmapBytes = 3
INVARIANTS
  RbSound
  ListsSound
  RingFifo
  SortingSound
  TextAgrees
  BitsSound
CHECK_DEADLOCK FALSE
