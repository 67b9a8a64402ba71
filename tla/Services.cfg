SPECIFICATION ServicesSpec
CONSTANTS
  Raised = {2, 3, 8, 9, 13, 17, 18, 21, 29, 30, 32, 33, 80, 128}
  DESC_COUNT = 3
  TX_BUFFER_SIZE = 2
  RxRoom = 2
  PacketSizes = {1, 3}
  MaxPackets = 4
  Senders = {s1, s2}
  ARP_TABLE_SIZE = 2
  ROUTE_TABLE_SIZE = 2
  NIC_MAX_INTERFACES = 2
  Hosts = {h1, h2, h3}
  Macs = {m1, m2}
  AddressBits = {0, 1}
  FrameLengths = {1, 2}
  MaxCalls = 5
  Unused = Unused
  MAX_BLOCK_DEVICES = 2
  DEVFS_MAX_DEVICES = 6
  VFS_MAX_MOUNTS = 3
  DeviceNames = {"null", "hda"}
  MaxRegistered = 4
  Partitions = {10, 20}
  ENTRIES_PER_SECTOR = 2
  WORD = 65536
  TMPFS_MIN = 2
  TMPFS_MAX_SIZE = 8
  Bytes = {1, 2}
  Offsets = {0, 1, 4, 7}
  Counts = {1, 2, 4}
  MaxWrites = 3
  TAR_BLOCK_SIZE = 4
  TarSizes = {0, 4, 9}
  MaxTarFiles = 3
  INITRD_MAX_FILES = 2
  InitrdSizes = {0, 2}
  MaxTags = 3
  MmapEntrySize = 24
  MaxLine = 5
  PAGE = 2
  Frames = 3
  SegmentStarts = {0, 1, 2, 4}
  MaxSegment = 3
  PCI_MAX_BUSES = 2
  PCI_MAX_DEVICES = 2
  PCI_MAX_FUNCTIONS = 2
  PCI_LIMIT = 3
  BARS = 3
  Half = 256
  BarAddresses = {16, 32, 272, 528}
  MaxTables = 3
  T = 4
  InfoPointers = {3, 5}
  SPT = 18
  HEADS = 2
  SectorCounts = {0, 1, 17, 40, 300}
  ImageBase = 2
  LoadBase = 4
  MaxBytes = 2
INVARIANTS
  
  RingsInOrder
  NetworkTables
  StorageReadsBack
  
  
  
CHECK_DEADLOCK FALSE
