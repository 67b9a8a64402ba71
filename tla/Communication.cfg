SPECIFICATION CommSpec
CONSTANTS
  Pids = {1, 2}
  Cap = 2
  MaxMsgs = 3
  Filters = {0, 1, 2}
  PIPE_MAX_PIPES = 4
  PIPE_BUF_SIZE = 3
  Bytes = {1, 2}
  MaxCount = 2
  MaxCloses = 1
  SHM_MAX_REGIONS = 2
  Window = 2
  Names = {1, 2}
  Long = {2}
  Sizes = {1, 2, 3}
  MaxFrames = 8
  MaxRefs = 2
  Procs = {p1, p2, p3}
  Initial = 1
  Cpus = {c1, c2}
  Threads = {t1, t2}
  PageCount = 3
  PagesPerByte = 2
  SlotCount = 3
  MaxPid = 4
  RingSize = 2
  MaxSends = 4
INVARIANTS
  
  
  PreemptionSafe
PROPERTIES
  MessagesKept
  
  
