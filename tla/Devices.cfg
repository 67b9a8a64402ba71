SPECIFICATION DevicesSpec
CONSTANTS
  KEYBOARD_BUFFER_SIZE = 3
  KeyLetters = {"a"}
  KeyDigits = {"1"}
  Modifiers = {"lshift", "rshift", "ctrl"}
  MaxTyped = 3
  CONSOLE_CMD_MAX_LEN = 6
  MAX_COMMANDS = 3
  NAME_MAX = 2
  MAX_ARGS = 2
  ConKeys = {"p", "q", " "}
  VGA_WIDTH = 3
  VGA_HEIGHT = 2
  TAB = 2
  ScreenChars = {"a", "nl", "tab", "bs", "cr"}
  KLOG_NOTICE = 5
  MaxPrinted = 4
  FifoDepth = 2
  MaxSent = 3
  MaxReceived = 3
  MoveSizes = {5, 130}
  MaxPackets = 2
  XMax = 639
  YMax = 199
  PIT_HZ = 200
  UintMod = 4096
  SleepTimes = {0, 7, 30}
  WATCHDOG_TIMEOUT_MS = 7
  WatchdogTimeouts = {0, 4}
  MaxMs = 16
  CountMod = 2
  LbaMod = 4
  Counts = {0, 1, 2, 3}
  MaxCalls = 2
  Callers = {k1, k2}
  BootMasks = {184, 255}
  MaskedIrqs = {1, 5, 12}
  RedirCount = 2
  Vectors = {33, 40}
  Apics = {0, 1}
  DmaChannels = {1, 2, 5}
  DmaWords = {258, 769}
  MaxDma = 3
INVARIANTS
  ConsoleRuns
  
  
  Ps2Sound
  ClocksRight
  
  
PROPERTIES
  KeysDelivered
CHECK_DEADLOCK FALSE
