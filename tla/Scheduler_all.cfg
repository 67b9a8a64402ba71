SPECIFICATION KernelSpec
CONSTANTS
  N = 4
  MaxPid = 4
  Sleeps = {0, 2}
  Skew = 0
  IdleYields = {"READY", "RUNNING"}
  DestroyStates = {"READY", "RUNNING", "BLOCKED", "ZOMBIE"}
INVARIANTS
  NoStackLeak
PROPERTIES
  SchedulerReturns
