SPECIFICATION CooperativeSpec
CONSTANTS
  N = 4
  MaxPid = 4
  Sleeps = {0, 2}
  Skew = 1
  IdleYields = {"READY"}
  DestroyStates = {"READY"}
INVARIANTS
  ReadyQueue
PROPERTIES
  RefinesRoundRobin
  ReadyRuns
