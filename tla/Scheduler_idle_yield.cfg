SPECIFICATION Spec
CONSTANTS
  N = 3
  MaxPid = 3
  Sleeps = {0}
  Skew = 1
  IdleYields = {"READY", "RUNNING"}
  DestroyStates = {}
PROPERTY MoveToTail
