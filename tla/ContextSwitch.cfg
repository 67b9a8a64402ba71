SPECIFICATION Spec
CONSTANTS
  Procs = {p0, p1}
  First = p0
INVARIANT ReturnsIntoProcess
CHECK_DEADLOCK FALSE
