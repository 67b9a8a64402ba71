SPECIFICATION FairSpec
CONSTANTS
  N = 3
  Lines = {0, 1, 7, 8, 15}
  Ticks = {1}
INVARIANTS
  InServiceDrained

  
