SPECIFICATION FairSpec
CONSTANTS
  MaxData = 1
  MaxStops = 1
  MaxPauses = 0
  MayThrow = FALSE
PROPERTIES StopReturns
CHECK_DEADLOCK FALSE
