SPECIFICATION Spec
CONSTANTS
  Root = r
  Branches = {r, a, c}
  Children <- ForkOnce
  Policy = "ParallelNoWait"
  Failing = {a, c}
  Submitters = {t1}
  MaxFrames = 2
  MaxStops = 1
INVARIANTS TypeOK SpawnsOnlyUnjoinable 
PROPERTIES ImplementsFrameFlow
SYMMETRY ChildrenAlike
CHECK_DEADLOCK FALSE
