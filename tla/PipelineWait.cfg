SPECIFICATION Spec
CONSTANTS
  Root = r
  Branches = {r, a, c}
  Children <- ForkOnce
  Policy = "ParallelWait"
  Failing = {a}
  Submitters = {t1}
  MaxFrames = 2
  MaxStops = 0
INVARIANTS WaitedMapIsWhole
CHECK_DEADLOCK FALSE
