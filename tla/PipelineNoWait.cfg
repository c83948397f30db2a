SPECIFICATION FairSpec
CONSTANTS
  Root = r
  Branches = {r, a, c}
  Children <- ForkOnce
  Policy = "ParallelNoWait"
  Failing = {a}
  Submitters = {t1, t2}
  MaxFrames = 2
  MaxStops = 0
INVARIANTS SingleFlight NeverAborts
PROPERTIES BranchesFreeUp
CHECK_DEADLOCK FALSE
