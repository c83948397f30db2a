SPECIFICATION FairSpec
CONSTANTS
  Ids = {0, 1, 2, 3, 4}
  Input = 0
  None = None
  MaxLinks = 4
  MaxRuns = 3
INVARIANTS TypeOK TreeIsCut RunsFollowParents
PROPERTIES LoopFreeEnds
CHECK_DEADLOCK FALSE
