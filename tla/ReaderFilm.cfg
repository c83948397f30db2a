SPECIFICATION FairSpec
CONSTANTS
  Ts <- FilmTs
  Duration <- FilmDuration
  Keys <- FilmKeys
  Damaged = {}
  Positions <- FilmPositions
  Batch = 3
  Threshold = 1
  StepValue = 5
  Mode = "All"
  MaxCommands = 4
  MayThrow = FALSE
INVARIANTS TypeOK ObserversKnow SeekEndsOnTarget
PROPERTIES FramesInOrder StepsBackOneFrame
CHECK_DEADLOCK FALSE
