SPECIFICATION FairSpec
CONSTANTS
  Ts <- FilmTs
  Duration <- FilmDuration
  Keys <- FilmKeys
  Damaged = {}
  Positions <- FilmPositions
  Batch = 7
  Threshold = 1
  StepValue = 5
  Mode = "All"
  MaxCommands = 1
  MayThrow = FALSE
INVARIANTS EndOfStreamIsFine
CHECK_DEADLOCK FALSE
