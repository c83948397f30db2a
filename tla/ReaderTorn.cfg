SPECIFICATION FairSpec
CONSTANTS
  Ts <- TornTs
  Duration <- TornDuration
  Keys <- TornKeys
  Damaged <- TornDamaged
  Positions <- TornPositions
  Batch = 2
  Threshold = 1
  StepValue = 4
  Mode = "KeyFrame"
  MaxCommands = 3
  MayThrow = TRUE
PROPERTIES ShowsFramesBeforeKeys CommandsEnd
CHECK_DEADLOCK FALSE
