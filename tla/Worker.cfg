SPECIFICATION FairSpec
CONSTANTS
  MaxData = 3
  MaxStops = 2
  MaxPauses = 2
  MayThrow = TRUE
INVARIANTS TypeOK TakesInOrder NoSleepOverData StopDropsEarlierData
PROPERTIES EveryDatumIsTaken
CHECK_DEADLOCK FALSE
