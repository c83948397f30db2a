SPECIFICATION FairSpec
CONSTANTS
  Handlers = {h1, h2}
  PoolThreads = {w1, w2}
  MaxCalls = 2
  MaxEvents = 3
  Sources = {"camera", "cyclic", "reader"}
  FileCount = 2
  MaxStarts = 2
INVARIANTS TypeOK ListIsWanted FramesInFileOrder StopIsQuiet OnlyExhaustedAborts
PROPERTIES CallsAreTimely SubscribersHearAll StopReturns
CHECK_DEADLOCK FALSE
