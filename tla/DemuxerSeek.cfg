SPECIFICATION FairSpec
CONSTANTS
  File <- SmallFile
  Media <- SmallMedia
  Best = 0
  FileEnd = 12
  Batch = 2
  BackStep = 2
  ShortStep = 1
  MaxStep = 4
  MaxShift = 8
  Formats = {"timed", "bytes", "mpegts", "quicktime", "rewind", "unseekable"}
  Targets = {0, 3, 6, 11}
  MaxSeeks = 2
INVARIANTS TypeOK
PROPERTIES SeekMeetsContract SeekResultIsRight NoPacketIsLost EverySeekEnds
CHECK_DEADLOCK FALSE
