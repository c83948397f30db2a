SPECIFICATION Spec
CONSTANTS
  Films <- SmallFilms
  Media <- SmallMedia
  Lead = 0
  ProbeSize = 2
  Second = 9
  ChapterSize = 12
  MaxDiff = 20
INVARIANTS TypeOK TimeGoesOn StreamsInStep
