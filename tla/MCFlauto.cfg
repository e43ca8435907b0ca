SPECIFICATION FairSpec
CONSTANTS
  short = short
  long = long
  NoFile = NoFile
  Files <- MCFiles
  Length <- MCLength
  MaxTime = 0
  MaxActs = 4
INVARIANT StaleAtMostOne
PROPERTY LoopEnds
CHECK_DEADLOCK FALSE
