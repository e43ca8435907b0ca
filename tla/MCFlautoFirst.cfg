SPECIFICATION Spec
CONSTANTS
  short = short
  long = long
  NoFile = NoFile
  Files <- MCFiles
  Length <- MCLength
  MaxTime = 0
  MaxActs = 2
INVARIANT FirstBlockStarts
CHECK_DEADLOCK FALSE
