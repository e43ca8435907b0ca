SPECIFICATION Spec2
CONSTANTS
  song = song
  NoFile = NoFile
  Files <- MCFiles
  Length <- MCLength
  SkipBy = 2
  Tapped = TRUE
  MaxTime = 4
  Chunk = 2
  Buffers <- MCBuffers
  MaxActs = 2
INVARIANT AllAccumulated
CHECK_DEADLOCK FALSE
