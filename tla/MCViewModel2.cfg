SPECIFICATION FairSpec2
CONSTANTS
  song = song
  NoFile = NoFile
  Files <- MCFiles
  Length <- MCLength
  SkipBy = 2
  Tapped = TRUE
  MaxTime = 4
  Chunk = 2
  Buffers <- MCBuffers
  MaxActs = 4
INVARIANT RaisesOnlyInWindows
INVARIANT LeftoverBelowChunk
INVARIANT QueueIsThisFile
PROPERTY BlockReturns
CHECK_DEADLOCK FALSE
