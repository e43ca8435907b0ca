SPECIFICATION FairSpec
CONSTANTS
  short = short
  long = long
  NoFile = NoFile
  Files <- MCFiles
  Length <- MCLength
  SkipBy = 2
  Tapped = FALSE
  MaxActs = 6
  MaxTime = 5
INVARIANT Restartable
INVARIANT RaisesOnlyUnready
INVARIANT ShownIsPlaying
INVARIANT QueuedOnce
INVARIANT ShownIsHeard
PROPERTY PlaybackEnds
PROPERTY EndIsShown
CHECK_DEADLOCK FALSE
