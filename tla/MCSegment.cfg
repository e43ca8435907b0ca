SPECIFICATION FairSpec
CONSTANTS
  File = File
  TotalFrames = 3
  SegmentFrames = 2
  MaxTime = 4
  Targets <- MCTargets
  MaxActs = 3
INVARIANT PlaysInOrder
INVARIANT RaisesOnlyRaced
INVARIANT NeverStuck
PROPERTY PlaysFile
PROPERTY PlaybackEnds
CHECK_DEADLOCK FALSE
