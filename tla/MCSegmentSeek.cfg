SPECIFICATION Spec
CONSTANTS
  File = File
  TotalFrames = 3
  SegmentFrames = 2
  MaxTime = 4
  Targets <- MCInside
  MaxActs = 3
INVARIANT SeekClears
CHECK_DEADLOCK FALSE
