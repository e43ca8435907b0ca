SPECIFICATION FairSpec
CONSTANTS
  short = short
  long = long
  NoFile = NoFile
  Files <- MCFiles
  Length <- MCLength
  MaxTime = 3
  MaxActs = 4
INVARIANT EachEndsOnce
INVARIANT HeardIsShown
INVARIANT NeverAheadOfSound
PROPERTY PlaybackEnds
CHECK_DEADLOCK FALSE
