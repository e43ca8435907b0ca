SPECIFICATION FairSpec
CONSTANTS
  Methods <- MCMethods
  Length = 7
  ReadSize = 5
  Block10ms = 2
  Roundings <- MCRoundings
  Requests <- MCRequests
INVARIANT InOrder
INVARIANT LostInCallback
INVARIANT SilentAtEnd
INVARIANT RawFrames
PROPERTY CallbackReturns
CHECK_DEADLOCK FALSE
