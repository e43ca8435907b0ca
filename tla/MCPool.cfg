SPECIFICATION FairSpec
CONSTANTS
  t1 = t1
  t2 = t2
  w1 = w1
  w2 = w2
  id1 = id1
  id2 = id2
  NoWrapper = NoWrapper
  Threads <- MCThreads
  Wrappers <- MCWrappers
  Ids <- MCIds
  Sizes <- MCSizes
  SampleRate = 250
  Channels = 2
  MaxCalls = 2
INVARIANT ReturnsOwnFrame
INVARIANT EachBlockOnce
INVARIANT GoneOnlyWhenSplit
INVARIANT WrapperPerId
PROPERTY CallsReturn
CHECK_DEADLOCK FALSE
