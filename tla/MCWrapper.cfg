SPECIFICATION FairSpec
CONSTANTS
  t1 = t1
  t2 = t2
  NoThread = NoThread
  Threads <- MCThreads
  Fields <- MCFields
  MaxCalls = 3
INVARIANT NoLostUpdate
PROPERTY EventuallyApplied
PROPERTY FramesFollowSettings
PROPERTY ImplementsRegister
CHECK_DEADLOCK FALSE
