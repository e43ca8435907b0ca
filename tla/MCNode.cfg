SPECIFICATION FairSpec
CONSTANTS
  main = main
  other = other
  Callers <- MCCallers
  Main <- main
  Slices <- MCSlices
  Times <- MCTimes
  PoolMax = 2
  StatsPeriod = 2
  MaxCalls = 2
INVARIANT SwitchSettles
INVARIANT AllocatesOnce
INVARIANT MaxIsPeak
PROPERTY EnabledProcesses
CHECK_DEADLOCK FALSE
