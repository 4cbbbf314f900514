CONSTANTS
  k1 = k1  k2 = k2
  Calls = {k1, k2}
  MaxStarts = 2
  MaxCrashes = 1
  MaxFaults = 1
SPECIFICATION Spec
CHECK_DEADLOCK FALSE
INVARIANTS OneProxyRuns LeasedProxyIsNotStopped CloseLeavesNoProxy
PROPERTIES StoppedProxyIsRead CallsHear
