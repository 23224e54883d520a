SPECIFICATION Spec
CONSTANTS
  a1 = a1
  s1 = s1
  w1 = w1
  Calls = {a1}
  SyncCalls = {}
  WatcherCalls = {}
  Closers = {"comp"}
  MaxFaults = 0
  MaxMisorders = 1
  EVENT = EVENT
INVARIANT
  FreedWhenClosed
CHECK_DEADLOCK FALSE
