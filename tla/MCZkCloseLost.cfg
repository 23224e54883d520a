SPECIFICATION Spec
CONSTANTS
  a1 = a1
  s1 = s1
  w1 = w1
  Calls = {a1}
  SyncCalls = {}
  WatcherCalls = {}
  Closers = {"app"}
  MaxFaults = 1
  MaxMisorders = 0
  EVENT = EVENT
INVARIANT
  CompletionsCalledAtClose
CHECK_DEADLOCK FALSE
