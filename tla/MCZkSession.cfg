SPECIFICATION Spec
CONSTANTS
  a1 = a1
  a2 = a2
  s1 = s1
  w1 = w1
  Calls = {a1, a2, s1}
  SyncCalls = {s1}
  WatcherCalls = {}
  AddrsCount = 1
  MaxFaults = 1
  MaxPings = 0
  PING_XID = PING_XID
  WATCHER_EVENT_XID = WATCHER_EVENT_XID
INVARIANTS
  EachCallHasOnePlace
  RepliesMatchRequests
  ExecutedInOrder
PROPERTIES
  ImplementsCalls
SYMMETRY
  AsyncSymmetry
CHECK_DEADLOCK FALSE
