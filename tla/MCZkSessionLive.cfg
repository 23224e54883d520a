SPECIFICATION FairSpec
CONSTANTS
  a1 = a1
  a2 = a2
  s1 = s1
  w1 = w1
  Calls = {a1, w1}
  SyncCalls = {w1}
  WatcherCalls = {w1}
  AddrsCount = 1
  MaxFaults = 1
  MaxPings = 1
  PING_XID = PING_XID
  WATCHER_EVENT_XID = WATCHER_EVENT_XID
INVARIANTS
  NoLostWakeup
PROPERTIES
  RequestsAnswered
  SessionSettles
CHECK_DEADLOCK FALSE
