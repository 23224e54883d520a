SPECIFICATION FairSpec
CONSTANTS
  a1 = a1
  a2 = a2
  s1 = s1
  w1 = w1
  Calls = {w1}
  SyncCalls = {w1}
  WatcherCalls = {w1}
  AddrsCount = 1
  MaxFaults = 1
  MaxPings = 0
  PING_XID = PING_XID
  WATCHER_EVENT_XID = WATCHER_EVENT_XID
PROPERTIES
  EveryRequestAnswered
CHECK_DEADLOCK FALSE
