SPECIFICATION Spec
CONSTANTS
  p1 = p1
  w1 = w1
  w2 = w2
  Paths = {p1}
  Watchers = {w1, w2}
  DefaultWatcher = DefaultWatcher
  MaxReads = 2
  MaxChanges = 2
  MaxFaults = 2
  WATCHER_EVENT_XID = WATCHER_EVENT_XID
  SET_WATCHES_XID = SET_WATCHES_XID
SYMMETRY Symmetry
INVARIANTS
  NoMissedChange
  EventBeforeNewData
  NoStaleEvent
CHECK_DEADLOCK FALSE
