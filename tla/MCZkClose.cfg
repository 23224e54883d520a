SPECIFICATION FairSpec
CONSTANTS
  a1 = a1
  s1 = s1
  w1 = w1
  Calls = {a1, s1, w1}
  SyncCalls = {s1, w1}
  WatcherCalls = {w1}
  Closers = {"app", "comp"}
  MaxFaults = 1
  MaxMisorders = 1
  EVENT = EVENT
INVARIANTS
  RefCounterExact
  FreedUnusedUnlessOvertaken
  OneDestroyer
  FreedUnlessLeaked
  AnsweredAtMostOnce
  NoAssertionFailure
  SyncCallersReleased
PROPERTIES
  CloseReturns
CHECK_DEADLOCK FALSE
