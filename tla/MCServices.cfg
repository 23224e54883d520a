SPECIFICATION Spec
CONSTANTS
  s1 = s1
  s2 = s2
  a1 = a1
  a2 = a2
  r1 = r1
  PoolSize = 2
  Signals = {s1, s2}
  MaxCallbacks = 2
  MaxRaised = 3
  MaxGets = 3
  Auths = {a1, a2}
  Requests = {r1}
  SetWatches = SetWatches
  Parts = 2
  MaxFaults = 1
INVARIANTS
  StopHeardOnceJoining
  AuthResultsTrue
  AuthBeforeRequests
  WholeUnlessOvertaken
PROPERTIES
  RunReturns
  EarlySignalsHeard
  AuthCompleted
CHECK_DEADLOCK FALSE
