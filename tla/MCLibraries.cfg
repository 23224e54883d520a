SPECIFICATION Spec
CONSTANTS
  Arena = 8
  RequestedSize = 1
  MinAllocSize = 2
  MinAlign = 2
  StartSizes = {1, 3}
  MaxSizes = {0, 4}
  Requests = {0, 1, 3}
  BitWord = 1024
  ByteWord = 256
  ReadSizes = {40, 128}
  Lengths <- Boundaries
  MaxFiles = 2
  Keys = {1, 2, 3, 5}
  Values = {0}
  Hash <- SmallHash
  Primes <- SmallPrimes
  MaxEntries = 4
  TreeKeys = {1, 2, 3, 4, 5}
  MaxNodes = 5
  Points = {0, 1, 2, 3}
  Depth = 3
  MinBucket = 2
  MaxBucket = 8
  MaxIntervals = 4
  InitialLen = 4
  Fields <- SmallFields
  MaxFields = 3
  u1 = u1
  u2 = u2
  TicksPerSecond = 2
  DaySeconds = 3
  Offset = 1
  ExactTime = 2
  Period = 2
  Start = 6
  MaxTicks = 24
  Levels = {3, 6}
  MaxDay = 4
  Threads = {u1, u2}
  Width = 3
  Clock = {1, 2}
  MaxKeys = 4
  Chroot <- Root
  Paths <- SmallPaths
  Types = {"create", "sequence", "delete", "set", "check", "other"}
  BufLens = {3}
  MaxOps = 2
  Nothing = Nothing
  NoValue = NoValue
  HeaderOnly = HeaderOnly
INVARIANTS
  ChunksAccountedFor
  LeftoversDestroyedOnce
  DigestOfTheFile
  TableIsMap
  TreeKeepsKeys
  SearchesMissNothing
  RecordsRoundTrip
  NoDaySkipped
  LinesNearTheirFile
  KeysDistinct
  AcceptedMultiWhole
PROPERTIES
  ReleaseIsExact
CHECK_DEADLOCK FALSE
