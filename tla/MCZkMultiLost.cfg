SPECIFICATION MultiSpec
CONSTANTS
  Chroot <- Root
  Paths <- OnePath
  Types = {"create", "set", "check"}
  BufLens = {3}
  MaxOps = 2
  Nothing = Nothing
  NoValue = NoValue
  HeaderOnly = HeaderOnly
INVARIANTS
  EntryForEachResult
CHECK_DEADLOCK FALSE
