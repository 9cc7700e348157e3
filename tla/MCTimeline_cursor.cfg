SPECIFICATION Spec
CONSTANTS
  Start = 2
  MaxSeq = 4
  Reply = {3}
  Page = 2
  SyncMax = 1
  CacheSize = 2
  Margin = 2
  MaxClock = 4
  MaxOpens = 2
  MaxFaults = 1
  Target = {1}
  May = {"older", "newer", "close", "lose", "fail", "away", "restart"}
CHECK_DEADLOCK FALSE
INVARIANTS CursorHonest
