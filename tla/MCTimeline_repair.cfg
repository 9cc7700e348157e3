SPECIFICATION FairSpec
CONSTANTS
  Start = 1
  MaxSeq = 3
  Reply = {}
  Page = 2
  SyncMax = 1
  CacheSize = 2
  Margin = 2
  MaxClock = 5
  MaxOpens = 1
  MaxFaults = 1
  Target = {}
  May = {"away", "lose", "change", "delete"}
CHECK_DEADLOCK FALSE
INVARIANTS SyncedHonest
PROPERTIES HolesFill
