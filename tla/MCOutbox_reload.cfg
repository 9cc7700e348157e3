SPECIFICATION FairSpec
CONSTANTS
  t1 = t1
  t2 = t2
  t3 = t3
  Tab <- TwoTabs
  Msg = {1, 2}
  Channel = {c1}
  Clock = {1}
  NoTab = NoTab
  NoMsg = NoMsg
  WebLocks = TRUE
  MaxOpen = 1
  MaxKicks = 0
  MaxFaults = 2
  MayClose = TRUE
  MayDiscard = FALSE
  MayRevoke = FALSE
  MayRegrant = FALSE
CHECK_DEADLOCK FALSE

PROPERTIES Delivery Cleanup
