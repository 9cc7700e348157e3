SPECIFICATION Spec
CONSTANTS
  t1 = t1
  t2 = t2
  t3 = t3
  Tab <- OneTab
  Msg = {1, 2}
  Channel = {c1}
  Clock = {1}
  NoTab = NoTab
  NoMsg = NoMsg
  WebLocks = TRUE
  MaxOpen = 1
  MaxKicks = 1
  MaxFaults = 1
  MayClose = FALSE
  MayDiscard = TRUE
  MayRevoke = TRUE
  MayRegrant = TRUE
CHECK_DEADLOCK FALSE
INVARIANTS SendOrder
PROPERTIES RevokedStaysHidden
