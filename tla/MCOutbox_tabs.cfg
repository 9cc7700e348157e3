SPECIFICATION Spec
CONSTANTS
  t1 = t1
  t2 = t2
  t3 = t3
  Tab <- ThreeTabs
  Msg = {1}
  Channel = {c1}
  Clock = {1}
  NoTab = NoTab
  NoMsg = NoMsg
  WebLocks = TRUE
  MaxOpen = 2
  MaxKicks = 1
  MaxFaults = 2
  MayClose = TRUE
  MayDiscard = FALSE
  MayRevoke = FALSE
  MayRegrant = FALSE
CHECK_DEADLOCK FALSE
SYMMETRY TabSymmetry
INVARIANTS Durable NoLostWakeup OwnerSends
