CONSTANTS
  Device = {1, 2, 3}
  RouteLimit = 2
  Few = {1, 2}
  Run = {r, q}
  MaxAttempts = 2
  MaxLost = 1
  May = {}
  File = {f, g}
  Slot = {s1, s2}
  Bad = {g}
  NoFile = nofile
  NoSlot = noslot
  Concurrency = 1
  MaxTrouble = 2
SPECIFICATION Services
INVARIANTS NobodyMissed FilesAreThere NothingLeftStored
PROPERTIES OnceOnly EndsInTime EveryFileSettles
CHECK_DEADLOCK FALSE
