SPECIFICATION Spec
CONSTANTS
  x1 = x1
  x2 = x2
  x3 = x3
  x4 = x4
  m1 = m1
  m2 = m2
  m3 = m3
  u1 = u1
  u2 = u2
  NoMsg = NoMsg
  NoUser = NoUser
  Call <- ThreeCalls
  Msg = {m1, m2}
  Channel = {c1, c2}
  User = {u1}
  File = {1, 2}
  Body = {1}
  Author <- OneAuthor
  Kind = {"send"}
  Root = {m1}
  Mentions = {{}}
  Limit = 1
  Window = 2
  MaxAborts = 0
CHECK_DEADLOCK FALSE
SYMMETRY Symmetry
INVARIANTS ReplayIsAnswered FilesClaimedOnce NoWaitCycle
PROPERTIES LogSpec
