SPECIFICATION Spec
CONSTANTS
  x1 = x1
  x2 = x2
  x3 = x3
  x4 = x4
  m1 = m1
  m2 = m2
  m3 = m3
  u1 = u1
  u2 = u2
  NoMsg = NoMsg
  NoUser = NoUser
  Call <- FourCalls
  Msg = {m1, m2, m3}
  Channel = {c1}
  User = {u1}
  File = {}
  Body = {1}
  Author <- OneAuthor
  Kind = {"send", "delete"}
  Root = {m1}
  Mentions = {{}}
  Limit = 9
  Window = 1
  MaxAborts = 1
CHECK_DEADLOCK FALSE
SYMMETRY Symmetry
INVARIANTS Gapless RepliesCounted
