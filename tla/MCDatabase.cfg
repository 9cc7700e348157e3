SPECIFICATION Database
CONSTANTS
  x1 = x1
  x2 = x2
  x3 = x3
  x4 = x4
  m1 = m1
  m2 = m2
  m3 = m3
  u1 = u1
  u2 = u2
  NoMsg = NoMsg
  NoUser = NoUser
  Call <- ThreeCalls
  Msg = {m1}
  Channel = {c1}
  User = {u1, u2}
  File = {}
  Body = {2}
  Author <- OneAuthor
  Kind = {"send", "edit", "delete", "react"}
  Root = {}
  Mentions = {{}}
  Limit = 9
  Window = 1
  MaxAborts = 1
  Person = {a, b}
  Rpc <- ThreeCalls
  MaxUses = 1
  MaxCalls = 3
  FewCalls = 2
CHECK_DEADLOCK FALSE
SYMMETRY AllAlike
INVARIANTS ReactionsShown OwnerStays
PROPERTIES DeletedIsFinal ApprovedIsIn ClosedInvite
