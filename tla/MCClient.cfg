CONSTANTS
  Person = {p, q}
  Nobody = nobody
  MaxNews = 3
  MaxFailed = 1
  Races = {}
  Device = {tab, phone}
  MaxSeq = 2
  MaxAsks = 3
  MaxTimeouts = 1
  MayFail = {"read", "bootstrap"}
  InOrder = TRUE
  Stories <- StoriesHere
  MaxDropped = 1
  MaxRetries = 2
  MaxRestarts = 1
SPECIFICATION Spec
INVARIANTS NothingSurvives PushIsTheirs StartGoesOn UnconfirmedKept DevicesAgree SameView
PROPERTIES WipedAsPromised ReadArrives LinksComeTogether
CHECK_DEADLOCK FALSE
