SPECIFICATION Spec
CONSTANTS
  video = video
  pic = pic
  news = news
  local = local
  hop = hop
  n1 = n1
  NoName = NoName
  NoRecord = NoRecord
  NoEntry = NoEntry
  NodeId = {n1}
  Under <- MCUnder
  Freshness <- MCFreshness
  Hash <- MCHash
  StrategyOf <- MCStrategy
  StragglerTime = 1
  Nonce = {x, y}
  Localhost = {local}
  HasLocalhost = {local}
  Localhop = {hop}
  TTL_MAX = 2
  MaxFaceId = 259
  MaxLifetime = 1
  MaxConsumerID = 0
  Fib <- BothLinks
  CsLimit = 1
  AdmitUnsolicited = {"app"}
  InitFace <- LinkLanApp
  NewKinds = {"net"}
  Closing = {256, 258}
  Name = {local, hop}
  InterestIn <- FacesInterests
  DataIn <- AllData
  NackIn <- FacesNacks
  x = x
  y = y
SYMMETRY NonceSymmetry
INVARIANTS RecordsOnLiveFaces
PROPERTIES LocalhostInterestsStay LocalhopInterestsStop
