SPECIFICATION Spec
CONSTANTS
  video = video
  pic = pic
  news = news
  local = local
  hop = hop
  n1 = n1
  NoName = NoName
  NoRecord = NoRecord
  NoEntry = NoEntry
  NodeId = {n1}
  Under <- MCUnder
  Freshness <- MCFreshness
  Hash <- MCHash
  StrategyOf <- MCStrategy
  StragglerTime = 1
  Nonce = {x, y}
  Localhost = {}
  HasLocalhost = {}
  Localhop = {}
  TTL_MAX = 1
  MaxFaceId = 258
  MaxLifetime = 1
  MaxConsumerID = 0
  Fib <- OneLink
  CsLimit = 1
  AdmitUnsolicited = {"app"}
  InitFace <- LinkRibApp
  NewKinds = {}
  Closing = {}
  InterestIn <- HashInterests
  DataIn <- HashData
  NackIn <- HashNacks
  Name = {video, pic}
  x = x
  y = y
INVARIANTS NeverCrashes NeverSpins OneTimer
PROPERTIES DataOnlyOnDemand
