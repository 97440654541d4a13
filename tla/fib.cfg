SPECIFICATION FairSpec
CONSTANTS
  video = video
  pic = pic
  news = news
  local = local
  hop = hop
  n1 = n1
  NoName = NoName
  NoRecord = NoRecord
  NoEntry = NoEntry
  NodeId = {n1}
  Under <- MCUnder
  Freshness <- MCFreshness
  Hash <- MCHash
  StrategyOf <- MCStrategy
  StragglerTime = 1
  Nonce = {x, y}
  Localhost = {}
  HasLocalhost = {}
  Localhop = {}
  TTL_MAX = 2
  MaxFaceId = 258
  MaxLifetime = 2
  MaxConsumerID = 0
  Fib <- BothLinks
  CsLimit = 1
  AdmitUnsolicited = {"app"}
  InitFace <- TwoLinksApp
  NewKinds = {}
  Closing = {}
  Name = {video}
  InterestIn <- FibInterests
  DataIn <- AllData
  NackIn <- FibNacks
  x = x
  y = y
INVARIANTS TypeOK OneTimer NoEarlyExpiry SatisfiedHasNoDownstream
PROPERTIES ErasedOnlyWhenDone PitDrains
