SPECIFICATION Spec
CONSTANTS
  d1 = d1
  d2 = d2
  d3 = d3
  d4 = d4
  Data = {d1, d2, d3, d4}
  Freshness <- MCFreshness
  MaxFreshness = 2
  MaxLimit = 3
  NoEntry = NoEntry
  NoInfo = NoInfo
  NoData = NoData
  TableOrder <- MCOrder
  Hash <- MCHash
  SIZE_MAX = 31
INVARIANTS
  TypeOK
  QueuesMatchTable
  TimersMatchFifo
  RecentIsKept
  SearchFindsNearest
PROPERTIES
  EvictsByPriority
  ImplementsBoundedCache
