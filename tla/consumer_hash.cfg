CONSTANTS
  MaxSeq = 3
  MaxMultiplier = 4
  MaxRto = 5
  MaxSent = 2
  Estimates <- MCEstimates
SPECIFICATION FairSpec
INVARIANTS
  TypeOK
  EveryRequestIsKept
  RetxIsScheduled
  MeasuresUnrepeated
PROPERTIES
  AllAnswered
