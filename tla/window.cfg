CONSTANTS
  MaxSeq = 3
  MaxMultiplier = 4
  MaxRto = 5
  MaxSent = 2
  Estimates <- MCEstimates
  InitialWindow = 1
  InitialWindowOnTimeout = TRUE
  MaxWindow = 3
SPECIFICATION Spec
PROPERTIES
  WindowIsKept
