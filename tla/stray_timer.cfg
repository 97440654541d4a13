CONSTANTS
  Timer = {t1, t2}
  Message = {}
  None = None
SPECIFICATION Spec
INVARIANTS
  PausedStopsTimer
CHECK_DEADLOCK FALSE
