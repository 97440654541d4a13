CONSTANTS
  Timer = {t1, t2}
  Message = {m1}
  None = None
SPECIFICATION FairSpec
INVARIANTS
  NobodyElseInside
  MessagesShownOnce
  PlayingHasTimer
PROPERTIES
  QuitEnds
  PausedRests
  PlayingAdvances
CHECK_DEADLOCK FALSE
