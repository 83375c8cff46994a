SPECIFICATION EventSpec
CONSTANTS
  EventThreads = {t1, t2}
  Timed = {t1}
  MaxStarts = 0
PROPERTY TimeoutTakesNoSet
CHECK_DEADLOCK FALSE
