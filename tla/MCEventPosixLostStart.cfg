SPECIFICATION EventFairSpec
CONSTANTS
  EventThreads = {}
  Timed = {}
  MaxStarts = 2
PROPERTY StartedTimerFires
CHECK_DEADLOCK FALSE
