SPECIFICATION FecSpec
CONSTANTS
  FirstPlace = 65533
  kMaxMediaPackets = 3
  kMaxFecPackets = 3
  FecRates = {170}
  MaxFecFrames = 3
  Skips = {6}
  MaxMedia = 3
  MaxReceived = 2
  MaxRateChanges = 1
INVARIANT RecoveredIsOriginal
CHECK_DEADLOCK FALSE
