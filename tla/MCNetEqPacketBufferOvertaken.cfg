SPECIFICATION BufferSpec
CONSTANTS
  maxInsertPositions = 5
  memorySizeW16 = 10
  TimeWrap = 128
  OldPacket = 20
  FrameSamples = 2
  WantedTimes = {2}
  MediaPackets <- Arrivals
  MaxInserts = 7
  MaxConcealed = 0
INVARIANT NothingOverwritten
CHECK_DEADLOCK FALSE
