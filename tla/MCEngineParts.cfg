SPECIFICATION PartsSpec
CONSTANTS
  Threads = {t1}
  Channels = {c1, c2}
  PayloadTypes = {13, 103}
  Sizes = {100, 728}
  Steps = {40000}
  FirstSeqs = {1}
  MaxPackets = {3}
  MaxSent = 3
  MaxEmpty = 1
  Capacity = 2
  FirstSeq = 65534
  NackLists <- Lists
  RTX = TRUE
  Rtt = 1
  Rate = 1
  PacketBytes = 4
  Interval = 12
  ByteCountSize = 3
  MaxBuilt = 3
  MaxNacks = 2
  MaxSwitches = 2
  StartTime = 6
  MaxTime = 16
  Step = 5
  StreamPlaces <- AroundTheWrap
  MaxLate = 255
  MaxAhead = 65026
  MaxArrivals = 5
  MaxReports = 2
  MaxResets = 1
  Rates = {0, 2}
  Rate0 = 2
  PacedBytes = 100
  PaceTick = 30
  MaxPaceTime = 120
  MaxPaced = 3
  MaxSettings = 1
  Tones <- ShortAndLong
  DTMF_OUTBAND_MAX = 2
  FramePayloadTypes = {0, 13}
  CngTypes = {13}
  SamplesPerMs = 48
  FrameMs = 60
  PacketSamples = 4000
  MaxFrames = 26
  MaxTones = 2
  LastTone = 6
  FirstPlace = 65533
  kMaxMediaPackets = 2
  kMaxFecPackets = 2
  FecRates = {60, 255}
  MaxFecFrames = 2
  Skips = {0, 1}
  MaxMedia = 3
  MaxReceived = 3
  MaxRateChanges = 1
INVARIANTS
  DeviceFollowsUse
  HeadersKept KeptOnceAndFits
  AnswersRight AnswersBounded
  ReportsTrue
  LeavesOnceInLine PacedToRate
  RecoveredIsOriginal AllThatCanBeIsRecovered
PROPERTY TonesAndBursts
