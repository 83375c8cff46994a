SPECIFICATION PartsSpec
CONSTANTS
  Channels = {c1, c2, c3, c4}
  FileChannels = {c1}
  MaxMixed = 2
  Energies = {1, 2}
  Mult = 1
  kBufSizePartitions = 8
  MaxSoundCardMs = 10
  kMaxBufSizeStart = 1
  SoundCardMs = {0, 10}
  ResampledSamples = {79}
  FiltDelays = {0, 240}
  DelayChangeFrames = 1
  element_count = 4
  Counts = {0, 1, 3, 5}
  Moves <- BothWays
  MaxWritten = 10
  maxInsertPositions = 4
  memorySizeW16 = 6
  TimeWrap = 128
  OldPacket = 20
  FrameSamples = 2
  WantedTimes = {2, 4}
  MediaPackets <- Arrivals
  MaxInserts = 4
  MaxConcealed = 22
  SendCodecs = {"long", "short"}
  Secondary = "second"
  NoCodec = "none"
  FrameBlocks <- SenderFrames
  BufferBlocks = 3
  Lengths = {1, 2}
  StampWrap = 16
  DiffWrap = 4
  FirstCapture = 13
  MaxCaptures = 17
  MaxSettings = 3
SYMMETRY OtherChannels
INVARIANTS
  PlayingIsListed MixesTheRightOnes RampsSmoothly FramesReturned NothingUnheard
  NoLockHeldForCbCrit
  DelayTrue SamplesInStep
  PayloadsIntact
  InputInStep PacketsRight
PROPERTIES IsSampleQueue PlayedInOrder
