SPECIFICATION SenderSpec
CONSTANTS
  SendCodecs = {"long", "short"}
  Secondary = "second"
  NoCodec = "none"
  FrameBlocks <- SenderFrames
  BufferBlocks = 3
  Lengths = {1, 2}
  StampWrap = 16
  DiffWrap = 4
  FirstCapture = 13
  MaxCaptures = 17
  MaxSettings = 3
INVARIANT LengthsTrue
CHECK_DEADLOCK FALSE
