SPECIFICATION SegmentSpec
CONSTANTS
  PayloadTypes = {0, 13}
  Sizes = {160}
  Steps = {160}
  FirstSeqs = {1}
  MaxPackets = {3}
  MaxSent = 3
  MaxEmpty = 0
INVARIANT HeadersKept
CHECK_DEADLOCK FALSE
