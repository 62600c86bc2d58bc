CONSTANTS
  Size = 4
  MaxCall = 3
  MaxPut = 6
  MaxStarts = 2
SPECIFICATION DecoderSpec
INVARIANT InUseNotFreed
CHECK_DEADLOCK FALSE
