CONSTANTS
  RAOP_BUFFER_LENGTH = 3
  Laps = 2
  StartSeq = 9
  MaxSent = 6
  MaxDelay = 4
  MaxOutage = 2
  PacketLen = 9
  MinPayload = 2
  Streams <- MCStreams
SPECIFICATION RtpSpec
PROPERTIES
  NothingPassedOver
  PlayedInOrder
  NothingFromBeforeFlush
  AskedOnce
  WholePackets
