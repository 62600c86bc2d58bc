CONSTANTS
  ChunksCount = 3
  ChunkSize = 2
  MaxCall = 3
  MaxPushed = 16
SPECIFICATION FairSpec
INVARIANTS
  ChunksApart
  NoChunkLost
  QueuesBigEnough
PROPERTIES
  ImplementsByteFifo
  PushReturns
  PopReturns
