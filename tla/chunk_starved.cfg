CONSTANTS
  Advertised = 90
  MaxHz = 60
  FastInterval = 4
  SlowInterval = 12
  FramePrice = 3
  ChunkPrice = 5
  DirectPrice = 2
  FrameBurst = 6
  ChunkBurst = 5
  DirectBurst = 4
  FrameStart = 3
  ChunkStart = 5
  RetryInterval = 2
  QueueLimit = 1
  Chunks = 2
  MaxTexts = 0
  MaxLosses = 0
  MaxTransfers = 1
SPECIFICATION FairSpec
PROPERTY ChunksGoOn
CHECK_DEADLOCK FALSE
