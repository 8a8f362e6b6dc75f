SPECIFICATION FairSpec
CONSTANTS
  RoomIds = {r1} Devices = {d1, d2} Tokens = {t1} Keys = {k1} Ips = {i1} Conns = {c1, c2}
  NoConn = NoConn Requests <- MCRequests MaxSessions <- MCSessions MaxSessionsPerKey = 0
  MaxPublicPerIp = 0 MaxPendingPerRoom = 4 QueueCap <- MCQueueCap
  N = 1 ResendLimit = 1 QueueLimit = 1 MaxFaults = 3 MaxEpochs = 1
  Texts = {m1} MaxLosses = 2 MaxInbound = 3
  FramesPerSecond = 6 ChunksPerSecond = 8 FramePrice = 2 ChunkPrice = 4 FrameBytes = 1
  ChunkBytes = 4 KeyCap = 4 KeyRate = 2 WaitLimit = 3 ForwardTimeout = 3 MaxHeld = 1 MaxTcp = 5
  MaxStalls = 1
INVARIANTS TypeOK LegHolds HonestPasses
PROPERTIES EjectedEnds Arrives Unstranded FrameEnds
CHECK_DEADLOCK FALSE
