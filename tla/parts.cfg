SPECIFICATION Spec
CONSTANTS
  Ids = {a, b} MaxSockets = 3 MaxQuiet = 1 MaxWire = 1
  Conns = {t1, t2} Hosts = {h1, h2} MaxPre = 2 PerHost = 1 MaxConns = 1 Limit = 2 SweepAt = 1
  Steps <- RealSteps Quota = 150 Failure = 5 Refill = 2 MaxStarts = 2
  SplitHead = 1 MaxHead = 5 Capacity = 2 MaxBytes = 5
  Advertised = 20 MaxHz = 60 FastInterval = 4 SlowInterval = 2
  FramePrice = 3 ChunkPrice = 5 DirectPrice = 2
  FrameBurst = 6 ChunkBurst = 5 DirectBurst = 4 FrameStart = 3 ChunkStart = 7
  RetryInterval = 2 QueueLimit = 1 Chunks = 2 MaxTexts = 2 MaxLosses = 1 MaxTransfers = 1
  Intervals = {1, 4} KeepAliveMin = 3 ClickTTL = 6 MaxLatency = 1 MaxFlight = 2
  Teller = teller Hearer = hearer MaxNews = 2
  MaxPresses = 4 MaxRounds = 6
  MaxRows = 2 PageSize = 1 MaxPeriods = 2 MaxLoads = 3 MaxNotes = 2
  MaxQueue = 2
  Windows = {main, preference} Overlay <- OneOverlay MaxCommands = 3 MaxRunning = 2 main = main
  Pages = {mainpage, other} MainPage = mainpage Window = 3 MaxNow = 5
INVARIANTS TypeOK PresenceAgrees FailuresCounted FirstBytesHold TextsAccounted PeerSees VoiceSettles ShownIsStored PointerAgrees SwitchHolds
PROPERTIES WakesToSend RestartsApart
CHECK_DEADLOCK FALSE
