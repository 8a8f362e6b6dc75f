SPECIFICATION Spec
CONSTANTS
  r1 = r1
  d1 = d1
  d2 = d2
  d3 = d3
  t1 = t1
  k1 = k1
  i1 = i1
  c1 = c1
  c2 = c2
  c3 = c3
  c4 = c4
  RoomIds = {r1}
  Devices = {d1, d2, d3}
  Tokens = {t1}
  Keys = {k1}
  Ips = {i1}
  Conns = {c1, c2, c3, c4}
  NoConn = NoConn
  Requests <- MCRequests
  MaxSessions <- MCSessions
  MaxSessionsPerKey = 0
  MaxPublicPerIp = 0
  MaxPendingPerRoom = 4
  QueueCap <- MCQueueCap
SYMMETRY Symm
CONSTRAINT Bound
INVARIANTS PairHolds PresenceSettles BucketsMatch
CHECK_DEADLOCK FALSE
