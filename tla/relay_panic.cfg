SPECIFICATION Spec
CONSTANTS
  RoomIds = {r1}
  Devices = {d1, d2, d3}
  Tokens = {t1}
  Keys = {k1}
  Ips = {i1}
  Conns = {c1, c2, c3}
  NoConn = NoConn
  Requests <- MCRequests
  MaxSessions <- MCSessions
  MaxSessionsPerKey = 0
  MaxPublicPerIp = 0
  MaxPendingPerRoom = 4
  QueueCap <- MCQueueCap
SYMMETRY Symm
INVARIANTS RoomStillThere
CHECK_DEADLOCK FALSE
