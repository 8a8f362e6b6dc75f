SPECIFICATION Spec
CONSTANTS
  r1 = r1
  r2 = r2
  r3 = r3
  d1 = d1
  d2 = d2
  d3 = d3
  t1 = t1
  t2 = t2
  k1 = k1
  k2 = k2
  i1 = i1
  i2 = i2
  RoomIds = {r1, r2, r3}
  Devices = {d1, d2, d3}
  Tokens = {t1, t2}
  Keys = {k1, k2}
  Ips = {i1, i2}
  Conns = {c1, c2, c3}
  NoConn = NoConn
  Requests <- MCRequests
  MaxSessions <- MCSessions
  MaxSessionsPerKey = 1
  MaxPublicPerIp = 1
  MaxPendingPerRoom = 2
  QueueCap <- MCQueueCap
SYMMETRY Symm
CONSTRAINT Bound
INVARIANTS RoomHeld PerIpExact
PROPERTIES LeaseSpec
CHECK_DEADLOCK FALSE
