SPECIFICATION FairSpec
CONSTANTS
  Small = small
  Large = large
  Misbuilds = {}
  Connections = {1, 2, 3, 4, 5, 6, 7, 8}
  MaxDrops = 0
  MaxFaults = 0
  MaxLate = 2
  MaxSignals = 3
PROPERTIES LegComesUp
CHECK_DEADLOCK FALSE
