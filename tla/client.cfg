SPECIFICATION FairSpec
CONSTANTS
  Callers = {c1, c2}
  MaxSessions = 2
  MaxGeneration = 4
  Small = small
  Large = large
  Misbuilds = {small}
  Connections = {1, 2, 3, 4, 5, 6, 7, 8}
  MaxDrops = 2
  MaxFaults = 2
  MaxLate = 2
  MaxSignals = 3
  Low = low High = high MaxSpawns = 4 MaxBreaks = 1
  Keys = {w, e} Delay = 1 MaxEvents = 2
INVARIANTS TypeOK OneCurrent LegGoesOn NotBothGuests KeysLit
PROPERTIES AbandonedEnds HeardComesUp PhaseEnds GoesDark
CHECK_DEADLOCK FALSE
