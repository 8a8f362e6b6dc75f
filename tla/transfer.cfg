SPECIFICATION FairSpec
CONSTANTS
  Msgs <- MCMsgs
  MaxTries = 2
  Chunks <- MCChunks
  Big <- MCBig
  Slots <- MCSlots
  MaxFaults = 1
INVARIANTS TypeOK StatusIsTrue CalmHolds
PROPERTIES CalmEnds
CHECK_DEADLOCK FALSE
