SPECIFICATION Spec
CONSTANTS
  N = 1
  ResendLimit = 1
  QueueLimit = 2
  MaxFaults = 0
  MaxEpochs = 0
PROPERTIES DeliveredStays
CHECK_DEADLOCK FALSE
