SPECIFICATION Spec
CONSTANTS
  N = 2
  ResendLimit = 2
  QueueLimit = 1
  MaxFaults = 1
  MaxEpochs = 1
INVARIANTS NothingStranded
PROPERTIES MailboxSpec
CHECK_DEADLOCK FALSE
