\* The second lap of the used ring.
SPECIFICATION FairSpec
CONSTANTS
  qsize = 2
  IndexRange = 8
  Roles = {TRUE}
  MaxChain = 0
  MaxReceived = 3
  MaxSent = 0
PROPERTY ProcessesWhatWasUsed
CHECK_DEADLOCK FALSE
