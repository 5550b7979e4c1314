\* Four descriptors.  The receive queue goes once around the used ring, and
\* its available indices wrap; messages sent have one to three buffers.
SPECIFICATION FairSpec
CONSTANTS
  qsize = 4
  IndexRange = 8
  Roles = {TRUE, FALSE}
  MaxChain = 3
  MaxReceived = 4
  MaxSent = 2
INVARIANTS
  DescriptorsPartitioned
  NoLostWakeup
PROPERTIES
  RingsDrain
CHECK_DEADLOCK FALSE
