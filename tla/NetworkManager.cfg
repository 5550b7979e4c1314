SPECIFICATION Spec
CONSTANTS
  Pbufs = {p0, p1}
  Tcps = {t0, t1}
  Pcbs = {k0, k1, k2}
  FirstRoom = 4
  NextRoom = 5
  MaxFrame = 8
  MaxNics = 2
  MaxSends = 3
  MaxStatus = 2
  None = None
INVARIANTS
  ContextUsedOnce
  PbufsCounted
  FramesIntact
  HandlerArgsAlive
CHECK_DEADLOCK FALSE
