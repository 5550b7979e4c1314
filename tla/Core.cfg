\* Two cores and two events that spawn, interrupt, save and wake each other.
\* Two timers that start at any time, on a clock of two units to the
\* microsecond; the count is rounded down for 3, and 16 is more than the timer
\* can be set to.  Three updates of the clock's two fields, any number of reads.
SPECIFICATION CoreSpec
CONSTANTS
  Cores = {c1, c2}
  Events = {e1, e2}
  Stacks = {s1, s2, s3, s4}
  None = None
  FirstVector = 1
  NumVectors = 2
  Endless = FALSE
  MayThrow = TRUE
  NoTimer = NoTimer
  Timers = {t1, t2}
  Timeouts = {1, 2, 3, 16}
  Us = 2
  MaxCount = 1
  MaxCallback = 2
  Fields = {sec, nsec}
  MaxUpdates = 3
  Unset = Unset
INVARIANTS
  TypeOK
  StacksPartitioned
  ContextsIntact
  InterruptStackSafe
  ArmedForFirst
  EvenReadsConsistent
PROPERTIES
  ImplementsScheduler
  EveryEventRuns
  CallsSpaced
  OnlyTruncationStops
CHECK_DEADLOCK FALSE
