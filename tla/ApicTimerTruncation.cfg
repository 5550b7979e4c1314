\* A clock of two units to the microsecond: do timers repeat?
SPECIFICATION TimerFairSpec
CONSTANTS
  NoTimer = NoTimer
  Timers = {t1, t2}
  Timeouts = {1, 2}
  Us = 2
  MaxCount = 2
  MaxCallback = 1
PROPERTY TimersRepeat
CHECK_DEADLOCK FALSE
