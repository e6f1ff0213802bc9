SPECIFICATION SysSpec
CONSTANTS
  Base = 4
  Delta = 2
  MaxTime = 8
  Rate = 2
  Us = 4
  Mhz = 2
  Sleeps = {1, 2}
  Times <- MCTimes
  Interval = 2
  MaxCalls = 2
INVARIANTS
  NoStray
  NeverSilent
  NotFast
PROPERTIES
  GetInWindow
  TimeOfDayRight
  SleepLasts
  BlinkOnTime
CHECK_DEADLOCK FALSE
