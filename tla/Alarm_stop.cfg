SPECIFICATION Spec
CONSTANTS
  Alarms = {a, b, c}
  Head = head
  Nil = nil
  Delays = {0, 1}
  Periods = {1, 2}
  MaxTicks = 3
  MaxOps = 2
  MayStopNext = TRUE
PROPERTY StopIsFinal
