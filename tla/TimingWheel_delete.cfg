CONSTANTS
  Timers = {t1, t2}
  RepeatTimers = {t1}
  Intervals = {1, 2, 5}
  WheelBits1 = 1
  WheelBits2 = 1
  WheelNum = 3
  MaxTime = 10
  MaxLag = 1
  DeleteAnyTime = TRUE
  NULL = NULL
SPECIFICATION Spec
INVARIANT NoDanglingNode
