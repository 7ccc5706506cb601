CONSTANTS
  W = 5
  Interval = 2
  Boot = {8}
  MaxTime = 7
SPECIFICATION Spec
INVARIANTS
  SleepIsShort
CHECK_DEADLOCK FALSE
