CONSTANTS
  W = 5
  Interval = 2
  Boot = {8}
  MaxTime = 6
SPECIFICATION Spec
INVARIANTS
  SystemSleepIsShort
  TicksAreEarned
CHECK_DEADLOCK FALSE
