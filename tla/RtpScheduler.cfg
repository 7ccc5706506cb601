CONSTANTS
  Waiter = {w1}
  Polled = {p1}
  NoSession = NoSession
  max_sessions = 2
  ClockRange = 4
SPECIFICATION FairSpec
INVARIANTS
  TypeOK
  PositionsDiffer
  SleepsUntilDue
  NeverForgottenApart
PROPERTIES
  WaitersReturn
