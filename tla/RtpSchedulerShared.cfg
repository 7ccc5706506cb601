CONSTANTS
  Waiter = {}
  Polled = {p1, p2}
  NoSession = NoSession
  max_sessions = 2
  ClockRange = 4
SPECIFICATION Spec
INVARIANTS
  NeverForgotten
