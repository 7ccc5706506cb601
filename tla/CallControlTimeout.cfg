CONSTANTS
  Leg = {l1, l2}
  NoLeg = NoLeg
  NoCall = NoCall
  MaxQueue = 2
  Cards = TRUE
  Garbage <- NoGarbage
SPECIFICATION Spec
SYMMETRY LegSymmetry
PROPERTIES
  TimeoutRejectsUnanswered
CHECK_DEADLOCK FALSE
