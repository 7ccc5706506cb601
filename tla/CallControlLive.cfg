CONSTANTS
  Leg = {l1, l2}
  NoLeg = NoLeg
  NoCall = NoCall
  MaxQueue = 1
  Cards = FALSE
  Garbage <- NoGarbage
SPECIFICATION FairSpec
PROPERTIES
  EndedCallIsForgotten
  IncomingStopsRinging
CHECK_DEADLOCK FALSE
