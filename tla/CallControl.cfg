CONSTANTS
  Leg = {l1, l2, l3}
  NoLeg = NoLeg
  NoCall = NoCall
  MaxQueue = 2
  Cards = TRUE
  Garbage <- SomeGarbage
SPECIFICATION Spec
SYMMETRY LegSymmetry
INVARIANTS
  TypeOK
  LiveCallIsShown
  HeldLegIsCurrent
  DeadCallIsReaped
  TalkingIsNotRinging
  NoNullDereference
PROPERTIES
  StrangerEventsHarmless
  MediaStartsAfterAnswer
  ImplementsPhoneLine
CHECK_DEADLOCK FALSE
