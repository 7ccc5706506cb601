CONSTANTS
  SeqMod = 16
  TsMod = 16
  LoopWindow = 3
  Threshold = 1
  TsJump = 3
  max_rq_size = 3
  Streams <- SomeStreams
  First = 14
  Jump = 5
  MaxNet = 3
  MaxRepeats = 2
  Keys = {1, 2}
SPECIFICATION FairSpec
INVARIANTS TypeOK QueuesInOrder StreamsAreApart LoopsCounted HeardOnce
PROPERTIES GivenInOrder KeysAreHeard
CHECK_DEADLOCK FALSE
