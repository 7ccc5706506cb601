CONSTANTS
  Filter = {"soundread", "resampler", "ec", "volsend", "encoder", "rtpsend",
            "rtprecv", "dtmfgen", "equalizer", "volrecv", "soundwrite", d1, d2}
  Decoder = {d1, d2}
  NoDecoder = NoDecoder
SPECIFICATION FairSpec
INVARIANTS
  TypeOK
  RunsOnlyPrepared
  OwnerKnowsGraph
  BothGraphsRun
PROPERTIES
  StopReturns
