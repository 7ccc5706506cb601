SPECIFICATION FairSpec
CONSTANTS
  Configurations <- MCConfigurations
  QuitLoops = 1
  MaxRequests = 4
  MaxQueue = 2
  MaxWork = 3
  MaxSubscribes = 2
  MaxWatches = 2
INVARIANTS
  TypeOK
  AnswersFindProxy
  AskedForAReason
  KnownDialogsAreOpen
  GoodbyeIsSaid
PROPERTIES
  RegistersWithPassword
CHECK_DEADLOCK FALSE
