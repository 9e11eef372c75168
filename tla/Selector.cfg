CONSTANTS
  MaxFd = 2
  Passive = {0}
  MaxThreads = 2
SPECIFICATION FairSpec
INVARIANTS
  TypeOK
  MasterExact
  ServedInRound
  WakeUpPending
  OneAnswer
PROPERTIES
  JobServed
  LoopEnds
