SPECIFICATION FairSpec
CONSTANTS
  Scenarios <- MCScenarios
INVARIANTS
  TypeOK
  NoDoubleSpecialReqPCSet
  NoPCSetOnSpecialReqIfNotExpected
PROPERTIES
  ImplementsHart
  StartsInFirstCycle
  InstructionsEnd
  InterruptsServed
  HaltsOnRequest
  SleepEnds
