SPECIFICATION FairSpec
CONSTANTS
  RegWords = 2
  NumBytes = 320
  MaxIterations = 16
  ImmResult = 316
  Scenarios <- MCSupported
INVARIANTS
  TypeOK
  AnswersReachTheirUnit
  LeavesNothingBehind
PROPERTIES
  InstructionsTakeEffect
  RequestHeld
  EveryInstructionEnds
