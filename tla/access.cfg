SPECIFICATION FairSpec
CONSTANTS
  NumBytes = 8
  Addresses = {0, 1, 2, 3}
INVARIANTS
  TypeOK
  LoadsReadTheirBytes
  StoresWriteTheirBytes
  FaultsAreReported
  FirstFailingAddress
  OneAnswerPerAccess
PROPERTIES
  RequestHeld
  EveryAccessEnds
