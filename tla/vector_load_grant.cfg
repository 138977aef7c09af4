SPECIFICATION Spec
CONSTANTS
  RegWords = 2
  NumBytes = 320
  MaxIterations = 16
  ImmResult = 316
  Scenarios <- MCLoadGrant
PROPERTY RequestHeld
