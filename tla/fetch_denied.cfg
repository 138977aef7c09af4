SPECIFICATION IfSpec
CONSTANTS
  NUM_REQS = 2
  NumHalves = 4
  Kinds <- MCKinds
  Denied = {1}
INVARIANT DeniedNeverExecutes
