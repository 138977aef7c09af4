SPECIFICATION FairIfSpec
CONSTANTS
  NUM_REQS = 2
  NumHalves = 4
  Kinds <- MCKinds
  Denied = {0}
INVARIANT FetchFaultsAreReal
PROPERTIES
  KeepsDelivering
  Drains
