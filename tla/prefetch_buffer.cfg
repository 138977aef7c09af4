SPECIFICATION Spec
CONSTANTS
  NUM_REQS = 2
  NumHalves = 8
  Kinds <- MCKinds
INVARIANTS
  TypeOK
  CVE2FetchFifoPushFull
  DiscardsWhatIsStale
  RequestHeld
PROPERTIES
  ImplementsStream
