SPECIFICATION Spec
CONSTANTS
  Scenarios <- MCStepped
INVARIANTS
  InterruptsIgnoredWhileStepping
