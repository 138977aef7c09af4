SPECIFICATION Spec
CONSTANTS
  Scenarios <- MCMisgrouped
PROPERTIES
  StartsInFirstCycle
