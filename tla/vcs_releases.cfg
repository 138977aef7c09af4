CONSTANTS
  None = None
  IllTyped = IllTyped
  Torn = Torn
  NotAMapping = NotAMapping
  WrongType = WrongType
  Projects = {}
  Repos <- MCRepos
  Series <- MCSeries
  Builds <- MCVcsChecks
  MaxRuns = 3
  MaxEdits = 2
SPECIFICATION Spec
INVARIANT ReleasesInOrder
CHECK_DEADLOCK FALSE
