CONSTANTS
  None = None
  IllTyped = IllTyped
  Torn = Torn
  NotAMapping = NotAMapping
  WrongType = WrongType
  Projects <- MCProjects
  Repos <- MCRepos
  Series <- MCSeries
  Builds <- MCBuilds
  MaxRuns = 3
  MaxEdits = 2
SPECIFICATION Spec
INVARIANTS TypeOK LockTellsTheTree BuildsWhatItNames ChecksTheReleases ConvertedFromOriginals
PROPERTIES LockFollowsTheTree RefusalsTouchNothing CommitsReproduce
CHECK_DEADLOCK FALSE
