CONSTANTS
  Posts = {p1}
  CronRuns = {}
  MaxPosts = 2
SPECIFICATION FairSpec
PROPERTIES
  TemporaryPauseEnds
  CanaryEnds
