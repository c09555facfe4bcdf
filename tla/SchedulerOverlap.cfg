CONSTANTS
  Posts = {p1, p2}
  second = p2
  CronRuns = {cron}
  MaxPosts = 2
SPECIFICATION ScenesSpec
INVARIANTS
  AttemptsAuthorized
PROPERTIES
  EmergencyPauseStands
  ResumeProvesDelivery
  AlarmSurvives
