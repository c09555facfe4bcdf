CONSTANTS
  Posts = {1}
  Workers = {w1, w2}
  LineageRequired = {}
  BatchSize = 1
  MaxTime = 1
  MaxReopened = 1
SPECIFICATION Spec
CHECK_DEADLOCK FALSE
PROPERTIES
  ActiveAttemptNotReclaimed
