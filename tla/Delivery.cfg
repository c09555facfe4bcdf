CONSTANTS
  Posts = {1, 2}
  second = 2
  companion = w2
  Workers = {w1, w2}
  LineageRequired = {1}
  BatchSize = 1
  MaxTime = 1
  MaxReopened = 2
SPECIFICATION FairScenesSpec
CHECK_DEADLOCK FALSE
INVARIANTS
  AtMostOncePerApproval
  PublishedIsOutOfReach
  OneAttemptAtATime
  PostedIsPublished
  PublishedHasLineage
PROPERTIES
  PostedIsFinal
  ImplementsPermit
  ImplementsRows
  DueIsAttempted
  AbandonedIsLabelled
