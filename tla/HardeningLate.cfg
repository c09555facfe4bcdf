CONSTANTS
  timeout = timeout
  refused = refused
  Signature <- OwnSignature
  Route <- SharedRoute
  Request <- SharedRequest
  Convergence = convergence
  BatchSize = 1
  Rules = {convergence, other, emptyState}
  PromotedRules = {convergence, other}
  EmptyStateRule = emptyState
  Incidents = {i1, i2}
  Failures = {blocked, timeout}
  Client = {blocked}
  Provider = {blocked}
  Unreceived = {blocked}
  Efficiency = {}
  ExpectedEmpty = {}
  Offers <- AllAtOnce
  Calls = {c1}
  Operators = {op}
  CronRuns = {cron}
  MaxCrashes = 1
SPECIFICATION LateFairSpec
CHECK_DEADLOCK FALSE
INVARIANTS
  JournalNotAhead
  JournalComplete
  ClosedIsProven
  ReconciledHasGround
PROPERTIES
  MovesForward
  ResumedIsClosed
