CONSTANTS
  timeout = timeout
  refused = refused
  Signature <- OwnSignature
  Route <- SharedRoute
  Request <- SharedRequest
  Convergence = convergence
  BatchSize = 1
  Client = {}
  Provider = {}
  Unreceived = {}
  Rules = {convergence, emptyState}
  PromotedRules = {convergence}
  EmptyStateRule = emptyState
  Incidents = {i1, i2, i3}
  Failures = {timeout, refused}
  Efficiency = {timeout}
  ExpectedEmpty = {refused}
  Offers <- Nothing
  Calls = {c1, c2}
  Operators = {}
  CronRuns = {}
  MaxCrashes = 1
SPECIFICATION Spec
SYMMETRY Symmetry
CHECK_DEADLOCK FALSE
INVARIANT
  OneOpenPerRoute
