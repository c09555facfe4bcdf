CONSTANTS
  plan = plan
  other = other
  Decisions = {plan, other}
  ListLimit = 1
  Tools = {setMode}
  CanaryTool = setMode
  Budget <- OneCanary
  Calls = {c1, c2}
  Owners = {o1}
  CronRuns = {k1}
  MaxApprovals = 2
SPECIFICATION FairScenesSpec
CHECK_DEADLOCK FALSE
INVARIANTS
  BudgetKept
  ActivationsApproved
PROPERTIES
  ReopenedByOwner
  ApprovedCanaryActivated
