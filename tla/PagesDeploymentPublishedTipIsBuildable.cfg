SPECIFICATION Spec
CONSTANTS
  Runs = {r1, r2}
  Code = {c0, c1}
  Root = c0
  MaxDisturbances = 2
  MaxAttempts = 1
  MaxDeployments = 1
  NoRun = NoRun
  MaxHistory = 1
  MaxRetries = 0
INVARIANTS
  PublishedTipIsBuildable
CHECK_DEADLOCK FALSE
