SPECIFICATION Spec
CONSTANTS
  Runs = {r1}
  Code = {c0, c1}
  Root = c0
  MaxDisturbances = 2
  MaxAttempts = 1
  MaxDeployments = 3
  NoRun = NoRun
  MaxHistory = 1
  MaxRetries = 0
PROPERTIES
  StaleRunsCannotCancel
CHECK_DEADLOCK FALSE
