SPECIFICATION FairSpec
CONSTANTS
  Runs = {r1}
  Code = {c0, c1}
  Root = c0
  MaxDisturbances = 1
  MaxAttempts = 2
  MaxDeployments = 3
  NoRun = NoRun
  MaxHistory = 1
  MaxRetries = 1
INVARIANTS
  TypeOK
  TipStaysShown
PROPERTIES
  EveryDeploymentSettles
  ImplementsPublishedSite
ACTION_CONSTRAINT BoundedStep
CHECK_DEADLOCK FALSE
