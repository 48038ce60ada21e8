SPECIFICATION FairSpec
CONSTANTS
  Limit = 16
  MaxDigits = 2
  Invalid = Invalid
  Requests = {r1, r2}
  Texts <- MCTexts
  ItemIds <- MCItemIds
  Rows = {a, b}
  NoRow = NoRow
  Unread = Unread
  Envs <- MCEnvs
  MaxCrashes = 2
INVARIANTS
  TypeOK
  PoolOutlivesRequests
  CleanWorkerExit
PROPERTIES
  HealthyMeansProven
  ImplementsItemService
  SettlesUnlessStalled
  StopEnds
CHECK_DEADLOCK FALSE
