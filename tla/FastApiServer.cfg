SPECIFICATION FairSpec
CONSTANTS
  Limit = 16
  MaxDigits = 2
  Invalid = Invalid
  Requests = {r1, r2}
  Texts <- MCTexts
  ItemIds <- MCItemIds
  Rows = {a, b}
  NoRow = NoRow
  Unread = Unread
  MaxSize = 1
  Envs <- MCEnvs
INVARIANTS
  TypeOK
  HeldWithinPool
  NothingLeftBehind
  ErrorsNeedTrouble
PROPERTIES
  RefusedExactly
  HealthyMeansProven
  ImplementsItemService
  RequestsSettle
  StartSettles
  StopEnds
CHECK_DEADLOCK FALSE
