SPECIFICATION FairSpec
CONSTANTS
  Limit = 16
  MaxDigits = 2
  Invalid = Invalid
  Requests = {r1, r2}
  Texts <- MCTexts
  ItemIds <- MCItemIds
  Rows = {a}
  NoRow = NoRow
  Unread = Unread
  Envs <- MCEnvs
  MaxCrashes = 1
PROPERTIES
  QueriesAreBounded
CHECK_DEADLOCK FALSE
