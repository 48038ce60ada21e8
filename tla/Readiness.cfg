SPECIFICATION FairSpec
CONSTANTS
  Timeout = 6
  RequestTimeout = 2
  Interval = 1
  CheckTimeout = 2
  MaxRestarts = 1
INVARIANTS
  TypeOK
  ReadyIsServed
  BlamedRightly
  EndsByBound
PROPERTIES
  WaitEnds
CHECK_DEADLOCK FALSE
