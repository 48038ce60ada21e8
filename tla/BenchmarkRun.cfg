CONSTANTS
  MemberCount = 2
  EndpointCount = 2
  MeasuredRuns = 3
  MaxDisturbances = 1
  MaxSignals = 2

SPECIFICATION FairSpec

INVARIANTS
  TypeOK
  IsolatedMeasurement
  PublishedReportIsComplete
  ReclaimedOnExit
  SuccessMeansSaved

PROPERTIES
  PublishedOnlyWhenClean
  ImplementsCohort
  Terminates

CHECK_DEADLOCK FALSE
