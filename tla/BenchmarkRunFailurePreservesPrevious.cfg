CONSTANTS
  MemberCount = 1
  EndpointCount = 1
  MeasuredRuns = 3
  MaxDisturbances = 0
  MaxSignals = 1

SPECIFICATION Spec

INVARIANT FailurePreservesPrevious

CHECK_DEADLOCK FALSE
