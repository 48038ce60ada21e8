SPECIFICATION FairPublicationSpec
CONSTANTS
  Runs = {r1, r2, r3}
  Code = {c0, c1, c2}
  Root = c0
  MaxDisturbances = 1
  MaxAttempts = 2
INVARIANTS
  PublicationTypeOK
  ResultsExtendTheirSource
  OnePublicationPerRun
  PublishedByItsMeasurement
  OutputsAreOnMain
PROPERTIES
  EveryRunSettles
ACTION_CONSTRAINT BoundedStep
CHECK_DEADLOCK FALSE
