\* Safety: two relay workers over one outbox, one destination, every failure.
SPECIFICATION Spec
CONSTANTS
  a1 = a1
  a2 = a2
  d1 = d1
  d2 = d2
  r1 = r1
  r2 = r2
  none = none
  Event <- FourFacts
  Aggregate = {a1, a2}
  AggregateOf <- RateAndOther
  VersionOf <- SecondIsNewer
  Contract <- ThirdInvalid
  Listed = {4}
  RateHistory = {a1}
  Destination = {d1}
  Relay = {r1, r2}
  AttemptsPerCycle = 2
  BatchLimit = 2
  MaxFaults = 2
  MaxResumes = 1
  MayTruncate = TRUE
  None = none
SYMMETRY RelaySymmetry
INVARIANTS TypeOK PublishedHasCustody OneLiveClaim ExhaustedIsPaused
PROPERTIES SettledForGood DeliversInOrder
CHECK_DEADLOCK FALSE
