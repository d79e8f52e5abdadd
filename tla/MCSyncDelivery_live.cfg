\* Liveness: one worker, two destinations; nothing stays pending for ever.
SPECIFICATION FairSpec
CONSTANTS
  a1 = a1
  a2 = a2
  d1 = d1
  d2 = d2
  r1 = r1
  r2 = r2
  none = none
  Event <- TwoFacts
  Aggregate = {a1}
  AggregateOf <- OneRate
  VersionOf <- FirstIsNewer
  Contract <- SecondUnsupported
  Listed = {2}
  RateHistory = {a1}
  Destination = {d1, d2}
  Relay = {r1}
  AttemptsPerCycle = 1
  BatchLimit = 1
  MaxFaults = 2
  MaxResumes = 1
  MayTruncate = FALSE
  None = none
PROPERTIES EventuallySettled
CHECK_DEADLOCK FALSE
