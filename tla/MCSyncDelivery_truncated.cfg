\* Violation: a truncated answer leaves its delivery claimed for ever.
SPECIFICATION FairSpec
CONSTANTS
  a1 = a1
  a2 = a2
  d1 = d1
  d2 = d2
  r1 = r1
  r2 = r2
  none = none
  Event <- TwoFacts
  Aggregate = {a1}
  AggregateOf <- OneRate
  VersionOf <- OneVersion
  Contract <- AllSupported
  Listed = {}
  RateHistory = {}
  Destination = {d1}
  Relay = {r1}
  AttemptsPerCycle = 2
  BatchLimit = 1
  MaxFaults = 1
  MaxResumes = 0
  MayTruncate = TRUE
  None = none
PROPERTIES TruncationIsRetried
CHECK_DEADLOCK FALSE
