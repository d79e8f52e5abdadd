\* Violation: a stop inside recordStep leaves a settled operation pending.
SPECIFICATION OperationFairSpec
CONSTANTS
  receipt = receipt
  count = count
  other = other
  i1 = i1
  i2 = i2
  purchase = purchase
  approval = approval
  w1 = w1
  none = none
  Event <- Facts
  Aggregate = {receipt, count, other}
  AggregateOf <- Owners
  VersionOf <- Versions
  ConsumersOf <- Inventory
  DependsOn <- NoDependencies
  Projects <- NotProjected
  Issue <- Units
  Names <- ItemNames
  Makes = {1, 3}
  Own = {}
  OpeningItem = none
  OpeningStock = 0
  Registered = {"INVENTORY_AUTHORITY"}
  Worker = {w1}
  BatchLimit = 2
  MaxFaults = 1
  None = none
  Operation = {purchase, approval}
  EvidenceOf <- Evidence
  MayTear = TRUE
PROPERTIES EvidenceCompletes
CHECK_DEADLOCK FALSE
