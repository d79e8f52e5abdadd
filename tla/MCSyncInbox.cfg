\* Two workers over one inbox, with every failure: safety and liveness.
SPECIFICATION InboxFairSpec
CONSTANTS
  sale = sale
  return = return
  receipt = receipt
  other = other
  i1 = i1
  i2 = i2
  w1 = w1
  w2 = w2
  none = none
  Event <- SaleFacts
  Aggregate = {sale, return, receipt, other}
  AggregateOf <- SaleOwners
  VersionOf <- SaleVersions
  ConsumersOf <- SaleInterested
  DependsOn <- SaleDependencies
  Projects <- SaleProjected
  Issue <- SaleUnits
  Names <- SaleNames
  Makes = {3, 4}
  Own = {4}
  OpeningItem = none
  OpeningStock = 0
  Registered = {"COMMERCIAL_PROJECTION", "INVENTORY_AUTHORITY"}
  Worker = {w1, w2}
  BatchLimit = 4
  MaxFaults = 1
  None = none
INVARIANTS InboxTypeOK MarkedIffIssued NoReturnIsLost DiscrepanciesStayOpen DependenciesFirst
PROPERTIES PendingIsProcessed
CHECK_DEADLOCK FALSE
