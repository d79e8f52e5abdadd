\* Safety: purchases, counts and sales of both nodes, availabilities late and repeated.
SPECIFICATION StockSpec
CONSTANTS
  r1 = r1
  r2 = r2
  c1 = c1
  s1 = s1
  Receipt = {r1, r2}
  StockCount = {c1}
  Sale = {s1}
  Source = {"INVOICE"}
  Cost = {3}
  AdjustmentType = {"WASTE"}
  MaxQuantity = 1
  Counted = {1}
  MaxMovements = 4
  MaxLoose = 1
  None = None
SYMMETRY Interchangeable
CHECK_DEADLOCK FALSE
INVARIANTS StockTypeOK ReferencesAreSnapshots CountsLandOnWhatWasCounted ReceiptsAreInStockOnce
  SoldGoodsMoveOnce
