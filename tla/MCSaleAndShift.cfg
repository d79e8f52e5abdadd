\* Safety: two sales, two shifts, commands sent again with the same or another key.
SPECIFICATION StoreSpec
CONSTANTS
  s1 = s1
  s2 = s2
  h1 = h1
  h2 = h2
  k1 = k1
  k2 = k2
  Sale = {s1, s2}
  Shift = {h1, h2}
  Key = {k1, k2}
  Method = {"CASH", "CARD"}
  CashMethod = {"CASH"}
  Price = 2
  MaxItems = 1
  MaxAmount = 1
  MaxMovements = 1
  OpeningStock = 1
  None = None
SYMMETRY Interchangeable
CHECK_DEADLOCK FALSE
INVARIANTS StoreTypeOK PaymentsAreInTheirShift ClosedShiftsBalance RefundsMatchReturns
  OverdrawnOnlyByRefunds OneEffectPerKey StockIsConserved
