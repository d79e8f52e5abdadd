\* Safety: two days, four reports, two overlapping requests, failures at any await.
SPECIFICATION FiscalDaySpec
CONSTANTS
  d1 = d1
  d2 = d2
  k1 = k1
  k2 = k2
  k3 = k3
  k4 = k4
  f1 = f1
  f2 = f2
  Day = {d1, d2}
  Key = {k1, k2, k3, k4}
  Flow = {f1, f2}
  MaxFaults = 3
  None = None
SYMMETRY Interchangeable
CHECK_DEADLOCK FALSE
INVARIANTS FiscalDayTypeOK ReportsPrintedOnce ClosedByItsZ UnrecordedZHoldsTheTerminal
PROPERTIES DaysAreLinear
