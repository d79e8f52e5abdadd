\* Safety: two sales, two overlapping requests, failures at any await.
SPECIFICATION FiscalSpec
CONSTANTS
  s1 = s1
  s2 = s2
  f1 = f1
  f2 = f2
  Sale = {s1, s2}
  Flow = {f1, f2}
  MaxFaults = 3
  None = None
SYMMETRY Interchangeable
INVARIANTS FiscalTypeOK PrintedOnce OneInvoiceAtATime InvoiceNumberIsOwn
PROPERTIES TransitionsAreLinear
