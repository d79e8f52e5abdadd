\* Violation: a credit note takes the number of the invoice it returns.
SPECIFICATION FiscalSpec
CONSTANTS
  s1 = s1
  s2 = s2
  f1 = f1
  f2 = f2
  Sale = {s1}
  Flow = {f1, f2}
  MaxFaults = 1
  None = None
INVARIANTS IssuedWasCommitted
