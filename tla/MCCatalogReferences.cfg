\* Safety: every order of application of two products, their masters and settings.
SPECIFICATION ReferencesSpec
CONSTANTS
  c1 = c1
  u1 = u1
  cash = cash
  discount = discount
  rate = rate
  p1 = p1
  p2 = p2
  a = a
  b = b
  s = s
  t = t
  None = None
  Category = {c1}
  Unit = {u1}
  Method = {cash}
  Policy = {discount}
  Pair = {rate}
  Product = {p1, p2}
  Barcode = {a, b}
  Price = {1}
  Setting = {s, t}
  MaxChanges = 4
SYMMETRY CatalogueSymmetry
INVARIANTS ReferencesTypeOK ReferencesFollowTheCoordinator
CHECK_DEADLOCK FALSE
