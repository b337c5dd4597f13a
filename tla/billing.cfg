CONSTANTS
  u1 = u1
  u2 = u2
  r1 = r1
  r2 = r2
  r3 = r3
  None = None
  Users = {u1, u2}
  Requests = {r1, r2, r3}
  UserOf <- MCUserOf
  CostOf <- MCCostOf
  b1 = b1
  b2 = b2
  MayFail = {r1}
  Touched = {u2}
  Runs = {b1, b2}
  Ticks = 2
  MaxTime = 2
SPECIFICATION Spec
SYMMETRY RunSymmetry
INVARIANTS TypeOK InvoicedOnce InvoiceComplete ReportsAgree
CHECK_DEADLOCK FALSE
