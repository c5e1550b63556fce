CONSTANTS
  s1 = s1
  s2 = s2
  v1 = v1
  b1 = b1
  NULL = NULL
  Students = {s1, s2}
  Vendors = {v1}
  Branches = {b1}
  VendorOf <- MCVendorOf
  TxIds = {1, 2}
  Keys = {k1, k2}
  References = {o1, o2}
  Amounts = {1}
  Opening <- MCOpening
  MaxTime = 2
  Lifetime = 1
  Sales = {r1, r2}
  Tills = {p1, p2}
SPECIFICATION Spec
SYMMETRY Symmetry
INVARIANTS
  SaleChargedIffPaid
