CONSTANTS
  s1 = s1
  v1 = v1
  b1 = b1
  NULL = NULL
  Students = {s1}
  Vendors = {v1}
  Branches = {b1}
  VendorOf <- MCVendorOf
  TxIds = {1, 2, 3}
  Keys = {k1, k2}
  References = {}
  Amounts = {1, 2}
  Opening <- MCOpening
  MaxTime = 0
  Operators = {u1, u2}
  OpIds = {f1, f2}
SPECIFICATION Spec
SYMMETRY Symmetry
INVARIANTS
  OperationsMatchLedger
  RefundsWithinSpend
PROPERTY
  OperationOutcomeFinal
