CONSTANTS
  s1 = s1
  v1 = v1
  NULL = NULL
  Students = {s1}
  Vendors = {v1}
  Branches = {b1}
  VendorOf <- MCVendorOf
  TxIds = {1, 2, 3, 4}
  Keys = {1, 2, k1}
  References = {}
  Amounts = {1, 2}
  Opening <- MCOpening
  MaxTime = 0
  Batches = {1, 2}
  Threshold = 1
  MaxCrashes = 1
SPECIFICATION Spec
INVARIANTS
  PayoutsMatchLedger
  TransfersWithinEarnings
PROPERTIES
  PaidTransferIsPosted
