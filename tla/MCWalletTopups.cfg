CONSTANTS
  s1 = s1
  v1 = v1
  NULL = NULL
  Students = {s1}
  Vendors = {v1}
  Branches = {}
  VendorOf <- MCVendorOf
  TxIds = {1, 2, 3}
  Keys = {k1, k2}
  References = {}
  Amounts = {1}
  Opening <- MCOpening
  MaxTime = 0
  Reconcilers = {w1, w2}
  MaxCrashes = 1
  MaxFaults = 1
SPECIFICATION MCSpec
INVARIANTS
  CreditedOnlyIfPaid
  BalancesMatchLedger
PROPERTIES
  PaidIsCredited
  VendorAttemptIsRepaired
