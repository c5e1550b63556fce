CONSTANTS
  s1 = s1
  v1 = v1
  v2 = v2
  b1 = b1
  b2 = b2
  NULL = NULL
  Students = {s1}
  Vendors = {v1}
  Branches = {b1}
  VendorOf <- MCVendorOf
  TxIds = {1, 2, 3}
  Keys = {k1, k2}
  References = {}
  Amounts = {1}
  Opening <- MCOpening
  MaxTime = 2
  Jobs = {j1, j2}
  SuspensionDays = 1
  MaxCrashes = 1
SPECIFICATION MonitorSpec
PROPERTIES
  SuspensionsJustified
  OverdrawnVendorIsSuspended
  RecoveredVendorIsReinstated
