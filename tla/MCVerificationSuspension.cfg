SPECIFICATION SuspensionSpec
CONSTANTS
  Invoices = {i1}
  Payments = {p1, p2}
  Jobs = {"DAILY"}
  Workers = {w1, w2}
  LeaseRows <- MCRows
  MaxCrashes = 1
  NULL = NULL
CHECK_DEADLOCK FALSE
PROPERTIES
  DecidedOnDebt
  SettledVendorIsReinstated
  OverdueVendorIsSuspended
