CONSTANTS
  NULL = NULL
  Invoices = {i1}
  MaxAttempts = 2
  Handlers = {h1, h2}
  MaxCrashes = 1
SPECIFICATION PaymentSpec
CHECK_DEADLOCK FALSE
INVARIANTS
  SettledOnce
PROPERTIES
  ImplementsLifecycle
  PaidIsReceipted
