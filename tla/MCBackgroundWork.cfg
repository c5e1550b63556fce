SPECIFICATION BackgroundSpec
CONSTANTS
  Charges = {c1, c2}
  Runs = {r1, r2}
  MaxMonths = 3
  Students = {s1, s2}
  MaxRetries = 1
  MaxFaults = 1
  MaxStops = 1
CHECK_DEADLOCK FALSE
INVARIANTS
  OutcomesAreTrue
PROPERTIES
  InvoiceContentsFinal
  ChargeIsInvoiced
  BatchEnds
