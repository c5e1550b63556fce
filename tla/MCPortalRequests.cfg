SPECIFICATION RequestsSpec
CONSTANTS
  Verifications = {v1}
  Handlers = {h1, h2}
  MaxMonths = 2
  MaxFailures = 1
  NULL = NULL
  Devices = {d1}
  MaxCodes = 2
  MaxAttempts = 1
  Clients = {q1, q2}
  Branches = {b1, b2}
  References = {p1, p2}
  MaxApplications = 1
  MaxRequests = 2
  MaxInvites = 2
  Inviters = {i1, i2}
  Accepters = {a1, a2}
  t1 = t1
  t2 = t2
  w1 = w1
  w2 = w2
  Tabs = {t1, t2}
  Browsers = {w1, w2}
  Layouts <- MCLayouts
  MaxInstructions = 2
CHECK_DEADLOCK FALSE
INVARIANTS
  ChargesMatchDecisions
  ReusedTokenEndsSession
  AcceptanceIsBacked
  StaffInviteAdmits
  UnresolvedIsStored
PROPERTIES
  OnlyNewestCodeOpens
  ApprovedAsConfirmed
