SPECIFICATION WebhookSpec
CONSTANTS
  Events = {e1}
  MaxConfigs = 2
  MaxAutomatic = 2
  MaxRetries = 1
  Workers = {w1, w2}
  MaxCrashes = 1
  NULL = NULL
CHECK_DEADLOCK FALSE
INVARIANT DeliveredWasReceived
PROPERTY DeliveryEnds
