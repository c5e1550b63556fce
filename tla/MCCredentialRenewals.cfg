SPECIFICATION RenewalSpec
CONSTANTS
  Workers = {w1, w2}
  MaxOffers = 2
  MaxTries = 1
  MaxTroubles = 1
  NULL = NULL
CHECK_DEADLOCK FALSE
PROPERTIES
  CancelledStaysUnprepared
  DueRenewalEnds
  AcceptedIsActivated
  ReplacedIsRevoked
