SPECIFICATION FairSpec
CONSTANTS
  Process = {w1, w2, w3}
  Nobody = Nobody
  MaxCasRetries = 2
  MaxLost = 2
INVARIANTS LeaseExclusive RefusedIsNotStored
PROPERTIES ImplementsLedger EventuallySettled
CHECK_DEADLOCK FALSE
