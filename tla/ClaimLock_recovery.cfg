SPECIFICATION FairSpec
CONSTANTS
  Process = {p1, p2, p3}
  Nobody = Nobody
  Blank = Blank
  Elsewhere = {p2, p3}
  MaxDepth = 2
  MayDie = {p1, p2}
  Prompt = TRUE
PROPERTIES ImplementsMutex LiveLockStays LeftLockRecovered
CHECK_DEADLOCK FALSE
