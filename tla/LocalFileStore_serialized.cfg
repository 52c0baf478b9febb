CONSTANTS
  Process = {w1, w2, w3}
  Nobody = nobody
  Serialized = TRUE
  MayDie = {w1, w2}
  Foreign = {w2, w3}
  Prompt = FALSE
SPECIFICATION FairSpec
INVARIANTS TypeOK NoLeakedWriteLock
PROPERTY ImplementsLedger
PROPERTY EventuallyStored
CHECK_DEADLOCK FALSE
