CONSTANTS
  Process = {w1, w2, w3}
  Nobody = nobody
  Serialized = FALSE
  MayDie = {w1}
  Foreign = {}
  Prompt = TRUE
SPECIFICATION Spec
INVARIANT NoSilentLostUpdate
CHECK_DEADLOCK FALSE
