SPECIFICATION Spec
CONSTANTS
  Process = {p1, p2}
  Nobody = Nobody
  Blank = Blank
  Elsewhere = {p2}
  MaxDepth = 1
  MayDie = {}
  Prompt = FALSE
INVARIANT OneHolder
CHECK_DEADLOCK FALSE
