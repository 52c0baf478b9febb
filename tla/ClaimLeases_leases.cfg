SPECIFICATION Spec
CONSTANTS
  p1 = p1  p2 = p2  p3 = p3  a = a  b = b
  cell = cell  pathF = pathF  pathG = pathG  f = f  g = g
  Process = {p1, p2}
  Agent = {a, b}
  AgentOf <- TwoAgents
  Surface = {cell, pathF}
  File = {f}
  Covers <- Owned
  Overlap <- Clash
  RequestedId = {i1}
  Lifetime <- Lives
  BadTtl = BadTtl
  NoClaim = NoClaim
  MaxSkew = 1
  MaxTime = 2
  MaxClaims = 2
INVARIANTS LeasesDisjoint NoLastingLockout
PROPERTIES ClaimsKept HandoffForward
CHECK_DEADLOCK FALSE
